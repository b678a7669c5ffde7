-------------------------- MODULE Esp8266Proofs -----------------------------
(***************************************************************************)
(* Proofs about the sockets of the ESP8266, for every number of            *)
(* applications, sockets, frames, sends and timeouts.                      *)
(***************************************************************************)
EXTENDS Esp8266, ListLemmas

-----------------------------------------------------------------------------
(* The inductive invariant *)

\* What the variables hold.
Texts == {"OK", ">", "SEND OK", "+CIPDOMAIN", "ERROR"}
Lens == StreamLens \cup DatagramLens
Answers == {Answer(text) : text \in Texts}
Ipds == {Ipd(fd, s, k, len) : fd \in Fds, s \in Nat, k \in Nat, len \in Lens}
Parts == Answers \cup Ipds
Pieces == [sock : Nat, k : Nat, i : Nat, len : Nat]
LinkCmds == [kind : {"AT+CIPSTART", "AT+CIPSEND", "AT+CIPCLOSE"}, fd : Fds, sock : Nat]
Cmds == LinkCmds \cup {Payload(s, n) : s \in Nat, n \in Nat} \cup {CipDomain}
Rings == {ring \in Seq(Pieces) : Len(ring) <= RCVCACHE}
Sockets == [fd : Fds, type : Types, isConnect : BOOLEAN, rcvRing : Rings, live : BOOLEAN]
Histories == [peer : Seq(Ipds), got : Seq(Pieces \cup Seq(Pieces)), offered : Nat,
              acked : SUBSET Nat, net : Seq(Cmds)]
Workers == Apps \cup {Rcv}
Indexes == {"", "OK", ">", "SEND OK", "+CIPDOMAIN"}
AppStates == [pc : Pcs, sock : Nat, next : {"idle", "send"}]
Flags == [sendIndex : BOOLEAN, sendOK : BOOLEAN]
AtStates == [task : Apps \cup {Nobody}, index : Indexes, resp : Seq(Parts)]
DealStates == [parts : Seq(Parts), sock : Nat]

\* Every variable keeps its type.
Typed ==
    /\ app \in [Apps -> AppStates]
    /\ atLock \in Apps \cup {Nobody} /\ ioLock \in Workers \cup {Nobody}
    /\ sock \in Seq(Sockets) /\ hist \in Seq(Histories) /\ Len(hist) = Len(sock)
    /\ sockArray \in [Fds -> 0 .. Len(sock)] /\ link \in [Fds -> 0 .. Len(sock)]
    /\ flags \in Flags /\ at \in AtStates
    /\ deal \in [Workers -> DealStates]
    /\ cmds \in Seq(Cmds) /\ uart \in Seq(Parts)
    /\ prompted \in Fds \cup {-1}

\* Who has which socket, lock and command.
Locking == {"connect", "cipsend", "data", "sending", "tail", "close"}
Asking == {"connect", "cipsend", "sending", "close", "lookup"}
IndexAt(pc) ==
    CASE pc \in {"connect", "close"} -> "OK" [] pc = "cipsend" -> ">"
      [] pc = "sending" -> "SEND OK" [] pc = "lookup" -> "+CIPDOMAIN" [] OTHER -> ""

\* An application has a live socket of its own, which is in the table, or none.
Owns(a) ==
    /\ app[a].sock <= Len(sock)
    /\ app[a].sock # 0 => MySock(a).live /\ sockArray[MySock(a).fd] = app[a].sock
    /\ app[a].pc \notin {"idle", "lookup"} => app[a].sock # 0
    /\ app[a].pc \in Locking <=> atLock = a
    /\ deal[a].parts # << >> => app[a].pc = "tail"
    /\ \A b \in Apps : app[a].sock # 0 /\ app[b].sock = app[a].sock => a = b
Entry(fd) ==
    sockArray[fd] # 0 =>
      /\ sock[sockArray[fd]].fd = fd /\ sock[sockArray[fd]].live
      /\ \E a \in Apps : app[a].sock = sockArray[fd]
Owners == (\A a \in Apps : Owns(a)) /\ (\A fd \in Fds : Entry(fd))

\* The command of at_command is that of a task which waits for it.
Commanding ==
    /\ at.task # Nobody => app[at.task].pc \in Asking /\ at.index = IndexAt(app[at.task].pc)
    /\ at.task = Nobody => at = NoCommand
    /\ \A a \in Apps : app[a].pc = "lookup" => at.task = a
    /\ \A a \in Apps : app[a].pc \in {"cipsend", "data", "sending", "tail"} =>
                         hist[app[a].sock].offered > 0
    /\ \A i \in DOMAIN cmds : cmds[i] \in LinkCmds => cmds[i].sock <= Len(sock)

\* The frame that a task is just writing.
Dealing(w) ==
    /\ ioLock = w <=> deal[w].sock # 0
    /\ deal[w].sock # 0 =>
         /\ deal[w].parts # << >> /\ IsIpd(Head(deal[w].parts))
         /\ deal[w].sock <= Len(sock)
         /\ Fits(Head(deal[w].parts), deal[w].sock)
Dealings == \A w \in Workers : Dealing(w)

\* All frames are those that the peers sent.
FromPeer(f, h) ==
    IsIpd(f) => f.sock \in DOMAIN h /\ \E k \in DOMAIN h[f.sock].peer : h[f.sock].peer[k] = f
AllFromPeer(q, h) == \A i \in DOMAIN q : FromPeer(q[i], h)
Genuine ==
    /\ AllFromPeer(uart, hist) /\ AllFromPeer(at.resp, hist)
    /\ \A w \in Workers : AllFromPeer(deal[w].parts, hist)
    /\ \A s \in DOMAIN hist : \A k \in DOMAIN hist[s].peer :
         IsIpd(hist[s].peer[k]) /\ hist[s].peer[k].sock = s

\* All of this holds whatever goes wrong.
Basics == Typed /\ Owners /\ Commanding /\ Dealings /\ Genuine

-----------------------------------------------------------------------------
(* Lists and what they hold *)

\* A list with another element at one place.
LEMMA Updated ==
    ASSUME NEW S, NEW s \in Seq(S), NEW i, NEW e, i \in DOMAIN s => e \in S
    PROVE  LET r == [s EXCEPT ![i] = e]
           IN  /\ r \in Seq(S) /\ Len(r) = Len(s) /\ DOMAIN r = DOMAIN s
               /\ \A j \in DOMAIN s : r[j] = IF j = i THEN e ELSE s[j]
<1> DEFINE r == [s EXCEPT ![i] = e]
           n == Len(s)
<1>1. n \in Nat /\ DOMAIN s = 1 .. n
  BY LenProperties
<1>2. \A j \in 1 .. n : s[j] \in S
  BY ElementOfSeq
<1>3. r = [j \in 1 .. n |-> IF j = i THEN e ELSE s[j]]
  BY <1>1
<1>4. r \in [1 .. n -> S]
  BY <1>1, <1>2, <1>3
<1> HIDE DEF r, n
<1>5. r \in Seq(S) /\ Len(r) = n
  BY <1>1, <1>4, FunctionIsList
<1> QED
  BY <1>1, <1>3, <1>5 DEF r, n

\* A list with one element more.
LEMMA Appended ==
    ASSUME NEW S, NEW s \in Seq(S), NEW e \in S
    PROVE  LET r == Append(s, e)
           IN  /\ r \in Seq(S) /\ Len(r) = Len(s) + 1 /\ r # << >>
               /\ DOMAIN r = DOMAIN s \cup {Len(s) + 1} /\ Len(s) + 1 \notin DOMAIN s
               /\ r[Len(s) + 1] = e /\ \A j \in DOMAIN s : r[j] = s[j]
BY AppendProperties, LenProperties

\* A part of a list.
LEMMA Portion ==
    ASSUME NEW S, NEW s \in Seq(S), NEW m \in Nat \ {0}, NEW n \in Nat, n <= Len(s)
    PROVE  LET r == SubSeq(s, m, n)
           IN  /\ r \in Seq(S) /\ Len(r) = (IF m <= n THEN n - m + 1 ELSE 0)
               /\ \A i \in DOMAIN r : m + i - 1 \in DOMAIN s /\ r[i] = s[m + i - 1]
<1>1. Len(s) \in Nat /\ DOMAIN s = 1 .. Len(s) /\ \A i \in 1 .. Len(s) : s[i] \in S
  BY LenProperties, ElementOfSeq
<1> DEFINE r == SubSeq(s, m, n)
           l == IF m <= n THEN n - m + 1 ELSE 0
<1>2. r = [i \in 1 .. l |-> s[m + i - 1]]
  BY <1>1
<1>3. l \in Nat /\ \A i \in 1 .. l : m + i - 1 \in 1 .. Len(s)
  BY <1>1
<1>4. r \in [1 .. l -> S]
  BY <1>1, <1>2, <1>3
<1> HIDE DEF r, l
<1>5. r \in Seq(S) /\ Len(r) = l
  BY <1>3, <1>4, FunctionIsList
<1> QED
  BY <1>1, <1>2, <1>3, <1>5 DEF r, l

\* A list without its first element.
LEMMA Rest ==
    ASSUME NEW S, NEW s \in Seq(S), s # << >>
    PROVE  /\ Head(s) \in S /\ Head(s) = s[1] /\ 1 \in DOMAIN s
           /\ Tail(s) \in Seq(S) /\ Len(Tail(s)) = Len(s) - 1
           /\ \A i \in DOMAIN Tail(s) : i + 1 \in DOMAIN s /\ Tail(s)[i] = s[i + 1]
BY HeadTailProperties, LenProperties, ElementOfSeq, EmptySeq

\* Answers and frames are told by their kind.
LEMMA PartKinds ==
    /\ \A p \in Parts : IsIpd(p) <=> p \in Ipds
    /\ \A p \in Parts : ~IsIpd(p) => p.kind \in Texts
    /\ \A p \in Ipds : /\ p \in Parts /\ p.fd \in Fds /\ p.sock \in Nat /\ p.k \in Nat
                       /\ p.len \in Nat \ {0} /\ p.len \in Lens
    /\ \A text \in Texts : Answer(text) \in Parts /\ ~IsIpd(Answer(text))
                           /\ Answer(text).kind = text
    /\ \A fd \in Fds, s \in Nat, k \in Nat, len \in Lens :
         LET f == Ipd(fd, s, k, len)
         IN  f \in Ipds /\ IsIpd(f) /\ f.fd = fd /\ f.sock = s /\ f.k = k /\ f.len = len
<1>1. ASSUME NEW p \in Answers PROVE ~IsIpd(p) /\ p.kind \in Texts
  <2>1. PICK text \in Texts : p = Answer(text)
    BY DEF Answers
  <2> QED
    BY <2>1 DEF Answer, IsIpd, Texts
<1>2. \A p \in Ipds : /\ IsIpd(p) /\ p.fd \in Fds /\ p.sock \in Nat /\ p.k \in Nat
                      /\ p.len \in Nat \ {0} /\ p.len \in Lens
  BY Bounds DEF Ipds, Ipd, IsIpd, Lens
<1>3. \A text \in Texts : Answer(text) \in Parts /\ ~IsIpd(Answer(text))
                           /\ Answer(text).kind = text
  BY DEF Answers, Answer, IsIpd, Texts, Parts
<1>4. \A fd \in Fds, s \in Nat, k \in Nat, len \in Lens :
         LET f == Ipd(fd, s, k, len)
         IN  f \in Ipds /\ IsIpd(f) /\ f.fd = fd /\ f.sock = s /\ f.k = k /\ f.len = len
  BY DEF Ipds, Ipd, IsIpd
<1> QED
  BY <1>1, <1>2, <1>3, <1>4 DEF Parts

\* Commands are told by their kind.
LEMMA CmdKinds ==
    /\ \A c \in Cmds : c.kind \in {"AT+CIPSTART", "AT+CIPSEND", "AT+CIPCLOSE"} <=> c \in LinkCmds
    /\ \A c \in LinkCmds : c \in Cmds /\ c.fd \in Fds /\ c.sock \in Nat
    /\ \A s, n \in Nat : Payload(s, n) \in Cmds /\ Payload(s, n).kind = "data"
    /\ CipDomain \in Cmds /\ CipDomain.kind = "AT+CIPDOMAIN"
    /\ \A c \in Cmds : c.kind \in {"AT+CIPSTART", "AT+CIPSEND", "AT+CIPCLOSE",
                                   "AT+CIPDOMAIN", "data"}
BY DEF Cmds, LinkCmds, Payload, CipDomain

-----------------------------------------------------------------------------
(* Every variable keeps its type *)

\* The socket of an application.
LEMMA OwnSocket ==
    ASSUME Typed, NEW a \in Apps, Owns(a), app[a].sock # 0
    PROVE  /\ app[a].sock \in DOMAIN sock /\ app[a].sock \in DOMAIN hist
           /\ app[a].sock \in 1 .. Len(sock)
           /\ MySock(a) \in Sockets /\ MySock(a) = sock[app[a].sock]
           /\ MySock(a).fd \in Fds /\ MySock(a).live
           /\ sockArray[MySock(a).fd] = app[a].sock
           /\ hist[app[a].sock] \in Histories /\ hist[app[a].sock].offered \in Nat
<1>1. app[a].sock \in Nat /\ app[a].sock <= Len(sock)
  BY DEF Typed, AppStates, Owns
<1>2. Len(sock) \in Nat /\ DOMAIN sock = 1 .. Len(sock) /\ DOMAIN hist = 1 .. Len(sock)
  BY LenProperties DEF Typed
<1>3. app[a].sock \in 1 .. Len(sock)
  BY <1>1, <1>2
<1>4. sock[app[a].sock] \in Sockets /\ hist[app[a].sock] \in Histories
  BY <1>2, <1>3, ElementOfSeq DEF Typed
<1>5. MySock(a).fd \in Fds /\ hist[app[a].sock].offered \in Nat
  BY <1>4 DEF MySock, Sockets, Histories
<1> QED
  BY <1>2, <1>3, <1>4, <1>5 DEF MySock, Owns

\* Any socket.
LEMMA ASocket ==
    ASSUME Typed, NEW s \in 1 .. Len(sock)
    PROVE  /\ s \in DOMAIN sock /\ s \in DOMAIN hist
           /\ sock[s] \in Sockets /\ hist[s] \in Histories
           /\ sock[s].fd \in Fds /\ sock[s].type \in Types
           /\ sock[s].rcvRing \in Seq(Pieces) /\ Len(sock[s].rcvRing) \in 0 .. RCVCACHE
           /\ hist[s].peer \in Seq(Ipds) /\ hist[s].got \in Seq(Pieces \cup Seq(Pieces))
           /\ hist[s].offered \in Nat /\ hist[s].acked \in SUBSET Nat
           /\ hist[s].net \in Seq(Cmds)
<1>1. Len(sock) \in Nat /\ DOMAIN sock = 1 .. Len(sock) /\ DOMAIN hist = 1 .. Len(sock)
  BY LenProperties DEF Typed
<1>2. sock[s] \in Sockets /\ hist[s] \in Histories
  BY <1>1, ElementOfSeq DEF Typed
<1>3. sock[s].rcvRing \in Rings
  BY <1>2 DEF Sockets
<1>4. Len(sock[s].rcvRing) \in 0 .. RCVCACHE
  BY <1>3, LenProperties, Bounds DEF Rings
<1> QED
  BY <1>1, <1>2, <1>3, <1>4 DEF Sockets, Histories, Rings

\* The commands that an application writes.
LEMMA ItsCommand ==
    ASSUME Typed, NEW a \in Apps, Owns(a), app[a].sock # 0,
           NEW kind \in {"AT+CIPSTART", "AT+CIPSEND", "AT+CIPCLOSE"}
    PROVE  /\ Command(kind, a) \in LinkCmds /\ Command(kind, a) \in Cmds
           /\ Command(kind, a).sock = app[a].sock /\ Command(kind, a).fd = MySock(a).fd
           /\ Command(kind, a).kind = kind
BY OwnSocket DEF Command, LinkCmds, Cmds

\* What at_command does to the command and to what is written.
LEMMA AtTyped ==
    ASSUME Typed, NEW a \in Apps, NEW text \in Cmds, NEW index \in Indexes,
           at_command(a, text, index)
    PROVE  at' \in AtStates /\ cmds' \in Seq(Cmds)
<1>1. << >> \in Seq(Parts)
  BY EmptySeq
<1>2. Append(cmds, text) \in Seq(Cmds)
  BY AppendProperties DEF Typed
<1>3. [task |-> a, index |-> index, resp |-> << >>] \in AtStates
  BY <1>1 DEF AtStates
<1>4. at \in AtStates /\ cmds \in Seq(Cmds)
  BY DEF Typed
<1> QED
  BY <1>2, <1>3, <1>4 DEF at_command

LEMMA ReturnTyped ==
    ASSUME Typed, NEW a \in Apps, at_response(a) \/ at_timeout(a)
    PROVE  at' \in AtStates
<1>1. << >> \in Seq(Parts)
  BY EmptySeq
<1>2. NoCommand \in AtStates
  BY <1>1 DEF NoCommand, AtStates, Indexes
<1> QED
  BY <1>2 DEF at_response, at_timeout, Typed

\* What remains of a response with a frame in it begins with its first frame.
LEMMA FramesBehind ==
    ASSUME NEW parts \in Seq(Parts), HasIpd(parts)
    PROVE  /\ FromIpd(parts) \in Seq(Parts) /\ FromIpd(parts) # << >>
           /\ \E first \in DOMAIN parts :
                /\ IsIpd(parts[first]) /\ \A j \in 1 .. first - 1 : ~IsIpd(parts[j])
                /\ FromIpd(parts) = SubSeq(parts, first, Len(parts))
                /\ Len(FromIpd(parts)) = Len(parts) - first + 1
                /\ \A i \in DOMAIN FromIpd(parts) :
                     /\ first + i - 1 \in DOMAIN parts
                     /\ FromIpd(parts)[i] = parts[first + i - 1]
<1> DEFINE P(i) == IsIpd(parts[i]) /\ \A j \in 1 .. i - 1 : ~IsIpd(parts[j])
           first == CHOOSE i \in DOMAIN parts : P(i)
           T == {i \in DOMAIN parts : IsIpd(parts[i])}
<1>1. Len(parts) \in Nat /\ DOMAIN parts = 1 .. Len(parts)
  BY LenProperties
<1>2. \E i \in DOMAIN parts : P(i)
  <2>1. T \subseteq Nat /\ T # {}
    BY <1>1 DEF HasIpd
  <2>2. PICK x \in T : \A y \in T : x <= y
    BY <2>1, Least
  <2>3. \A j \in 1 .. x - 1 : j \in DOMAIN parts /\ j < x
    BY <1>1, <2>2
  <2>4. \A j \in 1 .. x - 1 : j \notin T
    BY <1>1, <2>2, <2>3
  <2> QED
    BY <2>2, <2>3, <2>4
<1>3. first \in DOMAIN parts /\ P(first)
  BY <1>2
<1>4. FromIpd(parts) = SubSeq(parts, first, Len(parts))
  BY DEF FromIpd
<1> HIDE DEF first
<1>5. first \in Nat \ {0} /\ first <= Len(parts)
  BY <1>1, <1>3
<1>6. /\ FromIpd(parts) \in Seq(Parts) /\ Len(FromIpd(parts)) = Len(parts) - first + 1
      /\ \A i \in DOMAIN FromIpd(parts) :
           first + i - 1 \in DOMAIN parts /\ FromIpd(parts)[i] = parts[first + i - 1]
  BY <1>1, <1>4, <1>5, Portion
<1>7. FromIpd(parts) # << >>
  BY <1>1, <1>5, <1>6, EmptySeq
<1> QED
  BY <1>3, <1>4, <1>6, <1>7

\* What Esp8266MsgDeal writes to a ring buffer.
LEMMA UnitsTyped ==
    ASSUME NEW f \in Ipds, NEW type \in Types
    PROVE  /\ Units(f, type) \in Seq(Pieces)
           /\ Len(Units(f, type)) = f.len + (IF type = "SOCK_DGRAM" THEN 1 ELSE 0)
<1>1. f.sock \in Nat /\ f.k \in Nat /\ f.len \in Nat
  BY PartKinds
<1>2. \A i \in Nat : Unit(f, i) \in Pieces
  BY <1>1 DEF Unit, Pieces
<1> DEFINE data == [i \in 1 .. f.len |-> Unit(f, i)]
           header == IF type = "SOCK_DGRAM" THEN <<Unit(f, 0)>> ELSE << >>
<1>3. data \in [1 .. f.len -> Pieces]
  BY <1>1, <1>2
<1>4. data \in Seq(Pieces) /\ Len(data) = f.len
  <2> HIDE DEF data
  <2> QED
    BY <1>1, <1>3, FunctionIsList
<1>5. header \in Seq(Pieces) /\ Len(header) = (IF type = "SOCK_DGRAM" THEN 1 ELSE 0)
  BY <1>2
<1>6. Units(f, type) = header \o data
  BY DEF Units
<1> HIDE DEF header, data
<1>7. header \o data \in Seq(Pieces) /\ Len(header \o data) = Len(header) + Len(data)
  BY <1>4, <1>5, Concatenated
<1> QED
  BY <1>1, <1>4, <1>5, <1>6, <1>7

\* It writes what there is room for, at the end.
LEMMA WrittenTyped ==
    ASSUME Typed, NEW s \in 1 .. Len(sock), NEW units \in Seq(Pieces)
    PROVE  /\ Written(s, units) \in Rings
           /\ Len(units) <= Room(s) => Written(s, units) = sock[s].rcvRing \o units
<1> DEFINE ring == sock[s].rcvRing
           m == IF Len(units) > Room(s) THEN Room(s) ELSE Len(units)
           part == SubSeq(units, 1, m)
<1>1. ring \in Seq(Pieces) /\ Len(ring) \in 0 .. RCVCACHE /\ RCVCACHE \in Nat
  BY ASocket, Bounds
<1>2. Len(units) \in Nat
  BY LenProperties
<1>3. Room(s) = RCVCACHE - Len(ring) /\ Room(s) \in Nat
  BY <1>1 DEF Room
<1>4. m \in Nat /\ m <= Len(units) /\ m <= Room(s)
  BY <1>2, <1>3
<1>5. Written(s, units) = ring \o part
  BY DEF Written
<1>6. part \in Seq(Pieces) /\ Len(part) = m
  <2> HIDE DEF m
  <2>1. Len(part) = (IF 1 <= m THEN m - 1 + 1 ELSE 0) /\ part \in Seq(Pieces)
    BY <1>4, Portion
  <2> QED
    BY <1>4, <2>1
<1>7. Len(units) <= Room(s) => part = units
  <2>1. SUFFICES ASSUME Len(units) <= Room(s) PROVE part = units
    OBVIOUS
  <2>2. m = Len(units)
    BY <1>2, <1>3, <2>1
  <2> QED
    BY <2>2
<1> HIDE DEF ring, part, m
<1>8. ring \o part \in Seq(Pieces) /\ Len(ring \o part) = Len(ring) + Len(part)
  BY <1>1, <1>6, Concatenated
<1>9. Len(ring \o part) <= RCVCACHE
  BY <1>1, <1>3, <1>4, <1>6, <1>8
<1> QED
  BY <1>5, <1>7, <1>8, <1>9 DEF Rings, ring

\* The actions of an application that leave the sockets alone.
LEMMA AppTyped ==
    ASSUME Typed, NEW a \in Apps, Owns(a),
           \/ Esp8266Close(a) \/ close_return(a) \/ data_command(a)
           \/ (\E next \in {"idle", "send"} : Esp8266Connect(a, next))
           \/ Esp8266GetHostByName(a) \/ lookup_return(a)
    PROVE  Typed'
<1>1. /\ app \in [Apps -> AppStates] /\ atLock \in Apps \cup {Nobody}
      /\ app[a].next \in {"idle", "send"}
  BY DEF Typed, AppStates
<1>2. ASSUME NEW pc \in Pcs, NEW next \in {"idle", "send"}
      PROVE  /\ [app EXCEPT ![a].pc = pc] \in [Apps -> AppStates]
             /\ [app EXCEPT ![a].pc = pc, ![a].next = next] \in [Apps -> AppStates]
  BY <1>1 DEF AppStates
<1>3. {"idle", "close", "free", "connect", "sending", "lookup"} \subseteq Pcs
  BY DEF Pcs
<1>4. app' \in [Apps -> AppStates] /\ atLock' \in Apps \cup {Nobody}
  <2>1. CASE Esp8266Close(a)
    BY <1>1, <1>2, <1>3, <2>1 DEF Esp8266Close, Lock
  <2>2. CASE close_return(a)
    BY <1>1, <1>2, <1>3, <2>2 DEF close_return, Unlock
  <2>3. CASE data_command(a)
    BY <1>1, <1>2, <1>3, <2>3 DEF data_command
  <2>4. CASE \E next \in {"idle", "send"} : Esp8266Connect(a, next)
    <3>1. PICK next \in {"idle", "send"} : Esp8266Connect(a, next)
      BY <2>4
    <3>2. app' = [app EXCEPT ![a].pc = "connect", ![a].next = next] /\ atLock' = a
      BY <3>1 DEF Esp8266Connect, Lock
    <3> QED
      BY <1>2, <1>3, <3>2
  <2>5. CASE Esp8266GetHostByName(a)
    BY <1>1, <1>2, <1>3, <2>5 DEF Esp8266GetHostByName
  <2>6. CASE lookup_return(a)
    BY <1>1, <1>2, <1>3, <2>6 DEF lookup_return
  <2> QED
    BY <2>1, <2>2, <2>3, <2>4, <2>5, <2>6
<1>5. at' \in AtStates /\ cmds' \in Seq(Cmds)
  <2>1. at \in AtStates /\ cmds \in Seq(Cmds)
    BY DEF Typed
  <2>2. CASE Esp8266Close(a)
    <3>1. Command("AT+CIPCLOSE", a) \in Cmds /\ "OK" \in Indexes
      BY <2>2, ItsCommand DEF Esp8266Close, Indexes
    <3> QED
      BY <2>2, <3>1, AtTyped DEF Esp8266Close
  <2>3. CASE close_return(a)
    BY <2>1, <2>3, ReturnTyped DEF close_return
  <2>4. CASE data_command(a)
    <3>1. app[a].sock \in Nat /\ hist[app[a].sock].offered \in Nat
      BY <1>1, <2>4, OwnSocket DEF data_command, Owns, AppStates
    <3>2. Payload(app[a].sock, hist[app[a].sock].offered) \in Cmds /\ "SEND OK" \in Indexes
      BY <3>1, CmdKinds DEF Indexes
    <3> QED
      BY <2>4, <3>2, AtTyped DEF data_command
  <2>5. CASE \E next \in {"idle", "send"} : Esp8266Connect(a, next)
    <3>1. Command("AT+CIPSTART", a) \in Cmds /\ "OK" \in Indexes
      BY <2>5, ItsCommand DEF Esp8266Connect, Indexes
    <3> QED
      BY <2>5, <3>1, AtTyped DEF Esp8266Connect
  <2>6. CASE Esp8266GetHostByName(a)
    <3>1. at' \in AtStates
      <4>1. << >> \in Seq(Parts)
        BY EmptySeq
      <4> QED
        BY <2>6, <4>1 DEF Esp8266GetHostByName, AtStates, Indexes
    <3>2. cmds' \in Seq(Cmds)
      BY <2>1, <2>6, CmdKinds, AppendProperties DEF Esp8266GetHostByName
    <3> QED
      BY <3>1, <3>2
  <2>7. CASE lookup_return(a)
    BY <2>1, <2>7, ReturnTyped DEF lookup_return
  <2> QED
    BY <2>2, <2>3, <2>4, <2>5, <2>6, <2>7
<1>6. UNCHANGED <<ioLock, sockets, flags, deal, modem, hist>>
  BY DEF Esp8266Close, close_return, data_command, Esp8266Connect, Esp8266GetHostByName,
         lookup_return, modem, sockets, history
<1> QED
  BY <1>4, <1>5, <1>6 DEF Typed, sockets, modem

\* Esp8266Socket and Esp8266SockFree.
LEMMA SocketTyped ==
    ASSUME Typed, NEW a \in Apps, NEW type \in Types, NEW garbage \in BOOLEAN,
           Esp8266Socket(a, type, garbage)
    PROVE  Typed'
<1>1. PICK fd \in Unused :
         /\ sock' = Append(sock, [fd |-> fd, type |-> type, isConnect |-> garbage,
                                  rcvRing |-> << >>, live |-> TRUE])
         /\ sockArray' = [sockArray EXCEPT ![fd] = Len(sock) + 1]
  BY DEF Esp8266Socket
<1>2. fd \in Fds /\ << >> \in Rings /\ Len(sock) \in Nat
  BY <1>1, EmptySeq, Bounds, LenProperties DEF Unused, Rings, Typed
<1>3. [fd |-> fd, type |-> type, isConnect |-> garbage, rcvRing |-> << >>, live |-> TRUE]
        \in Sockets
  BY <1>2 DEF Sockets
<1>4. sock' \in Seq(Sockets) /\ Len(sock') = Len(sock) + 1
  BY <1>1, <1>3, AppendProperties DEF Typed
<1>5. [peer |-> << >>, got |-> << >>, offered |-> 0, acked |-> {}, net |-> << >>] \in Histories
  BY EmptySeq DEF Histories
<1>6. hist' \in Seq(Histories) /\ Len(hist') = Len(sock) + 1
  BY <1>5, AppendProperties DEF Typed, Esp8266Socket
<1>7. sockArray' \in [Fds -> 0 .. Len(sock')] /\ link' \in [Fds -> 0 .. Len(sock')]
  <2>1. sockArray \in [Fds -> 0 .. Len(sock)] /\ link \in [Fds -> 0 .. Len(sock)] /\ link' = link
    BY DEF Typed, Esp8266Socket, modem
  <2>2. 0 .. Len(sock) \subseteq 0 .. Len(sock') /\ Len(sock) + 1 \in 0 .. Len(sock')
    BY <1>2, <1>4
  <2> QED
    BY <1>1, <1>2, <2>1, <2>2
<1>8. app' \in [Apps -> AppStates]
  <2>1. app' = [app EXCEPT ![a].sock = Len(sock) + 1] /\ app \in [Apps -> AppStates]
    BY DEF Typed, Esp8266Socket
  <2>2. Len(sock) + 1 \in Nat
    BY <1>2
  <2> QED
    BY <2>1, <2>2 DEF AppStates
<1>9. UNCHANGED <<atLock, ioLock, flags, at, deal, cmds, modem>>
  BY DEF Esp8266Socket
<1> QED
  BY <1>4, <1>6, <1>7, <1>8, <1>9 DEF Typed, modem

LEMMA FreeTyped ==
    ASSUME Typed, NEW a \in Apps, Owns(a), Esp8266SockFree(a)
    PROVE  Typed'
<1> DEFINE s == app[a].sock
           x == [sock[s] EXCEPT !.live = FALSE, !.rcvRing = << >>]
<1>1. s \in DOMAIN sock /\ MySock(a).fd \in Fds /\ sock[s] \in Sockets
  BY OwnSocket DEF Esp8266SockFree, Owns, MySock
<1>2. x \in Sockets
  <2>1. << >> \in Rings
    BY EmptySeq, Bounds DEF Rings
  <2> QED
    BY <1>1, <2>1 DEF Sockets
<1>3. sock' = [sock EXCEPT ![s] = x]
  BY <1>1, LenProperties DEF Esp8266SockFree, Typed
<1>4. sock' \in Seq(Sockets) /\ Len(sock') = Len(sock)
  <2>1. sock \in Seq(Sockets)
    BY DEF Typed
  <2> HIDE DEF x, s
  <2> QED
    BY <1>2, <1>3, <2>1, Updated
<1>5. sockArray' \in [Fds -> 0 .. Len(sock')]
  BY <1>1, <1>4, LenProperties DEF Typed, Esp8266SockFree
<1>6. app' \in [Apps -> AppStates]
  BY DEF Esp8266SockFree, Typed, AppStates, Pcs
<1>7. UNCHANGED <<atLock, ioLock, flags, at, deal, cmds, modem, history>>
  BY DEF Esp8266SockFree
<1> QED
  BY <1>4, <1>5, <1>6, <1>7 DEF Typed, modem, history

\* How Esp8266Send ends.
LEMMA SendEndsTyped ==
    ASSUME Typed, NEW a \in Apps, Owns(a), app[a].sock # 0
    PROVE  /\ send_fails(a) => /\ sock' \in Seq(Sockets) /\ Len(sock') = Len(sock)
                               /\ app' \in [Apps -> AppStates] /\ atLock' = Nobody
           /\ send_succeeds(a) => /\ hist' \in Seq(Histories) /\ Len(hist') = Len(hist)
                                  /\ app' \in [Apps -> AppStates] /\ atLock' = Nobody
<1> DEFINE s == app[a].sock
           x == [sock[s] EXCEPT !.isConnect = FALSE]
           h == [hist[s] EXCEPT !.acked = @ \cup {hist[s].offered}]
<1>1. sock[s] \in Sockets /\ hist[s] \in Histories /\ sock \in Seq(Sockets)
      /\ hist \in Seq(Histories)
  BY OwnSocket DEF MySock, Typed
<1>2. x \in Sockets
  BY <1>1 DEF Sockets
<1>3. h \in Histories
  BY <1>1 DEF Histories
<1>4. [app EXCEPT ![a].pc = "idle"] \in [Apps -> AppStates]
  BY DEF Typed, AppStates, Pcs
<1>5. [sock EXCEPT ![s] = x] = [sock EXCEPT ![s].isConnect = FALSE]
  OBVIOUS
<1>6. [hist EXCEPT ![s] = h] = [hist EXCEPT ![s].acked = @ \cup {hist[s].offered}]
  OBVIOUS
<1>7. /\ [sock EXCEPT ![s] = x] \in Seq(Sockets) /\ Len([sock EXCEPT ![s] = x]) = Len(sock)
      /\ [hist EXCEPT ![s] = h] \in Seq(Histories) /\ Len([hist EXCEPT ![s] = h]) = Len(hist)
  <2> HIDE DEF x, h, s
  <2> QED
    BY <1>1, <1>2, <1>3, Updated
<1> QED
  BY <1>4, <1>5, <1>6, <1>7 DEF send_fails, send_succeeds, Unlock

\* The actions of Esp8266Connect and Esp8266Send.
LEMMA SendTyped ==
    ASSUME Typed, NEW a \in Apps, Owns(a),
           \/ connect_return(a) \/ Esp8266Send(a) \/ cipsend_return(a)
           \/ data_return(a) \/ send_return(a)
    PROVE  Typed'
<1> DEFINE s == app[a].sock
<1>1. s # 0
  BY DEF connect_return, Esp8266Send, cipsend_return, data_return, send_return, Owns
<1>2. /\ sock[s] \in Sockets /\ hist[s] \in Histories /\ sock \in Seq(Sockets)
      /\ hist \in Seq(Histories) /\ at \in AtStates /\ cmds \in Seq(Cmds)
      /\ app \in [Apps -> AppStates] /\ flags \in Flags /\ deal \in [Workers -> DealStates]
      /\ atLock \in Apps \cup {Nobody}
  BY <1>1, OwnSocket DEF MySock, Typed
<1>3. CASE connect_return(a)
  <2> DEFINE x == [sock[s] EXCEPT !.isConnect = TRUE]
  <2>1. x \in Sockets
    BY <1>2 DEF Sockets
  <2>2. [sock EXCEPT ![s] = x] = [sock EXCEPT ![s].isConnect = TRUE]
    OBVIOUS
  <2>3. [sock EXCEPT ![s] = x] \in Seq(Sockets) /\ Len([sock EXCEPT ![s] = x]) = Len(sock)
    <3> HIDE DEF x, s
    <3> QED
      BY <1>2, <2>1, Updated
  <2>4. sock' \in Seq(Sockets) /\ Len(sock') = Len(sock)
    BY <1>2, <1>3, <2>2, <2>3 DEF connect_return
  <2>5. at' \in AtStates
    BY <1>3, ReturnTyped DEF connect_return
  <2>6. app' \in [Apps -> AppStates] /\ atLock' = Nobody
    <3>1. app' = [app EXCEPT ![a].pc = app[a].next, ![a].next = "idle"] /\ atLock' = Nobody
      BY <1>3 DEF connect_return, Unlock
    <3>2. app[a].next \in Pcs /\ "idle" \in {"idle", "send"}
      BY <1>2 DEF AppStates, Pcs
    <3> QED
      BY <1>2, <3>1, <3>2 DEF AppStates
  <2>7. UNCHANGED <<ioLock, sockArray, flags, deal, cmds, modem, hist>>
    BY <1>3 DEF connect_return
  <2> QED
    BY <2>4, <2>5, <2>6, <2>7 DEF Typed, modem
<1>4. CASE Esp8266Send(a)
  <2> DEFINE h == [hist[s] EXCEPT !.offered = hist[s].offered + 1]
  <2>1. h \in Histories
    <3>1. hist[s].offered \in Nat /\ hist[s].offered + 1 \in Nat
      <4>1. hist[s].offered \in Nat
        BY <1>1, OwnSocket
      <4> HIDE DEF s
      <4> QED
        BY <4>1
    <3> QED
      BY <1>2, <3>1 DEF Histories
  <2>2. hist' = [hist EXCEPT ![s] = h]
    BY <1>4 DEF Esp8266Send
  <2>3. hist' \in Seq(Histories) /\ Len(hist') = Len(hist)
    <3>1. hist \in Seq(Histories)
      BY <1>2
    <3> HIDE DEF h, s
    <3>2. [hist EXCEPT ![s] = h] \in Seq(Histories) /\ Len([hist EXCEPT ![s] = h]) = Len(hist)
      BY <2>1, <3>1, Updated
    <3> QED
      BY <2>2, <3>2
  <2>4. app' \in [Apps -> AppStates] /\ flags' \in Flags /\ atLock' = a
    BY <1>2, <1>4 DEF Esp8266Send, Lock, AppStates, Flags, Pcs
  <2>5. at' \in AtStates /\ cmds' \in Seq(Cmds)
    <3>1. Command("AT+CIPSEND", a) \in Cmds /\ ">" \in Indexes
      BY <1>1, ItsCommand DEF Indexes
    <3> QED
      BY <1>4, <3>1, AtTyped DEF Esp8266Send
  <2>6. UNCHANGED <<ioLock, sockets, deal, modem>>
    BY <1>4 DEF Esp8266Send
  <2> QED
    BY <2>3, <2>4, <2>5, <2>6 DEF Typed, modem, sockets
<1>5. CASE cipsend_return(a)
  <2>1. at' \in AtStates
    BY <1>5, ReturnTyped DEF cipsend_return
  <2>2. /\ sock' \in Seq(Sockets) /\ Len(sock') = Len(sock) /\ app' \in [Apps -> AppStates]
        /\ atLock' \in Apps \cup {Nobody} /\ flags' \in Flags
    <3>1. CASE (at.task = a /\ at.resp # << >>) \/ flags.sendIndex
      <4>1. /\ app' = [app EXCEPT ![a].pc = "data"] /\ UNCHANGED <<atLock, sock>>
            /\ flags' = [flags EXCEPT !.sendOK = FALSE]
        BY <1>5, <3>1 DEF cipsend_return
      <4> QED
        BY <1>2, <4>1 DEF AppStates, Pcs, Flags
    <3>2. CASE ~((at.task = a /\ at.resp # << >>) \/ flags.sendIndex)
      <4>1. send_fails(a) /\ UNCHANGED flags
        BY <1>5, <3>2 DEF cipsend_return
      <4> QED
        BY <1>1, <1>2, <4>1, SendEndsTyped
    <3> QED
      BY <3>1, <3>2
  <2>3. UNCHANGED <<ioLock, sockArray, deal, cmds, modem, hist>>
    BY <1>5 DEF cipsend_return
  <2> QED
    BY <2>1, <2>2, <2>3 DEF Typed, modem
<1>6. CASE data_return(a)
  <2>1. at' \in AtStates
    BY <1>6, ReturnTyped DEF data_return
  <2>2. /\ sock' \in Seq(Sockets) /\ Len(sock') = Len(sock) /\ app' \in [Apps -> AppStates]
        /\ hist' \in Seq(Histories) /\ Len(hist') = Len(hist)
        /\ atLock' \in Apps \cup {Nobody} /\ deal' \in [Workers -> DealStates]
    <3>1. CASE HasIpd(at.resp) /\ at_response(a) /\ UNCHANGED <<atLock, hist, sock>>
                 /\ deal' = [deal EXCEPT ![a].parts = FromIpd(at.resp)]
                 /\ app' = [app EXCEPT ![a].pc = "tail"]
      <4>1. app' \in [Apps -> AppStates]
        BY <1>2, <3>1 DEF AppStates, Pcs
      <4>2. FromIpd(at.resp) \in Seq(Parts)
        BY <1>2, <3>1, FramesBehind DEF AtStates
      <4>3. deal' \in [Workers -> DealStates]
        BY <1>2, <3>1, <4>2 DEF DealStates, Workers
      <4> QED
        BY <1>2, <3>1, <4>1, <4>3
    <3>2. CASE send_succeeds(a) /\ UNCHANGED <<deal, sock>>
      BY <1>1, <1>2, <3>2, SendEndsTyped
    <3>3. CASE send_fails(a) /\ UNCHANGED <<deal, hist>>
      BY <1>1, <1>2, <3>3, SendEndsTyped
    <3> QED
      BY <1>6, <3>1, <3>2, <3>3 DEF data_return
  <2>3. UNCHANGED <<ioLock, sockArray, flags, cmds, modem>>
    BY <1>6 DEF data_return
  <2> QED
    BY <2>1, <2>2, <2>3 DEF Typed, modem
<1>7. CASE send_return(a)
  <2>1. /\ hist' \in Seq(Histories) /\ Len(hist') = Len(hist)
        /\ app' \in [Apps -> AppStates] /\ atLock' = Nobody
    BY <1>1, <1>7, SendEndsTyped DEF send_return
  <2>2. UNCHANGED <<ioLock, sockets, flags, at, deal, cmds, modem>>
    BY <1>7 DEF send_return
  <2> QED
    BY <2>1, <2>2 DEF Typed, modem, sockets
<1> QED
  BY <1>3, <1>4, <1>5, <1>6, <1>7

\* Esp8266MsgDeal.
LEMMA DealTyped ==
    ASSUME Typed, NEW w \in Workers, Dealing(w), Esp8266MsgDeal(w)
    PROVE  Typed'
<1>1. /\ deal \in [Workers -> DealStates] /\ deal[w].parts \in Seq(Parts) /\ << >> \in Seq(Parts)
      /\ Len(sock) \in Nat /\ sockArray \in [Fds -> 0 .. Len(sock)]
      /\ ioLock \in Workers \cup {Nobody} /\ flags \in Flags
  BY EmptySeq, LenProperties DEF Typed, DealStates
<1>2. CASE MsgDealSingle(w)
  <2> DEFINE f == Head(deal[w].parts)
  <2>1. f \in Ipds
    BY <1>1, <1>2, Rest, PartKinds DEF MsgDealSingle
  <2>2. sockArray[f.fd] \in Nat
    BY <1>1, <2>1, PartKinds
  <2>3. \/ deal' = [deal EXCEPT ![w].parts = << >>] /\ UNCHANGED ioLock
        \/ deal' = [deal EXCEPT ![w].sock = sockArray[f.fd]] /\ ioLock' = w
    BY <1>2 DEF MsgDealSingle
  <2>4. deal' \in [Workers -> DealStates] /\ ioLock' \in Workers \cup {Nobody}
    <3> HIDE DEF f
    <3> QED
      BY <1>1, <2>2, <2>3 DEF DealStates
  <2>5. UNCHANGED <<tasks, sockets, flags, at, cmds, modem, hist>>
    BY <1>2 DEF MsgDealSingle
  <2> QED
    BY <2>4, <2>5 DEF Typed, modem, tasks, sockets
<1>3. CASE MsgDealWrite(w)
  <2> DEFINE s == deal[w].sock
             units == Units(Head(deal[w].parts), sock[s].type)
             x == [sock[s] EXCEPT !.rcvRing = Written(s, units)]
  <2>1. s \in 1 .. Len(sock) /\ deal[w].parts # << >> /\ Head(deal[w].parts) \in Ipds
    <3>1. s # 0 /\ s \in Nat
      BY <1>1, <1>3 DEF MsgDealWrite, DealStates
    <3>2. s <= Len(sock) /\ deal[w].parts # << >> /\ IsIpd(Head(deal[w].parts))
      BY <3>1 DEF Dealing
    <3> QED
      BY <1>1, <3>1, <3>2, Rest, PartKinds
  <2>2. sock[s] \in Sockets /\ sock[s].type \in Types
    BY <2>1, ASocket
  <2>3. Written(s, units) \in Rings
    <3>1. units \in Seq(Pieces)
      BY <2>1, <2>2, UnitsTyped
    <3> HIDE DEF units, s
    <3> QED
      BY <2>1, <3>1, WrittenTyped
  <2>4. x \in Sockets
    BY <2>2, <2>3 DEF Sockets
  <2>5. sock' = [sock EXCEPT ![s] = x]
    BY <1>3 DEF MsgDealWrite
  <2>6. sock' \in Seq(Sockets) /\ Len(sock') = Len(sock)
    <3>1. sock \in Seq(Sockets)
      BY DEF Typed
    <3> HIDE DEF x, s
    <3>2. [sock EXCEPT ![s] = x] \in Seq(Sockets) /\ Len([sock EXCEPT ![s] = x]) = Len(sock)
      BY <2>4, <3>1, Updated
    <3> QED
      BY <2>5, <3>2
  <2>7. deal' \in [Workers -> DealStates] /\ ioLock' = Nobody
    <3>1. Tail(deal[w].parts) \in Seq(Parts)
      BY <1>1, <2>1, Rest
    <3>2. deal' = [deal EXCEPT ![w].parts = Tail(deal[w].parts), ![w].sock = 0]
          /\ ioLock' = Nobody
      BY <1>3 DEF MsgDealWrite
    <3> QED
      BY <1>1, <3>1, <3>2 DEF DealStates
  <2>8. UNCHANGED <<tasks, sockArray, flags, at, cmds, modem, hist>>
    BY <1>3 DEF MsgDealWrite
  <2> QED
    BY <2>6, <2>7, <2>8 DEF Typed, modem, tasks
<1>4. CASE MsgDealRest(w)
  <2>1. deal' \in [Workers -> DealStates]
    BY <1>1, <1>4 DEF MsgDealRest, DealStates
  <2>2. flags' \in Flags
    BY <1>1, <1>4 DEF MsgDealRest, Flags, Finds
  <2>3. UNCHANGED <<tasks, ioLock, sockets, at, cmds, modem, hist>>
    BY <1>4 DEF MsgDealRest
  <2> QED
    BY <2>1, <2>2, <2>3 DEF Typed, modem, tasks, sockets
<1> QED
  BY <1>2, <1>3, <1>4 DEF Esp8266MsgDeal

\* The receive task reads.
LEMMA ReadTyped ==
    ASSUME Typed, NEW n \in 1 .. MaxChunk, rcv_task(n)
    PROVE  Typed'
<1> DEFINE chunk == SubSeq(uart, 1, n)
<1>1. /\ uart \in Seq(Parts) /\ n \in Nat /\ n <= Len(uart) /\ n # 0 /\ Len(uart) \in Nat
      /\ at \in AtStates /\ deal \in [Workers -> DealStates]
  <2>1. n \in Nat /\ n # 0
    BY Bounds
  <2> QED
    BY <2>1, LenProperties DEF Typed, rcv_task
<1>2. chunk \in Seq(Parts) /\ uart' \in Seq(Parts)
  <2>1. SubSeq(uart, 1, n) \in Seq(Parts)
    BY <1>1, Portion
  <2>2. SubSeq(uart, n + 1, Len(uart)) \in Seq(Parts)
    BY <1>1, Portion
  <2> QED
    BY <2>1, <2>2 DEF rcv_task
<1>3. \/ deal' = [deal EXCEPT ![Rcv].parts = chunk] /\ at' = at
      \/ deal' = deal /\ at' \in {[at EXCEPT !.resp = chunk], at}
  BY DEF rcv_task
<1> HIDE DEF chunk
<1>4. at' \in AtStates /\ deal' \in [Workers -> DealStates]
  <2>1. [at EXCEPT !.resp = chunk] \in AtStates
    BY <1>1, <1>2 DEF AtStates
  <2>2. [deal EXCEPT ![Rcv].parts = chunk] \in [Workers -> DealStates]
    BY <1>1, <1>2 DEF DealStates, Workers
  <2> QED
    BY <1>1, <1>3, <2>1, <2>2
<1>5. UNCHANGED <<tasks, ioLock, sockets, flags, cmds, link, prompted, hist>>
  BY DEF rcv_task
<1> QED
  BY <1>2, <1>4, <1>5 DEF Typed, tasks, sockets

\* Esp8266Recv.
LEMMA RecvTyped ==
    ASSUME Typed, NEW a \in Apps, Owns(a), Esp8266Recv(a)
    PROVE  Typed'
<1> DEFINE s == app[a].sock
           ring == sock[s].rcvRing
<1>1. s # 0 /\ s \in 1 .. Len(sock)
  BY OwnSocket DEF Esp8266Recv
<1>2. /\ sock[s] \in Sockets /\ hist[s] \in Histories /\ ring \in Seq(Pieces)
      /\ Len(ring) \in 0 .. RCVCACHE /\ hist[s].got \in Seq(Pieces \cup Seq(Pieces))
      /\ RCVCACHE \in Nat
  BY <1>1, ASocket, Bounds
<1>3. PICK n \in 1 .. Len(ring) :
        /\ sock' = [sock EXCEPT ![s].rcvRing = SubSeq(ring, n + 1, Len(ring))]
        /\ \/ hist' = [hist EXCEPT ![s].got = @ \o SubSeq(ring, 1, n)]
           \/ hist' = [hist EXCEPT ![s].got = @ \o <<SubSeq(ring, 2, n)>>]
           \/ hist' = hist
  BY DEF Esp8266Recv
<1>4. /\ SubSeq(ring, n + 1, Len(ring)) \in Rings
      /\ SubSeq(ring, 1, n) \in Seq(Pieces) /\ SubSeq(ring, 2, n) \in Seq(Pieces)
  <2> HIDE DEF ring
  <2>1. n \in Nat /\ n + 1 \in Nat \ {0} /\ n <= Len(ring) /\ Len(ring) \in Nat /\ n + 1 # 0
    BY <1>2
  <2>2. SubSeq(ring, 1, n) \in Seq(Pieces) /\ SubSeq(ring, 2, n) \in Seq(Pieces)
    BY <1>2, <2>1, Portion
  <2>3. /\ SubSeq(ring, n + 1, Len(ring)) \in Seq(Pieces)
        /\ Len(SubSeq(ring, n + 1, Len(ring)))
             = (IF n + 1 <= Len(ring) THEN Len(ring) - (n + 1) + 1 ELSE 0)
    BY <1>2, <2>1, Portion
  <2>4. Len(SubSeq(ring, n + 1, Len(ring))) <= RCVCACHE
    BY <1>2, <2>1, <2>3
  <2> QED
    BY <2>2, <2>3, <2>4 DEF Rings
<1>5. sock' \in Seq(Sockets) /\ Len(sock') = Len(sock)
  <2> DEFINE x == [sock[s] EXCEPT !.rcvRing = SubSeq(ring, n + 1, Len(ring))]
  <2>1. x \in Sockets
    BY <1>2, <1>4 DEF Sockets
  <2>2. sock' = [sock EXCEPT ![s] = x]
    BY <1>3
  <2>3. sock \in Seq(Sockets)
    BY DEF Typed
  <2> HIDE DEF x, s
  <2>4. [sock EXCEPT ![s] = x] \in Seq(Sockets) /\ Len([sock EXCEPT ![s] = x]) = Len(sock)
    BY <2>1, <2>3, Updated
  <2> QED
    BY <2>2, <2>4
<1>6. hist' \in Seq(Histories) /\ Len(hist') = Len(hist)
  <2>1. hist \in Seq(Histories)
    BY DEF Typed
  <2>2. ASSUME NEW y \in Seq(Pieces \cup Seq(Pieces)),
               hist' = [hist EXCEPT ![s].got = @ \o y]
        PROVE  hist' \in Seq(Histories) /\ Len(hist') = Len(hist)
    <3> DEFINE h == [hist[s] EXCEPT !.got = hist[s].got \o y]
    <3>1. hist[s].got \o y \in Seq(Pieces \cup Seq(Pieces))
      <4> HIDE DEF s
      <4> QED
        BY <1>2, Concatenated
    <3>2. h \in Histories
      BY <1>2, <3>1 DEF Histories
    <3>3. hist' = [hist EXCEPT ![s] = h]
      BY <2>2
    <3> HIDE DEF h, s
    <3>4. [hist EXCEPT ![s] = h] \in Seq(Histories) /\ Len([hist EXCEPT ![s] = h]) = Len(hist)
      BY <2>1, <3>2, Updated
    <3> QED
      BY <3>3, <3>4
  <2>3. SubSeq(ring, 1, n) \in Seq(Pieces \cup Seq(Pieces))
    <3>1. \A q \in Seq(Pieces) : q \in Seq(Pieces \cup Seq(Pieces))
      OBVIOUS
    <3> QED
      BY <1>4, <3>1
  <2>4. <<SubSeq(ring, 2, n)>> \in Seq(Pieces \cup Seq(Pieces))
    BY <1>4
  <2> QED
    BY <1>3, <2>1, <2>2, <2>3, <2>4
<1>7. UNCHANGED <<tasks, ioLock, sockArray, flags, at, deal, cmds, modem>>
  BY DEF Esp8266Recv
<1> QED
  BY <1>5, <1>6, <1>7 DEF Typed, tasks, modem

\* The modem and the peers.
LEMMA ModemTyped ==
    ASSUME Typed, Commanding, modem_data \/ modem_command
    PROVE  Typed'
<1>1. /\ cmds \in Seq(Cmds) /\ cmds # << >> /\ uart \in Seq(Parts)
      /\ prompted \in Fds \cup {-1} /\ link \in [Fds -> 0 .. Len(sock)]
      /\ hist \in Seq(Histories)
  BY DEF Typed, modem_data, modem_command
<1>2. Head(cmds) \in Cmds /\ cmds' \in Seq(Cmds)
  <2>1. Head(cmds) \in Cmds /\ Tail(cmds) \in Seq(Cmds)
    BY <1>1, Rest
  <2> QED
    BY <2>1 DEF modem_data, modem_command
<1>3. uart' \in Seq(Parts)
  <2>1. PICK text \in Texts : uart' = Append(uart, Answer(text))
    BY DEF modem_data, modem_command, Texts
  <2>2. Answer(text) \in Parts
    BY PartKinds
  <2> QED
    BY <1>1, <2>1, <2>2, AppendProperties
<1>4. CASE modem_data
  <2> DEFINE s == link[prompted]
             h == [hist[s] EXCEPT !.net = Append(hist[s].net, Head(cmds))]
  <2>1. s \in DOMAIN hist => h \in Histories
    <3>1. SUFFICES ASSUME s \in DOMAIN hist PROVE h \in Histories
      OBVIOUS
    <3> HIDE DEF s
    <3>2. hist[s] \in Histories /\ hist[s].net \in Seq(Cmds)
      <4>1. s \in 1 .. Len(hist)
        BY <1>1, <3>1, LenProperties
      <4>2. hist[s] \in Histories
        BY <1>1, <4>1, ElementOfSeq
      <4> QED
        BY <4>2 DEF Histories
    <3>3. Append(hist[s].net, Head(cmds)) \in Seq(Cmds)
      BY <1>2, <3>2, AppendProperties
    <3> QED
      BY <3>2, <3>3 DEF Histories
  <2>2. hist' = [hist EXCEPT ![s] = h]
    BY <1>4 DEF modem_data
  <2>3. hist' \in Seq(Histories) /\ Len(hist') = Len(hist)
    <3>1. hist \in Seq(Histories)
      BY <1>1
    <3> HIDE DEF h, s
    <3>2. [hist EXCEPT ![s] = h] \in Seq(Histories) /\ Len([hist EXCEPT ![s] = h]) = Len(hist)
      BY <2>1, <3>1, Updated
    <3> QED
      BY <2>2, <3>2
  <2>4. prompted' = -1 /\ UNCHANGED <<tasks, ioLock, sockets, flags, at, deal, link>>
    BY <1>4 DEF modem_data
  <2> QED
    BY <1>2, <1>3, <2>3, <2>4 DEF Typed, tasks, sockets
<1>5. CASE modem_command
  <2> DEFINE c == Head(cmds)
  <2>1. c.kind \in {"AT+CIPSTART", "AT+CIPSEND", "AT+CIPCLOSE"} =>
          c.fd \in Fds /\ c.sock \in 0 .. Len(sock)
    <3>1. SUFFICES ASSUME c.kind \in {"AT+CIPSTART", "AT+CIPSEND", "AT+CIPCLOSE"}
                   PROVE  c.fd \in Fds /\ c.sock \in 0 .. Len(sock)
      OBVIOUS
    <3>2. c \in LinkCmds /\ c.fd \in Fds /\ c.sock \in Nat
      BY <1>2, <3>1, CmdKinds
    <3>3. c = cmds[1] /\ 1 \in DOMAIN cmds
      BY <1>1, Rest
    <3>4. c.sock <= Len(sock) /\ Len(sock) \in Nat
      <4> HIDE DEF c
      <4> QED
        BY <3>2, <3>3, LenProperties DEF Commanding, Typed
    <3> QED
      BY <3>2, <3>4
  <2>2. /\ \/ link' = link
           \/ link' = [link EXCEPT ![c.fd] = c.sock] /\ c.kind = "AT+CIPSTART"
           \/ link' = [link EXCEPT ![c.fd] = 0]
        /\ prompted' = prompted \/ (prompted' = c.fd /\ c.kind = "AT+CIPSEND")
    BY <1>5 DEF modem_command
  <2>3. link' \in [Fds -> 0 .. Len(sock)] /\ prompted' \in Fds \cup {-1}
    <3>1. 0 \in 0 .. Len(sock)
      BY LenProperties DEF Typed
    <3> HIDE DEF c
    <3> QED
      BY <1>1, <2>1, <2>2, <3>1
  <2>4. UNCHANGED <<tasks, ioLock, sockets, flags, at, deal, hist>>
    BY <1>5 DEF modem_command, history
  <2> QED
    BY <1>2, <1>3, <2>3, <2>4 DEF Typed, tasks, sockets
<1> QED
  BY <1>4, <1>5

LEMMA PeerTyped ==
    ASSUME Typed, NEW fd \in Fds, NEW len \in StreamLens \cup DatagramLens,
           peer_sends(fd, len)
    PROVE  Typed'
<1> DEFINE s == link[fd]
           f == Ipd(fd, s, Len(hist[s].peer) + 1, len)
           h == [hist[s] EXCEPT !.peer = Append(hist[s].peer, f)]
<1>1. s \in 1 .. Len(sock)
  <2>1. s \in 0 .. Len(sock) /\ s # 0
    BY DEF Typed, peer_sends
  <2> QED
    BY <2>1
<1>2. hist[s] \in Histories /\ hist[s].peer \in Seq(Ipds) /\ Len(hist[s].peer) + 1 \in Nat
      /\ s \in Nat
  <2>1. hist[s] \in Histories /\ hist[s].peer \in Seq(Ipds)
    BY <1>1, ASocket
  <2> QED
    BY <1>1, <2>1, LenProperties
<1>3. f \in Ipds /\ f \in Parts
  BY <1>2, PartKinds DEF Lens
<1>4. h \in Histories
  <2>1. Append(hist[s].peer, f) \in Seq(Ipds)
    BY <1>2, <1>3, AppendProperties
  <2> QED
    BY <1>2, <2>1 DEF Histories
<1>5. hist' = [hist EXCEPT ![s] = h] /\ uart' = Append(uart, f)
  BY DEF peer_sends
<1>6. hist' \in Seq(Histories) /\ Len(hist') = Len(hist)
  <2>1. hist \in Seq(Histories)
    BY DEF Typed
  <2> HIDE DEF h, s
  <2>2. [hist EXCEPT ![s] = h] \in Seq(Histories) /\ Len([hist EXCEPT ![s] = h]) = Len(hist)
    BY <1>4, <2>1, Updated
  <2> QED
    BY <1>5, <2>2
<1>7. uart' \in Seq(Parts)
  BY <1>3, <1>5, AppendProperties DEF Typed
<1>8. UNCHANGED <<tasks, ioLock, sockets, flags, at, deal, cmds, link, prompted>>
  BY DEF peer_sends
<1> QED
  BY <1>6, <1>7, <1>8 DEF Typed, tasks, sockets

\* Every step keeps the types.
LEMMA TypedKept ==
    ASSUME Typed, Owners, Commanding, Dealings, [Next]_vars
    PROVE  Typed'
<1>1. Typed /\ Commanding /\ (\A a \in Apps : Owns(a)) /\ \A w \in Workers : Dealing(w)
  BY DEF Owners, Dealings
<1>2. ASSUME NEW a \in Apps,
             \/ \E type \in Types, garbage \in BOOLEAN : Esp8266Socket(a, type, garbage)
             \/ Close(a) \/ Connect(a) \/ Send(a) \/ Esp8266Recv(a) \/ GetHostByName(a)
      PROVE  Typed'
  BY <1>1, <1>2, AppTyped, SocketTyped, FreeTyped, SendTyped, RecvTyped
     DEF Close, Connect, Send, GetHostByName
<1>3. ASSUME NEW w \in Workers, Esp8266MsgDeal(w) PROVE Typed'
  BY <1>1, <1>3, DealTyped
<1>4. CASE \E n \in 1 .. MaxChunk : rcv_task(n)
  BY <1>1, <1>4, ReadTyped
<1>5. CASE modem_data \/ modem_command
  BY <1>1, <1>5, ModemTyped
<1>6. CASE \E fd \in Fds, len \in StreamLens \cup DatagramLens : peer_sends(fd, len)
  BY <1>1, <1>6, PeerTyped
<1>7. CASE UNCHANGED vars
  BY <1>1, <1>7 DEF Typed, vars, tasks, sockets, modem, history
<1> QED
  BY <1>2, <1>3, <1>4, <1>5, <1>6, <1>7 DEF Next, Workers

-----------------------------------------------------------------------------
(* The sockets have their owners *)

\* A step that neither allocates nor frees a socket.
Standing ==
    /\ \A a \in Apps : app'[a].sock = app[a].sock
    /\ sockArray' = sockArray /\ Len(sock') = Len(sock)
    /\ \A s \in 1 .. Len(sock) : /\ sock'[s].fd = sock[s].fd /\ sock'[s].live = sock[s].live
                                 /\ sock'[s].type = sock[s].type

\* What a step of an application does to the lock.
Locks(a) ==
    /\ app[a].pc \notin Locking /\ app'[a].pc \in Locking /\ app[a].sock # 0
    /\ atLock = Nobody /\ atLock' = a
Unlocks(a) ==
    /\ app'[a].pc \notin Locking /\ app[a].sock # 0
    /\ atLock = a /\ atLock' = Nobody
Keeps(a) ==
    /\ app[a].pc \in Locking <=> app'[a].pc \in Locking
    /\ app'[a].pc \notin {"idle", "lookup"} => app[a].sock # 0
    /\ atLock' = atLock

\* The steps of the applications.
AppStep(a) ==
    \/ Esp8266Close(a) \/ close_return(a) \/ data_command(a)
    \/ (\E next \in {"idle", "send"} : Esp8266Connect(a, next))
    \/ Esp8266GetHostByName(a) \/ lookup_return(a)
SendStep(a) ==
    \/ connect_return(a) \/ Esp8266Send(a) \/ cipsend_return(a)
    \/ data_return(a) \/ send_return(a)
ItsStep(a) == AppStep(a) \/ SendStep(a) \/ Esp8266Recv(a)

\* Every step is one of these.
LEMMA Steps ==
    ASSUME [Next]_vars
    PROVE  \/ \E a \in Apps : ItsStep(a) \/ Esp8266SockFree(a)
           \/ \E a \in Apps, type \in Types, garbage \in BOOLEAN :
                Esp8266Socket(a, type, garbage)
           \/ \E w \in Workers : Esp8266MsgDeal(w)
           \/ \E n \in 1 .. MaxChunk : rcv_task(n)
           \/ modem_data \/ modem_command
           \/ \E fd \in Fds, len \in StreamLens \cup DatagramLens : peer_sends(fd, len)
           \/ UNCHANGED vars
BY DEF Next, Close, Connect, Send, GetHostByName, ItsStep, AppStep, SendStep, Workers

\* A step of an application is its own: the state of the others stays, and so
\* does what they deal with.
LEMMA Moves ==
    ASSUME Typed, NEW a \in Apps, Owns(a), ItsStep(a)
    PROVE  /\ \A b \in Apps \ {a} : app'[b] = app[b]
           /\ app'[a].sock = app[a].sock
           /\ \A w \in Workers \ {a} : deal'[w] = deal[w]
           /\ deal'[a].sock = deal[a].sock
           /\ deal'[a].parts # << >> => app'[a].pc = "tail"
           /\ Locks(a) \/ Unlocks(a) \/ Keeps(a)
<1>1. app \in [Apps -> AppStates] /\ deal \in [Workers -> DealStates] /\ a \in Workers
  BY DEF Typed, Workers
<1>2. /\ app[a].pc \notin {"idle", "lookup"} => app[a].sock # 0
      /\ app[a].pc \in Locking <=> atLock = a
      /\ deal[a].parts # << >> => app[a].pc = "tail"
  BY DEF Owns
<1>3. CASE Esp8266Close(a)
  BY <1>1, <1>2, <1>3 DEF Esp8266Close, Lock, Locks, Locking, AppStates
<1>4. CASE close_return(a)
  BY <1>1, <1>2, <1>4 DEF close_return, Unlock, Unlocks, Locking, AppStates
<1>5. CASE data_command(a)
  BY <1>1, <1>2, <1>5 DEF data_command, Keeps, Locking, AppStates
<1>6. CASE \E next \in {"idle", "send"} : Esp8266Connect(a, next)
  BY <1>1, <1>2, <1>6 DEF Esp8266Connect, Lock, Locks, Locking, AppStates
<1>7. CASE Esp8266GetHostByName(a)
  BY <1>1, <1>2, <1>7 DEF Esp8266GetHostByName, Keeps, Locking, AppStates
<1>8. CASE lookup_return(a)
  BY <1>1, <1>2, <1>8 DEF lookup_return, Keeps, Locking, AppStates
<1>9. CASE connect_return(a)
  BY <1>1, <1>2, <1>9 DEF connect_return, Unlock, Unlocks, Locking, AppStates
<1>10. CASE Esp8266Send(a)
  BY <1>1, <1>2, <1>10 DEF Esp8266Send, Lock, Locks, Locking, AppStates
<1>11. CASE cipsend_return(a)
  BY <1>1, <1>2, <1>11
     DEF cipsend_return, send_fails, Unlock, Unlocks, Keeps, Locking, AppStates
<1>12. CASE data_return(a)
  <2>1. CASE /\ deal' = [deal EXCEPT ![a].parts = FromIpd(at.resp)]
             /\ app' = [app EXCEPT ![a].pc = "tail"] /\ atLock' = atLock
    BY <1>1, <1>2, <1>12, <2>1 DEF data_return, Keeps, Locking, AppStates, DealStates
  <2>2. CASE (send_succeeds(a) \/ send_fails(a)) /\ UNCHANGED deal
    BY <1>1, <1>2, <1>12, <2>2
       DEF data_return, send_fails, send_succeeds, Unlock, Unlocks, Locking, AppStates
  <2> QED
    BY <1>12, <2>1, <2>2 DEF data_return
<1>13. CASE send_return(a)
  BY <1>1, <1>2, <1>13 DEF send_return, send_succeeds, Unlock, Unlocks, Locking, AppStates
<1>14. CASE Esp8266Recv(a)
  BY <1>1, <1>2, <1>14 DEF Esp8266Recv, Keeps, tasks
<1> QED
  BY <1>3, <1>4, <1>5, <1>6, <1>7, <1>8, <1>9, <1>10, <1>11, <1>12, <1>13, <1>14
     DEF ItsStep, AppStep, SendStep

\* A field of a socket that is no matter of ownership is set.
LEMMA FieldsKept ==
    ASSUME Typed, NEW s \in 1 .. Len(sock),
           \/ \E v : sock' = [sock EXCEPT ![s].isConnect = v]
           \/ \E v : sock' = [sock EXCEPT ![s].rcvRing = v]
    PROVE  /\ Len(sock') = Len(sock)
           /\ \A t \in 1 .. Len(sock) :
                /\ sock'[t].fd = sock[t].fd /\ sock'[t].live = sock[t].live
                /\ sock'[t].type = sock[t].type
                /\ t # s => sock'[t] = sock[t]
<1>1. sock \in Seq(Sockets) /\ DOMAIN sock = 1 .. Len(sock)
  BY LenProperties DEF Typed
<1>2. sock[s] \in Sockets
  BY ASocket
<1>3. DOMAIN sock' = DOMAIN sock /\ Len(sock') = Len(sock)
  BY <1>1, LenProperties
<1>4. \A t \in 1 .. Len(sock) : t # s => sock'[t] = sock[t]
  BY <1>1
<1>5. sock'[s].fd = sock[s].fd /\ sock'[s].live = sock[s].live /\ sock'[s].type = sock[s].type
  BY <1>1, <1>2 DEF Sockets
<1> QED
  BY <1>3, <1>4, <1>5

\* All steps but two leave the sockets to their owners.
LEMMA Stands ==
    ASSUME Typed, Owners, Dealings, [Next]_vars,
           ~\E a \in Apps : Esp8266SockFree(a),
           ~\E a \in Apps, type \in Types, garbage \in BOOLEAN : Esp8266Socket(a, type, garbage)
    PROVE  Standing
<1>1. ASSUME NEW a \in Apps, ItsStep(a) PROVE Standing
  <2>1. Owns(a)
    BY DEF Owners
  <2>2. \A b \in Apps : app'[b].sock = app[b].sock
    BY <1>1, <2>1, Moves
  <2>3. sockArray' = sockArray
    BY <1>1 DEF ItsStep, AppStep, SendStep, Esp8266Close, close_return, data_command,
          Esp8266Connect, Esp8266GetHostByName, lookup_return, connect_return, Esp8266Send,
          cipsend_return, data_return, send_return, Esp8266Recv, sockets
  <2>4. CASE app[a].sock # 0
    <3>1. \/ sock' = sock
          \/ \E v : sock' = [sock EXCEPT ![app[a].sock].isConnect = v]
          \/ \E v : sock' = [sock EXCEPT ![app[a].sock].rcvRing = v]
      BY <1>1 DEF ItsStep, AppStep, SendStep, Esp8266Close, close_return, data_command,
          Esp8266Connect, Esp8266GetHostByName, lookup_return, connect_return, Esp8266Send,
          cipsend_return, data_return, send_return, Esp8266Recv, sockets, send_fails
    <3>2. app[a].sock \in 1 .. Len(sock)
      BY <2>1, <2>4, OwnSocket
    <3> QED
      BY <2>2, <2>3, <3>1, <3>2, FieldsKept DEF Standing
  <2>5. CASE app[a].sock = 0
    <3>1. sock' = sock
      BY <1>1, <2>1, <2>5
         DEF ItsStep, AppStep, SendStep, Esp8266Close, close_return, data_command,
          Esp8266Connect, Esp8266GetHostByName, lookup_return, connect_return, Esp8266Send,
          cipsend_return, data_return, send_return, Esp8266Recv, sockets, Owns
    <3> QED
      BY <2>2, <2>3, <3>1 DEF Standing
  <2> QED
    BY <2>4, <2>5
<1>2. ASSUME NEW w \in Workers, Esp8266MsgDeal(w) PROVE Standing
  <2>1. app' = app /\ sockArray' = sockArray
    BY <1>2 DEF Esp8266MsgDeal, MsgDealSingle, MsgDealWrite, MsgDealRest, tasks, sockets
  <2>2. CASE MsgDealWrite(w)
    <3>1. \E v : sock' = [sock EXCEPT ![deal[w].sock].rcvRing = v]
      BY <2>2 DEF MsgDealWrite
    <3>2. deal[w].sock \in 1 .. Len(sock)
      <4>1. deal[w].sock # 0 /\ deal[w].sock <= Len(sock)
        BY <2>2 DEF MsgDealWrite, Dealings, Dealing
      <4>2. deal[w].sock \in Nat /\ Len(sock) \in Nat
        BY LenProperties DEF Typed, DealStates
      <4> QED
        BY <4>1, <4>2
    <3> QED
      BY <2>1, <3>1, <3>2, FieldsKept DEF Standing
  <2>3. CASE MsgDealSingle(w) \/ MsgDealRest(w)
    BY <2>1, <2>3 DEF MsgDealSingle, MsgDealRest, sockets, Standing
  <2> QED
    BY <1>2, <2>2, <2>3 DEF Esp8266MsgDeal
<1>3. CASE \/ \E n \in 1 .. MaxChunk : rcv_task(n)
           \/ modem_data \/ modem_command
           \/ \E fd \in Fds, len \in StreamLens \cup DatagramLens : peer_sends(fd, len)
           \/ UNCHANGED vars
  <2>1. app' = app /\ sockArray' = sockArray /\ sock' = sock
    BY <1>3 DEF rcv_task, modem_data, modem_command, peer_sends, vars, tasks, sockets
  <2> QED
    BY <2>1 DEF Standing
<1> QED
  BY <1>1, <1>2, <1>3, Steps

\* An application keeps the lock that its state needs, and what it deals with.
Holds(a) ==
    /\ app[a].pc \notin {"idle", "lookup"} => app[a].sock # 0
    /\ app[a].pc \in Locking <=> atLock = a
    /\ deal[a].parts # << >> => app[a].pc = "tail"

LEMMA HoldsKept ==
    ASSUME Typed, Owners, Dealings, [Next]_vars, NEW b \in Apps
    PROVE  Holds(b)'
<1>1. Owns(b) /\ Holds(b)
  BY DEF Owners, Owns, Holds
<1>2. b # Nobody /\ b # Rcv /\ b \in Workers
  BY Bounds DEF Workers
<1>3. ASSUME NEW a \in Apps, ItsStep(a) PROVE Holds(b)'
  <2>1. Owns(a) /\ a # Nobody
    BY Bounds DEF Owners
  <2>2. /\ \A c \in Apps \ {a} : app'[c] = app[c]
        /\ app'[a].sock = app[a].sock
        /\ \A w \in Workers \ {a} : deal'[w] = deal[w]
        /\ deal'[a].parts # << >> => app'[a].pc = "tail"
        /\ Locks(a) \/ Unlocks(a) \/ Keeps(a)
    BY <1>3, <2>1, Moves
  <2>3. CASE b = a
    <3>1. Holds(a)
      BY <1>1, <2>3
    <3>2. CASE Locks(a)
      BY <2>2, <2>3, <3>1, <3>2 DEF Locks, Holds
    <3>3. CASE Unlocks(a)
      BY <2>1, <2>2, <2>3, <3>1, <3>3 DEF Unlocks, Holds
    <3>4. CASE Keeps(a)
      BY <2>2, <2>3, <3>1, <3>4 DEF Keeps, Holds
    <3> QED
      BY <2>2, <3>2, <3>3, <3>4
  <2>4. CASE b # a
    <3>1. app'[b] = app[b] /\ deal'[b] = deal[b]
      BY <1>2, <2>2, <2>4
    <3>2. atLock' = b <=> atLock = b
      BY <1>2, <2>2, <2>4 DEF Locks, Unlocks, Keeps
    <3> QED
      BY <1>1, <3>1, <3>2 DEF Holds
  <2> QED
    BY <2>3, <2>4
<1>4. ASSUME NEW a \in Apps, Esp8266SockFree(a) PROVE Holds(b)'
  <2>1. UNCHANGED <<atLock, deal>>
    BY <1>4 DEF Esp8266SockFree
  <2>2. app'[b] = app[b] \/ (app'[b].pc = "idle" /\ app[b].pc = "free")
    BY <1>4 DEF Esp8266SockFree, Typed, AppStates
  <2> QED
    BY <1>1, <2>1, <2>2 DEF Holds, Locking
<1>5. ASSUME NEW a \in Apps, NEW type \in Types, NEW garbage \in BOOLEAN,
             Esp8266Socket(a, type, garbage)
      PROVE  Holds(b)'
  <2>1. UNCHANGED <<atLock, deal>>
    BY <1>5 DEF Esp8266Socket
  <2>2. app'[b] = app[b] \/ (app'[b].pc = "idle" /\ app[b].pc = "idle")
    BY <1>5 DEF Esp8266Socket, Typed, AppStates
  <2> QED
    BY <1>1, <2>1, <2>2 DEF Holds, Locking
<1>6. ASSUME NEW w \in Workers, Esp8266MsgDeal(w) PROVE Holds(b)'
  <2>1. UNCHANGED tasks
    BY <1>6 DEF Esp8266MsgDeal, MsgDealSingle, MsgDealWrite, MsgDealRest
  <2>2. deal[b].parts = << >> => deal'[b].parts = << >>
    <3>1. deal[w].parts # << >>
      <4>1. CASE MsgDealWrite(w)
        BY <4>1 DEF MsgDealWrite, Dealings, Dealing
      <4>2. CASE MsgDealSingle(w) \/ MsgDealRest(w)
        BY <4>2 DEF MsgDealSingle, MsgDealRest
      <4> QED
        BY <1>6, <4>1, <4>2 DEF Esp8266MsgDeal
    <3>2. \A v \in Workers \ {w} : deal'[v] = deal[v]
      BY <1>6 DEF Esp8266MsgDeal, MsgDealSingle, MsgDealWrite, MsgDealRest, Typed
    <3> QED
      BY <1>2, <3>1, <3>2
  <2> QED
    BY <1>1, <2>1, <2>2 DEF Holds, tasks
<1>7. CASE \E n \in 1 .. MaxChunk : rcv_task(n)
  <2>1. UNCHANGED tasks /\ deal'[b] = deal[b]
    BY <1>2, <1>7 DEF rcv_task, Typed
  <2> QED
    BY <1>1, <2>1 DEF Holds, tasks
<1>8. CASE \/ modem_data \/ modem_command \/ UNCHANGED vars
           \/ \E fd \in Fds, len \in StreamLens \cup DatagramLens : peer_sends(fd, len)
  <2>1. UNCHANGED <<tasks, deal>>
    BY <1>8 DEF modem_data, modem_command, peer_sends, vars
  <2> QED
    BY <1>1, <2>1 DEF Holds, tasks
<1> QED
  BY <1>3, <1>4, <1>5, <1>6, <1>7, <1>8, Steps

\* Each socket of an application is its own, and is the one in the table.
Its(a) ==
    /\ app[a].sock <= Len(sock)
    /\ app[a].sock # 0 => MySock(a).live /\ sockArray[MySock(a).fd] = app[a].sock
    /\ \A b \in Apps : app[a].sock # 0 /\ app[b].sock = app[a].sock => a = b

\* A step that leaves the sockets alone leaves the table alone.
LEMMA StandingOwners ==
    ASSUME Typed, Owners, Standing
    PROVE  (\A a \in Apps : Its(a)') /\ \A fd \in Fds : Entry(fd)'
<1>1. ASSUME NEW a \in Apps PROVE Its(a)'
  <2>1. Owns(a) /\ app'[a].sock = app[a].sock /\ Len(sock') = Len(sock)
    BY DEF Owners, Standing
  <2>2. \A b \in Apps : app'[b].sock = app[b].sock
    BY DEF Standing
  <2>3. CASE app[a].sock # 0
    <3>1. app[a].sock \in 1 .. Len(sock)
      BY <2>1, <2>3, OwnSocket
    <3>2. MySock(a)'.live = MySock(a).live /\ MySock(a)'.fd = MySock(a).fd
      BY <2>1, <3>1 DEF MySock, Standing
    <3> QED
      BY <2>1, <2>2, <3>2 DEF Its, Owns, Standing
  <2>4. CASE app[a].sock = 0
    BY <2>1, <2>4 DEF Its, Owns
  <2> QED
    BY <2>3, <2>4
<1>2. ASSUME NEW fd \in Fds PROVE Entry(fd)'
  <2>1. Entry(fd) /\ sockArray[fd] \in 0 .. Len(sock) /\ sockArray' = sockArray
    BY DEF Owners, Typed, Standing
  <2>2. SUFFICES ASSUME sockArray[fd] # 0
                 PROVE  /\ sock'[sockArray[fd]].fd = fd /\ sock'[sockArray[fd]].live
                        /\ \E a \in Apps : app'[a].sock = sockArray[fd]
    BY <2>1 DEF Entry
  <2>3. sockArray[fd] \in 1 .. Len(sock)
    BY <2>1, <2>2
  <2> QED
    BY <2>1, <2>2, <2>3 DEF Entry, Standing
<1> QED
  BY <1>1, <1>2

LEMMA SocketOwners ==
    ASSUME Typed, Owners, NEW a \in Apps, NEW type \in Types, NEW garbage \in BOOLEAN,
           Esp8266Socket(a, type, garbage)
    PROVE  (\A b \in Apps : Its(b)') /\ \A fd \in Fds : Entry(fd)'
<1> DEFINE n == Len(sock) + 1
<1>1. PICK fd \in Unused :
         /\ sock' = Append(sock, [fd |-> fd, type |-> type, isConnect |-> garbage,
                                  rcvRing |-> << >>, live |-> TRUE])
         /\ sockArray' = [sockArray EXCEPT ![fd] = n]
  BY DEF Esp8266Socket
<1>2. fd \in Fds /\ sockArray[fd] = 0 /\ Len(sock) \in Nat
  BY <1>1, LenProperties DEF Unused, Typed
<1>3. /\ Len(sock') = n /\ sock'[n].fd = fd /\ sock'[n].live
      /\ \A s \in 1 .. Len(sock) : sock'[s] = sock[s]
  BY <1>1, <1>2, AppendProperties DEF Typed
<1>4. /\ app'[a].sock = n /\ app[a].sock = 0
      /\ \A b \in Apps \ {a} : app'[b].sock = app[b].sock
  BY DEF Esp8266Socket, Typed, AppStates
<1>5. /\ sockArray'[fd] = n
      /\ \A x \in Fds \ {fd} : sockArray'[x] = sockArray[x]
  BY <1>1, <1>2 DEF Typed
<1>6. ASSUME NEW b \in Apps PROVE Its(b)'
  <2>1. \A c \in Apps : app[c].sock \in Nat /\ app[c].sock <= Len(sock)
    BY DEF Owners, Owns, Typed, AppStates
  <2>2. \A c \in Apps : app'[b].sock # 0 /\ app'[c].sock = app'[b].sock => b = c
    <3>1. Owns(b) /\ n \notin {app[c].sock : c \in Apps}
      BY <1>2, <2>1 DEF Owners
    <3> HIDE DEF n
    <3> QED
      BY <1>4, <3>1 DEF Owns
  <2>3. CASE b = a
    <3>1. app'[b].sock = n /\ MySock(b)' = sock'[n]
      BY <1>4, <2>3 DEF MySock
    <3> QED
      BY <1>2, <1>3, <1>5, <2>2, <3>1 DEF Its
  <2>4. CASE b # a /\ app[b].sock # 0
    <3>1. app'[b].sock = app[b].sock /\ Owns(b)
      BY <1>4, <2>4 DEF Owners
    <3>2. app[b].sock \in 1 .. Len(sock) /\ MySock(b).fd \in Fds
          /\ sockArray[MySock(b).fd] = app[b].sock /\ MySock(b).live
      BY <2>4, <3>1, OwnSocket
    <3>3. MySock(b)' = MySock(b)
      BY <1>3, <3>1, <3>2 DEF MySock
    <3>4. MySock(b).fd # fd
      BY <1>2, <2>4, <3>2
    <3>5. app'[b].sock <= Len(sock')
      BY <1>2, <1>3, <2>1, <3>1
    <3> QED
      BY <1>5, <2>2, <3>1, <3>2, <3>3, <3>4, <3>5 DEF Its
  <2>5. CASE b # a /\ app[b].sock = 0
    BY <1>2, <1>3, <1>4, <2>5 DEF Its
  <2> QED
    BY <2>3, <2>4, <2>5
<1>7. ASSUME NEW x \in Fds PROVE Entry(x)'
  <2>1. CASE x = fd
    BY <1>3, <1>4, <1>5, <2>1 DEF Entry
  <2>2. CASE x # fd
    <3>1. sockArray'[x] = sockArray[x] /\ Entry(x) /\ sockArray[x] \in 0 .. Len(sock)
      BY <1>5, <2>2 DEF Owners, Typed
    <3>2. SUFFICES ASSUME sockArray[x] # 0
                   PROVE  /\ sock'[sockArray[x]].fd = x /\ sock'[sockArray[x]].live
                          /\ \E b \in Apps : app'[b].sock = sockArray[x]
      BY <3>1 DEF Entry
    <3>3. sock'[sockArray[x]] = sock[sockArray[x]]
      BY <1>3, <3>1, <3>2
    <3>4. PICK b \in Apps : app[b].sock = sockArray[x]
      BY <3>1, <3>2 DEF Entry
    <3>5. app'[b].sock = sockArray[x]
      BY <1>4, <3>2, <3>4
    <3> QED
      BY <3>1, <3>2, <3>3, <3>5 DEF Entry
  <2> QED
    BY <2>1, <2>2
<1> QED
  BY <1>6, <1>7

LEMMA FreeOwners ==
    ASSUME Typed, Owners, NEW a \in Apps, Esp8266SockFree(a)
    PROVE  (\A b \in Apps : Its(b)') /\ \A fd \in Fds : Entry(fd)'
<1> DEFINE n == app[a].sock
           x == MySock(a).fd
<1>1. /\ n \in 1 .. Len(sock) /\ n # 0 /\ x \in Fds /\ sock[n] \in Sockets
      /\ sockArray[x] = n /\ Owns(a)
  <2>1. Owns(a) /\ app[a].sock # 0
    BY DEF Owners, Owns, Esp8266SockFree
  <2> QED
    BY <2>1, OwnSocket DEF MySock
<1>2. /\ sockArray'[x] = 0 /\ \A fd \in Fds \ {x} : sockArray'[fd] = sockArray[fd]
  BY <1>1 DEF Esp8266SockFree, Typed
<1>3. /\ Len(sock') = Len(sock)
      /\ \A s \in 1 .. Len(sock) : s # n => sock'[s] = sock[s]
  BY <1>1, LenProperties DEF Esp8266SockFree, Typed
<1>4. app'[a].sock = 0 /\ \A b \in Apps \ {a} : app'[b] = app[b]
  BY DEF Esp8266SockFree, Typed, AppStates
<1>5. ASSUME NEW b \in Apps PROVE Its(b)'
  <2>1. Owns(b)
    BY DEF Owners
  <2>2. CASE app'[b].sock = 0
    BY <1>3, <2>2, LenProperties DEF Its, Typed
  <2>3. CASE app'[b].sock # 0
    <3>1. b # a /\ app'[b] = app[b] /\ app[b].sock # 0
      BY <1>4, <2>3
    <3>2. app[b].sock # n
      BY <1>1, <3>1 DEF Owns
    <3>3. app[b].sock \in 1 .. Len(sock) /\ MySock(b).fd \in Fds /\ MySock(b).live
          /\ sockArray[MySock(b).fd] = app[b].sock
      BY <2>1, <3>1, OwnSocket
    <3>4. MySock(b)' = MySock(b) /\ MySock(b).fd # x
      BY <1>1, <1>3, <3>1, <3>2, <3>3 DEF MySock
    <3>5. \A c \in Apps : app'[c].sock = app'[b].sock => b = c
      BY <1>4, <2>1, <2>3, <3>1 DEF Owns
    <3> QED
      BY <1>2, <1>3, <2>1, <3>1, <3>3, <3>4, <3>5 DEF Its, Owns
  <2> QED
    BY <2>2, <2>3
<1>6. ASSUME NEW fd \in Fds PROVE Entry(fd)'
  <2>1. CASE fd = x
    BY <1>2, <2>1 DEF Entry
  <2>2. CASE fd # x
    <3>1. sockArray'[fd] = sockArray[fd] /\ Entry(fd) /\ sockArray[fd] \in 0 .. Len(sock)
      BY <1>2, <2>2 DEF Owners, Typed
    <3>2. SUFFICES ASSUME sockArray[fd] # 0
                   PROVE  /\ sock'[sockArray[fd]].fd = fd /\ sock'[sockArray[fd]].live
                          /\ \E b \in Apps : app'[b].sock = sockArray[fd]
      BY <3>1 DEF Entry
    <3>3. sock[sockArray[fd]].fd = fd /\ sockArray[fd] # n
      BY <1>1, <2>2, <3>1, <3>2 DEF Entry, MySock
    <3>4. sock'[sockArray[fd]] = sock[sockArray[fd]]
      BY <1>3, <3>1, <3>2, <3>3
    <3>5. PICK b \in Apps : app[b].sock = sockArray[fd]
      BY <3>1, <3>2 DEF Entry
    <3>6. app'[b].sock = sockArray[fd]
      BY <1>4, <3>3, <3>5
    <3> QED
      BY <3>1, <3>2, <3>4, <3>6 DEF Entry
  <2> QED
    BY <2>1, <2>2
<1> QED
  BY <1>5, <1>6

LEMMA OwnersKept ==
    ASSUME Typed, Owners, Dealings, [Next]_vars
    PROVE  Owners'
<1>1. (\A a \in Apps : Its(a)') /\ \A fd \in Fds : Entry(fd)'
  BY Stands, StandingOwners, SocketOwners, FreeOwners
<1>2. \A a \in Apps : Holds(a)'
  BY HoldsKept
<1>3. \A a \in Apps : Its(a)' /\ Holds(a)' => Owns(a)'
  BY DEF Its, Holds, Owns
<1> QED
  BY <1>1, <1>2, <1>3 DEF Owners

-----------------------------------------------------------------------------
(* The command belongs to a task that waits for it *)

\* What a step of an application does to the command of at_command: it asks,
\* does not get in, or has nothing to do with it; it has the response or the
\* timeout; its command never got in.
Asks(a) ==
    /\ at.task = Nobody /\ at'.task = a /\ at'.resp = << >>
    /\ app'[a].pc \in Asking /\ at'.index = IndexAt(app'[a].pc)
Passes(a) == at' = at /\ app[a].pc \notin Asking /\ app'[a].pc # "lookup"
Leaves(a) == at.task = a /\ at' = NoCommand /\ app'[a].pc \notin Asking
Misses(a) == at.task # a /\ at' = at /\ app'[a].pc \notin Asking

\* at_command, as a step of a task that does not wait for a command yet.
LEMMA AtCommandMoves ==
    ASSUME NEW a \in Apps, NEW text, NEW index, at_command(a, text, index),
           app[a].pc \notin Asking, app'[a].pc \in Asking, app'[a].pc # "lookup",
           index = IndexAt(app'[a].pc)
    PROVE  Asks(a) \/ Passes(a)
BY DEF at_command, Asks, Passes

LEMMA AtReturnMoves ==
    ASSUME NEW a \in Apps, at_response(a) \/ at_timeout(a), app'[a].pc \notin Asking
    PROVE  Leaves(a) \/ Misses(a)
BY DEF at_response, at_timeout, Leaves, Misses

LEMMA AtMoves ==
    ASSUME Typed, NEW a \in Apps, Owns(a), ItsStep(a)
    PROVE  Asks(a) \/ Passes(a) \/ Leaves(a) \/ Misses(a)
<1>1. app \in [Apps -> AppStates] /\ app[a].next \in {"idle", "send"}
  BY DEF Typed, AppStates
<1>2. ASSUME NEW pc PROVE [app EXCEPT ![a].pc = pc][a].pc = pc
  BY <1>1 DEF AppStates
<1>3. CASE Esp8266Close(a)
  <2>1. at_command(a, Command("AT+CIPCLOSE", a), "OK") /\ app'[a].pc = "close"
        /\ app[a].pc = "idle"
    BY <1>2, <1>3 DEF Esp8266Close
  <2> QED
    BY <2>1, AtCommandMoves DEF Asking, IndexAt
<1>4. CASE close_return(a)
  <2>1. (at_response(a) \/ at_timeout(a)) /\ app'[a].pc = "free"
    BY <1>2, <1>4 DEF close_return
  <2> QED
    BY <2>1, AtReturnMoves DEF Asking
<1>5. CASE data_command(a)
  <2>1. at_command(a, Payload(app[a].sock, hist[app[a].sock].offered), "SEND OK")
        /\ app'[a].pc = "sending" /\ app[a].pc = "data"
    BY <1>2, <1>5 DEF data_command
  <2> QED
    BY <2>1, AtCommandMoves DEF Asking, IndexAt
<1>6. CASE \E next \in {"idle", "send"} : Esp8266Connect(a, next)
  <2>1. PICK next \in {"idle", "send"} : Esp8266Connect(a, next)
    BY <1>6
  <2>2. at_command(a, Command("AT+CIPSTART", a), "OK") /\ app[a].pc = "idle"
        /\ app' = [app EXCEPT ![a].pc = "connect", ![a].next = next]
    BY <2>1 DEF Esp8266Connect
  <2>3. app'[a].pc = "connect"
    BY <1>1, <2>2 DEF AppStates
  <2> QED
    BY <2>2, <2>3, AtCommandMoves DEF Asking, IndexAt
<1>7. CASE Esp8266GetHostByName(a)
  <2>1. at.task = Nobody /\ at' = [task |-> a, index |-> "+CIPDOMAIN", resp |-> << >>]
        /\ app'[a].pc = "lookup"
    BY <1>2, <1>7 DEF Esp8266GetHostByName
  <2> QED
    BY <2>1 DEF Asks, Asking, IndexAt
<1>8. CASE lookup_return(a)
  <2>1. (at_response(a) \/ at_timeout(a)) /\ app'[a].pc = "idle"
    BY <1>2, <1>8 DEF lookup_return
  <2> QED
    BY <2>1, AtReturnMoves DEF Asking
<1>9. CASE connect_return(a)
  <2>1. (at_response(a) \/ at_timeout(a))
        /\ app' = [app EXCEPT ![a].pc = app[a].next, ![a].next = "idle"]
    BY <1>9 DEF connect_return
  <2>2. app'[a].pc \in {"idle", "send"}
    BY <1>1, <2>1 DEF AppStates
  <2> QED
    BY <2>1, <2>2, AtReturnMoves DEF Asking
<1>10. CASE Esp8266Send(a)
  <2>1. at_command(a, Command("AT+CIPSEND", a), ">") /\ app'[a].pc = "cipsend"
        /\ app[a].pc \in {"idle", "send"}
    BY <1>2, <1>10 DEF Esp8266Send
  <2> QED
    BY <2>1, AtCommandMoves DEF Asking, IndexAt
<1>11. CASE cipsend_return(a)
  <2>1. (at_response(a) \/ at_timeout(a)) /\ app'[a].pc \in {"data", "idle"}
    BY <1>2, <1>11 DEF cipsend_return, send_fails
  <2> QED
    BY <2>1, AtReturnMoves DEF Asking
<1>12. CASE data_return(a)
  <2>1. (at_response(a) \/ at_timeout(a)) /\ app'[a].pc \in {"tail", "idle"}
    BY <1>2, <1>12 DEF data_return, send_fails, send_succeeds
  <2> QED
    BY <2>1, AtReturnMoves DEF Asking
<1>13. CASE send_return(a)
  BY <1>2, <1>13 DEF send_return, send_succeeds, Passes, Asking
<1>14. CASE Esp8266Recv(a)
  BY <1>14 DEF Esp8266Recv, Passes, Asking, tasks
<1> QED
  BY <1>3, <1>4, <1>5, <1>6, <1>7, <1>8, <1>9, <1>10, <1>11, <1>12, <1>13, <1>14
     DEF ItsStep, AppStep, SendStep

\* The other steps leave task and index of the command alone.
LEMMA AtStays ==
    ASSUME Typed, [Next]_vars, ~\E a \in Apps : ItsStep(a)
    PROVE  at'.task = at.task /\ at'.index = at.index /\ (at.task = Nobody => at' = at)
<1>1. CASE \E n \in 1 .. MaxChunk : rcv_task(n)
  BY <1>1 DEF rcv_task, Typed, AtStates
<1>2. CASE ~\E n \in 1 .. MaxChunk : rcv_task(n)
  <2>1. \/ \E a \in Apps : Esp8266SockFree(a)
        \/ \E a \in Apps, type \in Types, garbage \in BOOLEAN :
             Esp8266Socket(a, type, garbage)
        \/ \E w \in Workers : Esp8266MsgDeal(w)
        \/ modem_data \/ modem_command
        \/ \E fd \in Fds, len \in StreamLens \cup DatagramLens : peer_sends(fd, len)
        \/ UNCHANGED vars
    BY <1>2, Steps
  <2>2. at' = at
    BY <2>1 DEF Esp8266SockFree, Esp8266Socket, Esp8266MsgDeal, MsgDealSingle,
                MsgDealWrite, MsgDealRest, modem_data, modem_command, peer_sends, vars
  <2> QED
    BY <2>2
<1> QED
  BY <1>1, <1>2

\* The other steps leave the states of the applications alone, but for a socket
\* that comes or goes.
LEMMA AppStays ==
    ASSUME Typed, [Next]_vars, ~\E a \in Apps : ItsStep(a), NEW b \in Apps
    PROVE  \/ app'[b] = app[b]
           \/ app[b].pc = "idle" /\ app'[b].pc = "idle" /\ app[b].sock = 0
                /\ app'[b].sock = Len(sock) + 1
                /\ \E type \in Types, garbage \in BOOLEAN : Esp8266Socket(b, type, garbage)
           \/ app[b].pc = "free" /\ app'[b].pc = "idle" /\ app'[b].sock = 0
                /\ Esp8266SockFree(b)
<1>1. ASSUME NEW a \in Apps, Esp8266SockFree(a)
      PROVE  \/ app'[b] = app[b]
             \/ app[b].pc = "free" /\ app'[b].pc = "idle" /\ app'[b].sock = 0
                  /\ Esp8266SockFree(b)
  BY <1>1 DEF Esp8266SockFree, Typed, AppStates
<1>2. ASSUME NEW a \in Apps, NEW type \in Types, NEW garbage \in BOOLEAN,
             Esp8266Socket(a, type, garbage)
      PROVE  \/ app'[b] = app[b]
             \/ app[b].pc = "idle" /\ app'[b].pc = "idle" /\ app[b].sock = 0
                  /\ app'[b].sock = Len(sock) + 1 /\ Esp8266Socket(b, type, garbage)
  <2>1. app' = [app EXCEPT ![a].sock = Len(sock) + 1] /\ app[a].pc = "idle" /\ app[a].sock = 0
    BY <1>2 DEF Esp8266Socket
  <2>2. a # b => app'[b] = app[b]
    BY <2>1 DEF Typed
  <2>3. a = b => app'[b].pc = "idle" /\ app'[b].sock = Len(sock) + 1
    BY <2>1 DEF Typed, AppStates
  <2> QED
    BY <1>2, <2>1, <2>2, <2>3
<1>3. CASE \/ \E w \in Workers : Esp8266MsgDeal(w)
           \/ \E n \in 1 .. MaxChunk : rcv_task(n)
           \/ modem_data \/ modem_command
           \/ \E fd \in Fds, len \in StreamLens \cup DatagramLens : peer_sends(fd, len)
           \/ UNCHANGED vars
  BY <1>3 DEF Esp8266MsgDeal, MsgDealSingle, MsgDealWrite, MsgDealRest, rcv_task,
              modem_data, modem_command, peer_sends, vars, tasks
<1> QED
  BY <1>1, <1>2, <1>3, Steps

\* The first three parts of Commanding.
Waiting ==
    /\ at.task # Nobody => app[at.task].pc \in Asking /\ at.index = IndexAt(app[at.task].pc)
    /\ at.task = Nobody => at = NoCommand
    /\ \A a \in Apps : app[a].pc = "lookup" => at.task = a

LEMMA WaitingKept ==
    ASSUME Typed, Owners, Waiting, [Next]_vars
    PROVE  Waiting'
<1>1. at \in AtStates /\ at.task \in Apps \cup {Nobody}
  BY DEF Typed, AtStates
<1>2. ASSUME NEW a \in Apps, ItsStep(a) PROVE Waiting'
  <2>1. Owns(a) /\ a # Nobody
    BY Bounds DEF Owners
  <2>2. \A b \in Apps \ {a} : app'[b] = app[b]
    BY <1>2, <2>1, Moves
  <2>3. CASE Asks(a)
    <3>1. \A b \in Apps : app[b].pc # "lookup"
      BY <2>3, Bounds DEF Asks, Waiting
    <3>2. \A b \in Apps : app'[b].pc = "lookup" => b = a
      BY <2>2, <3>1
    <3> QED
      BY <2>1, <2>3, <3>2 DEF Asks, Waiting
  <2>4. CASE Passes(a)
    BY <1>1, <2>1, <2>2, <2>4 DEF Passes, Waiting
  <2>5. CASE Leaves(a)
    BY <2>1, <2>2, <2>5 DEF Leaves, Waiting, NoCommand, Asking
  <2>6. CASE Misses(a)
    BY <1>1, <2>1, <2>2, <2>6 DEF Misses, Waiting, Asking
  <2> QED
    BY <1>2, <2>1, <2>3, <2>4, <2>5, <2>6, AtMoves
<1>3. CASE ~\E a \in Apps : ItsStep(a)
  <2>1. at'.task = at.task /\ at'.index = at.index /\ (at.task = Nobody => at' = at)
    BY <1>3, AtStays
  <2>2. \A b \in Apps : app'[b].pc = app[b].pc \/ (app'[b].pc = "idle" /\ app[b].pc = "free")
    BY <1>3, AppStays
  <2> QED
    BY <1>1, <2>1, <2>2 DEF Waiting, Asking
<1> QED
  BY <1>2, <1>3

-----------------------------------------------------------------------------
(* What the peers sent and what the applications offered is not forgotten *)

\* The history only grows.
HistGrows ==
    \A s \in 1 .. Len(sock) :
      /\ s \in 1 .. Len(sock')
      /\ hist'[s].offered \in Nat /\ hist'[s].offered >= hist[s].offered
      /\ \A k \in DOMAIN hist[s].peer : k \in DOMAIN hist'[s].peer
                                        /\ hist'[s].peer[k] = hist[s].peer[k]

\* When one field of the history of a socket changes, the others do not.
LEMMA Recorded ==
    ASSUME Typed, NEW s, NEW v, NEW t \in 1 .. Len(sock)
    PROVE  /\ hist' = [hist EXCEPT ![s].offered = v] =>
                /\ hist'[t].acked = hist[t].acked /\ hist'[t].got = hist[t].got
                /\ hist'[t].net = hist[t].net /\ hist'[t].peer = hist[t].peer
           /\ hist' = [hist EXCEPT ![s].acked = v] =>
                /\ hist'[t].offered = hist[t].offered /\ hist'[t].got = hist[t].got
                /\ hist'[t].net = hist[t].net /\ hist'[t].peer = hist[t].peer
           /\ hist' = [hist EXCEPT ![s].got = v] =>
                /\ hist'[t].offered = hist[t].offered /\ hist'[t].acked = hist[t].acked
                /\ hist'[t].net = hist[t].net /\ hist'[t].peer = hist[t].peer
           /\ hist' = [hist EXCEPT ![s].net = v] =>
                /\ hist'[t].offered = hist[t].offered /\ hist'[t].acked = hist[t].acked
                /\ hist'[t].got = hist[t].got /\ hist'[t].peer = hist[t].peer
           /\ hist' = [hist EXCEPT ![s].peer = v] =>
                /\ hist'[t].offered = hist[t].offered /\ hist'[t].acked = hist[t].acked
                /\ hist'[t].got = hist[t].got /\ hist'[t].net = hist[t].net
<1>1. DOMAIN hist = 1 .. Len(sock)
  BY LenProperties DEF Typed
<1>2. hist[t] \in Histories
  BY ASocket
<1>3. DOMAIN hist[t] = {"peer", "got", "offered", "acked", "net"}
  BY <1>2 DEF Histories
<1> QED
  BY <1>1, <1>3

\* What each step does to the history.
LEMMA HistSteps ==
    ASSUME Typed, Owners, [Next]_vars
    PROVE  \/ hist' = hist
           \/ \E a \in Apps : Esp8266Send(a)
                /\ hist' = [hist EXCEPT ![app[a].sock].offered =
                              hist[app[a].sock].offered + 1]
           \/ \E a \in Apps : send_succeeds(a) /\ app[a].pc \in {"sending", "tail"}
           \/ \E s, v : hist' = [hist EXCEPT ![s].got = v]
           \/ modem_data
           \/ \E fd \in Fds, len \in Lens : peer_sends(fd, len)
           \/ \E a \in Apps, type \in Types, garbage \in BOOLEAN :
                Esp8266Socket(a, type, garbage)
<1>1. ASSUME NEW a \in Apps, SendStep(a)
      PROVE  \/ hist' = hist
             \/ Esp8266Send(a)
                  /\ hist' = [hist EXCEPT ![app[a].sock].offered =
                                hist[app[a].sock].offered + 1]
             \/ send_succeeds(a) /\ app[a].pc \in {"sending", "tail"}
  BY <1>1 DEF SendStep, connect_return, Esp8266Send, cipsend_return, data_return,
              send_return
<1>2. ASSUME NEW a \in Apps, AppStep(a) \/ Esp8266SockFree(a) PROVE hist' = hist
  BY <1>2 DEF AppStep, Esp8266Close, close_return, data_command, Esp8266Connect,
              Esp8266GetHostByName, lookup_return, Esp8266SockFree, history
<1>3. ASSUME NEW a \in Apps, Esp8266Recv(a)
      PROVE  hist' = hist \/ \E v : hist' = [hist EXCEPT ![app[a].sock].got = v]
  BY <1>3 DEF Esp8266Recv
<1>4. CASE \/ \E w \in Workers : Esp8266MsgDeal(w)
           \/ \E n \in 1 .. MaxChunk : rcv_task(n)
           \/ modem_command \/ UNCHANGED vars
  BY <1>4 DEF Esp8266MsgDeal, MsgDealSingle, MsgDealWrite, MsgDealRest, rcv_task,
              modem_command, vars, history
<1> QED
  BY <1>1, <1>2, <1>3, <1>4, Steps DEF ItsStep, Lens

LEMMA HistGrown ==
    ASSUME Typed, Owners, Dealings, [Next]_vars
    PROVE  HistGrows
<1>1. /\ \A s \in 1 .. Len(sock) : hist[s].offered \in Nat
      /\ Len(sock) \in Nat /\ DOMAIN hist = 1 .. Len(sock)
  BY ASocket, LenProperties DEF Typed
<1>2. (~\E a \in Apps, type \in Types, garbage \in BOOLEAN :
           Esp8266Socket(a, type, garbage)) => Len(sock') = Len(sock)
  <2>1. ASSUME NEW a \in Apps, Esp8266SockFree(a) PROVE Len(sock') = Len(sock)
    BY <2>1, LenProperties DEF Esp8266SockFree, Typed
  <2> QED
    BY <2>1, Stands DEF Standing
<1>3. CASE hist' = hist /\ Len(sock') = Len(sock)
  BY <1>1, <1>3 DEF HistGrows
<1>4. CASE (\E a \in Apps : Esp8266Send(a)
               /\ hist' = [hist EXCEPT ![app[a].sock].offered = hist[app[a].sock].offered + 1])
             /\ Len(sock') = Len(sock)
  <2>1. PICK a \in Apps :
               hist' = [hist EXCEPT ![app[a].sock].offered = hist[app[a].sock].offered + 1]
    BY <1>4
  <2> DEFINE s == app[a].sock
             v == hist[s].offered + 1
  <2>2. \A t \in 1 .. Len(sock) :
          /\ hist'[t].offered = (IF t = s THEN v ELSE hist[t].offered)
          /\ hist'[t].peer = hist[t].peer
    <3>1. hist' = [hist EXCEPT ![s].offered = v]
      BY <2>1
    <3> HIDE DEF s, v
    <3>2. SUFFICES ASSUME NEW t \in 1 .. Len(sock)
                   PROVE  /\ hist'[t].offered = (IF t = s THEN v ELSE hist[t].offered)
                          /\ hist'[t].peer = hist[t].peer
      OBVIOUS
    <3>3. hist'[t].peer = hist[t].peer
      BY <3>1, Recorded
    <3>4. hist'[t].offered = (IF t = s THEN v ELSE hist[t].offered)
      <4>1. hist[t] \in Histories
        BY ASocket
      <4> QED
        BY <1>1, <3>1, <4>1 DEF Histories
    <3> QED
      BY <3>3, <3>4
  <2> QED
    BY <1>1, <1>4, <2>2 DEF HistGrows
<1>5. CASE (\E a \in Apps : send_succeeds(a)) /\ Len(sock') = Len(sock)
  <2>1. PICK a \in Apps : send_succeeds(a)
    BY <1>5
  <2>2. hist' = [hist EXCEPT ![app[a].sock].acked =
                   hist[app[a].sock].acked \cup {hist[app[a].sock].offered}]
    BY <2>1 DEF send_succeeds
  <2>3. \A t \in 1 .. Len(sock) :
          hist'[t].peer = hist[t].peer /\ hist'[t].offered = hist[t].offered
    BY <2>2, Recorded
  <2> QED
    BY <1>1, <1>5, <2>3 DEF HistGrows
<1>6. CASE (\E s, v : hist' = [hist EXCEPT ![s].got = v]) /\ Len(sock') = Len(sock)
  <2>1. \A t \in 1 .. Len(sock) :
          hist'[t].peer = hist[t].peer /\ hist'[t].offered = hist[t].offered
    BY <1>6, Recorded
  <2> QED
    BY <1>1, <1>6, <2>1 DEF HistGrows
<1>7. CASE modem_data /\ Len(sock') = Len(sock)
  <2>1. hist' = [hist EXCEPT ![link[prompted]].net =
                    Append(hist[link[prompted]].net, Head(cmds))]
    BY <1>7 DEF modem_data
  <2>2. \A t \in 1 .. Len(sock) :
          hist'[t].peer = hist[t].peer /\ hist'[t].offered = hist[t].offered
    BY <2>1, Recorded
  <2> QED
    BY <1>1, <1>7, <2>2 DEF HistGrows
<1>8. CASE (\E fd \in Fds, len \in Lens : peer_sends(fd, len)) /\ Len(sock') = Len(sock)
  <2>1. PICK fd \in Fds, len \in Lens : peer_sends(fd, len)
    BY <1>8
  <2> DEFINE s == link[fd]
             f == Ipd(fd, s, Len(hist[s].peer) + 1, len)
  <2>2. hist' = [hist EXCEPT ![s].peer = Append(hist[s].peer, f)]
    BY <2>1 DEF peer_sends
  <2>3. s \in 1 .. Len(sock) /\ s \in Nat
    BY <2>1 DEF Typed, peer_sends
  <2>4. hist[s].peer \in Seq(Ipds) /\ f \in Ipds
    <3>1. hist[s].peer \in Seq(Ipds)
      BY <2>3, ASocket
    <3>2. Len(hist[s].peer) + 1 \in Nat
      BY <3>1, LenProperties
    <3> QED
      BY <2>3, <3>1, <3>2, PartKinds
  <2> HIDE DEF f, s
  <2>5. \A t \in 1 .. Len(sock) :
          /\ hist'[t].peer = (IF t = s THEN Append(hist[s].peer, f) ELSE hist[t].peer)
          /\ hist'[t].offered = hist[t].offered
    <3> DEFINE v == Append(hist[s].peer, f)
    <3>1. hist' = [hist EXCEPT ![s].peer = v]
      BY <2>2
    <3> HIDE DEF v
    <3>2. ASSUME NEW t \in 1 .. Len(sock)
          PROVE  /\ hist'[t].peer = (IF t = s THEN v ELSE hist[t].peer)
                 /\ hist'[t].offered = hist[t].offered
      <4>1. hist'[t].offered = hist[t].offered
        BY <3>1, Recorded
      <4>2. hist'[t].peer = (IF t = s THEN v ELSE hist[t].peer)
        <5>1. hist[t] \in Histories
          BY ASocket
        <5> QED
          BY <1>1, <3>1, <5>1 DEF Histories
      <4> QED
        BY <4>1, <4>2
    <3> QED
      BY <3>2 DEF v
  <2>6. \A k \in DOMAIN hist[s].peer : /\ k \in DOMAIN Append(hist[s].peer, f)
                                       /\ Append(hist[s].peer, f)[k] = hist[s].peer[k]
    BY <2>4, Appended
  <2>7. ASSUME NEW t \in 1 .. Len(sock)
        PROVE  \A k \in DOMAIN hist[t].peer : k \in DOMAIN hist'[t].peer
                                               /\ hist'[t].peer[k] = hist[t].peer[k]
    <3>1. CASE t = s
      <4>1. hist'[t].peer = Append(hist[s].peer, f)
        BY <2>5, <3>1
      <4> QED
        BY <2>6, <3>1, <4>1
    <3>2. CASE t # s
      BY <2>5, <3>2
    <3> QED
      BY <3>1, <3>2
  <2> QED
    BY <1>1, <1>8, <2>5, <2>7 DEF HistGrows
<1>9. CASE \E a \in Apps, type \in Types, garbage \in BOOLEAN : Esp8266Socket(a, type, garbage)
  <2>1. PICK h, x : hist' = Append(hist, h) /\ sock' = Append(sock, x)
    BY <1>9 DEF Esp8266Socket
  <2>2. Len(sock') = Len(sock) + 1 /\ \A t \in 1 .. Len(sock) : hist'[t] = hist[t]
    BY <1>1, <2>1, AppendProperties DEF Typed
  <2> QED
    BY <1>1, <2>2 DEF HistGrows
<1> QED
  BY <1>2, <1>3, <1>4, <1>5, <1>6, <1>7, <1>8, <1>9, HistSteps

\* A task that sends has offered something.
Offering ==
    \A a \in Apps : app[a].pc \in {"cipsend", "data", "sending", "tail"} =>
                      hist[app[a].sock].offered > 0

LEMMA OfferingKept ==
    ASSUME Typed, Owners, Dealings, Offering, [Next]_vars
    PROVE  Offering'
<1> DEFINE Sends == {"cipsend", "data", "sending", "tail"}
<1>1. SUFFICES ASSUME NEW b \in Apps, app'[b].pc \in Sends
               PROVE  hist'[app'[b].sock].offered > 0
  BY DEF Offering
<1>2. Owns(b)
  BY DEF Owners
<1>3. CASE app[b].pc \in Sends /\ app'[b].sock = app[b].sock
  <2>1. app[b].sock \in 1 .. Len(sock) /\ hist[app[b].sock].offered \in Nat
        /\ hist[app[b].sock].offered > 0
    BY <1>2, <1>3, OwnSocket DEF Owns, Offering
  <2>2. hist'[app[b].sock].offered \in Nat
        /\ hist'[app[b].sock].offered >= hist[app[b].sock].offered
    BY <2>1, HistGrown DEF HistGrows
  <2> QED
    BY <1>3, <2>1, <2>2
<1>4. CASE Esp8266Send(b)
  <2>1. app[b].sock # 0 /\ app'[b].sock = app[b].sock
    BY <1>2, <1>4, Moves DEF Esp8266Send, ItsStep, SendStep, Owns
  <2>2. app[b].sock \in DOMAIN hist /\ hist[app[b].sock] \in Histories
        /\ hist[app[b].sock].offered \in Nat
    BY <1>2, <2>1, OwnSocket
  <2>3. hist'[app[b].sock].offered = hist[app[b].sock].offered + 1
    BY <1>4, <2>2 DEF Esp8266Send, Histories
  <2> QED
    BY <2>1, <2>2, <2>3
<1>5. ASSUME NEW a \in Apps, ItsStep(a)
      PROVE  (app[b].pc \in Sends /\ app'[b].sock = app[b].sock) \/ Esp8266Send(b)
  <2>1. Owns(a) /\ app \in [Apps -> AppStates]
    BY DEF Owners, Typed
  <2>2. CASE a # b
    BY <1>1, <1>5, <2>1, <2>2, Moves
  <2>3. CASE a = b
    <3>1. app'[b].sock = app[b].sock
      BY <1>5, <2>1, <2>3, Moves
    <3>2. CASE AppStep(a)
      <4>1. CASE data_command(a)
        BY <2>3, <3>1, <4>1 DEF data_command
      <4>2. CASE \E next \in {"idle", "send"} : Esp8266Connect(a, next)
        <5>1. app'[b].pc = "connect"
          BY <2>1, <2>3, <4>2 DEF Esp8266Connect, AppStates
        <5> QED
          BY <1>1, <5>1
      <4>3. CASE \/ Esp8266Close(a) \/ close_return(a) \/ Esp8266GetHostByName(a)
                 \/ lookup_return(a)
        <5>1. app'[b].pc \in {"close", "free", "lookup", "idle"}
          BY <2>1, <2>3, <4>3
             DEF Esp8266Close, close_return, Esp8266GetHostByName, lookup_return, AppStates
        <5> QED
          BY <1>1, <5>1
      <4> QED
        BY <3>2, <4>1, <4>2, <4>3 DEF AppStep
    <3>3. CASE connect_return(a)
      <4>1. app'[b].pc \in {"idle", "send"}
        BY <2>1, <2>3, <3>3 DEF connect_return, AppStates
      <4> QED
        BY <1>1, <4>1
    <3>4. CASE Esp8266Send(a) \/ cipsend_return(a) \/ data_return(a) \/ send_return(a)
      BY <2>3, <3>1, <3>4 DEF cipsend_return, data_return, send_return
    <3>5. CASE Esp8266Recv(a)
      BY <1>1, <2>3, <3>5 DEF Esp8266Recv, tasks
    <3> QED
      BY <1>5, <3>2, <3>3, <3>4, <3>5 DEF ItsStep, SendStep
  <2> QED
    BY <2>2, <2>3
<1>6. CASE ~\E a \in Apps : ItsStep(a)
  BY <1>1, <1>3, <1>6, AppStays
<1> QED
  BY <1>3, <1>4, <1>5, <1>6

\* Commands name sockets that were allocated.
Addressed == \A i \in DOMAIN cmds : cmds[i] \in LinkCmds => cmds[i].sock <= Len(sock)

LEMMA AddressedKept ==
    ASSUME Typed, Owners, Dealings, Addressed, [Next]_vars
    PROVE  Addressed'
<1>1. Len(sock') >= Len(sock) /\ Len(sock) \in Nat /\ Len(sock') \in Nat
  <2>1. Len(sock) \in Nat /\ Len(sock) \in 0 .. Len(sock)
    BY LenProperties DEF Typed
  <2>2. ASSUME NEW a \in Apps, NEW type \in Types, NEW garbage \in BOOLEAN,
               Esp8266Socket(a, type, garbage)
        PROVE  Len(sock') = Len(sock) + 1
    <3>1. PICK x : sock' = Append(sock, x)
      BY <2>2 DEF Esp8266Socket
    <3> QED
      BY <3>1, AppendProperties DEF Typed
  <2>3. ASSUME NEW a \in Apps, Esp8266SockFree(a) PROVE Len(sock') = Len(sock)
    BY <2>3, LenProperties DEF Esp8266SockFree, Typed
  <2>4. Len(sock') = Len(sock) \/ Len(sock') = Len(sock) + 1
    BY <2>2, <2>3, Stands DEF Standing
  <2> QED
    BY <2>1, <2>4
<1>2. cmds \in Seq(Cmds) /\ \A i \in DOMAIN cmds : cmds[i] \in LinkCmds => cmds[i].sock \in Nat
  BY CmdKinds DEF Typed
<1>3. CASE cmds' = cmds
  BY <1>1, <1>2, <1>3 DEF Addressed
<1>4. ASSUME NEW c \in Cmds, cmds' = Append(cmds, c), c \in LinkCmds => c.sock <= Len(sock)
      PROVE  Addressed'
  <2>1. /\ DOMAIN cmds' = DOMAIN cmds \cup {Len(cmds) + 1}
        /\ cmds'[Len(cmds) + 1] = c /\ \A j \in DOMAIN cmds : cmds'[j] = cmds[j]
    BY <1>2, <1>4, Appended
  <2> QED
    BY <1>1, <1>2, <1>4, <2>1, CmdKinds DEF Addressed
<1>5. ASSUME cmds # << >>, cmds' = Tail(cmds) PROVE Addressed'
  <2>1. \A i \in DOMAIN cmds' : i + 1 \in DOMAIN cmds /\ cmds'[i] = cmds[i + 1]
    BY <1>2, <1>5, Rest
  <2> QED
    BY <1>1, <1>2, <2>1 DEF Addressed
<1>6. ASSUME NEW a \in Apps, AppStep(a) PROVE Addressed'
  <2>1. Owns(a)
    BY DEF Owners
  <2>2. CASE Esp8266Close(a)
    <3>1. app[a].sock # 0 /\ (cmds' = cmds \/ cmds' = Append(cmds, Command("AT+CIPCLOSE", a)))
      BY <2>2 DEF Esp8266Close, at_command
    <3>2. Command("AT+CIPCLOSE", a) \in Cmds
          /\ Command("AT+CIPCLOSE", a).sock <= Len(sock)
      BY <2>1, <3>1, ItsCommand DEF Owns
    <3> QED
      BY <1>3, <1>4, <3>1, <3>2
  <2>3. CASE \E next \in {"idle", "send"} : Esp8266Connect(a, next)
    <3>1. app[a].sock # 0 /\ (cmds' = cmds \/ cmds' = Append(cmds, Command("AT+CIPSTART", a)))
      BY <2>3 DEF Esp8266Connect, at_command
    <3>2. Command("AT+CIPSTART", a) \in Cmds
          /\ Command("AT+CIPSTART", a).sock <= Len(sock)
      BY <2>1, <3>1, ItsCommand DEF Owns
    <3> QED
      BY <1>3, <1>4, <3>1, <3>2
  <2>4. CASE data_command(a)
    <3> DEFINE c == Payload(app[a].sock, hist[app[a].sock].offered)
    <3>1. cmds' = cmds \/ cmds' = Append(cmds, c)
      BY <2>4 DEF data_command, at_command
    <3>2. app[a].sock # 0 /\ app[a].sock \in Nat
      BY <2>1, <2>4 DEF data_command, Owns, Typed, AppStates
    <3>3. c \in Cmds /\ c.kind = "data"
      BY <2>1, <3>2, OwnSocket, CmdKinds
    <3>4. c \notin LinkCmds
      BY <3>3, CmdKinds
    <3> HIDE DEF c
    <3> QED
      BY <1>3, <1>4, <3>1, <3>3, <3>4
  <2>5. CASE Esp8266GetHostByName(a)
    <3>1. cmds' = Append(cmds, CipDomain)
      BY <2>5 DEF Esp8266GetHostByName
    <3>2. CipDomain \in Cmds /\ CipDomain \notin LinkCmds
      BY CmdKinds
    <3> QED
      BY <1>4, <3>1, <3>2
  <2>6. CASE close_return(a) \/ lookup_return(a)
    BY <1>3, <2>6 DEF close_return, lookup_return
  <2> QED
    BY <1>6, <2>2, <2>3, <2>4, <2>5, <2>6 DEF AppStep
<1>7. ASSUME NEW a \in Apps, SendStep(a) PROVE Addressed'
  <2>1. Owns(a)
    BY DEF Owners
  <2>2. CASE Esp8266Send(a)
    <3>1. app[a].sock # 0 /\ (cmds' = cmds \/ cmds' = Append(cmds, Command("AT+CIPSEND", a)))
      BY <2>1, <2>2 DEF Esp8266Send, at_command, Owns
    <3>2. Command("AT+CIPSEND", a) \in Cmds
          /\ Command("AT+CIPSEND", a).sock <= Len(sock)
      BY <2>1, <3>1, ItsCommand DEF Owns
    <3> QED
      BY <1>3, <1>4, <3>1, <3>2
  <2>3. CASE connect_return(a) \/ cipsend_return(a) \/ data_return(a) \/ send_return(a)
    BY <1>3, <2>3 DEF connect_return, cipsend_return, data_return, send_return
  <2> QED
    BY <1>7, <2>2, <2>3 DEF SendStep
<1>8. CASE modem_data \/ modem_command
  BY <1>5, <1>8 DEF modem_data, modem_command
<1>9. CASE \/ \E a \in Apps : Esp8266Recv(a) \/ Esp8266SockFree(a)
           \/ \E a \in Apps, type \in Types, garbage \in BOOLEAN :
                Esp8266Socket(a, type, garbage)
           \/ \E w \in Workers : Esp8266MsgDeal(w)
           \/ \E n \in 1 .. MaxChunk : rcv_task(n)
           \/ \E fd \in Fds, len \in StreamLens \cup DatagramLens : peer_sends(fd, len)
           \/ UNCHANGED vars
  <2>1. cmds' = cmds
    BY <1>9 DEF Esp8266Recv, Esp8266SockFree, Esp8266Socket, Esp8266MsgDeal, MsgDealSingle,
                MsgDealWrite, MsgDealRest, rcv_task, peer_sends, vars
  <2> QED
    BY <1>3, <2>1
<1> QED
  BY <1>6, <1>7, <1>8, <1>9, Steps DEF ItsStep

LEMMA CommandingKept ==
    ASSUME Typed, Owners, Dealings, Commanding, [Next]_vars
    PROVE  Commanding'
<1>1. Commanding <=> Waiting /\ Offering /\ Addressed
  BY DEF Commanding, Waiting, Offering, Addressed
<1>2. Waiting' /\ Offering' /\ Addressed'
  BY <1>1, WaitingKept, OfferingKept, AddressedKept
<1> QED
  BY <1>2 DEF Commanding, Waiting, Offering, Addressed

-----------------------------------------------------------------------------
(* Frames are written one at a time, and are those that the peers sent *)

\* Only a writing task fills a ring buffer.
LEMMA RoomKept ==
    ASSUME Typed, Owners, Dealings, [Next]_vars, ~\E w \in Workers : MsgDealWrite(w),
           NEW s \in 1 .. Len(sock)
    PROVE  s <= Len(sock') /\ Len(sock'[s].rcvRing) <= Len(sock[s].rcvRing)
<1>1. /\ sock \in Seq(Sockets) /\ DOMAIN sock = 1 .. Len(sock) /\ Len(sock) \in Nat
      /\ sock[s] \in Sockets /\ sock[s].rcvRing \in Seq(Pieces)
      /\ Len(sock[s].rcvRing) \in Nat /\ s <= Len(sock)
  BY ASocket, LenProperties DEF Typed
<1>2. CASE sock' = sock
  BY <1>1, <1>2
<1>3. ASSUME NEW t, NEW v, sock' = [sock EXCEPT ![t].isConnect = v]
      PROVE  s <= Len(sock') /\ sock'[s].rcvRing = sock[s].rcvRing
  BY <1>1, <1>3, LenProperties DEF Sockets
<1>4. ASSUME NEW a \in Apps, Esp8266SockFree(a)
      PROVE  s <= Len(sock') /\ Len(sock'[s].rcvRing) <= Len(sock[s].rcvRing)
  <2>1. Len(sock') = Len(sock)
        /\ (sock'[s].rcvRing = sock[s].rcvRing \/ sock'[s].rcvRing = << >>)
    BY <1>1, <1>4, LenProperties DEF Esp8266SockFree, Sockets
  <2> QED
    BY <1>1, <2>1, EmptySeq
<1>5. ASSUME NEW a \in Apps, NEW type \in Types, NEW garbage \in BOOLEAN,
             Esp8266Socket(a, type, garbage)
      PROVE  s <= Len(sock') /\ Len(sock'[s].rcvRing) <= Len(sock[s].rcvRing)
  <2>1. PICK x : sock' = Append(sock, x)
    BY <1>5 DEF Esp8266Socket
  <2> QED
    BY <1>1, <2>1, AppendProperties
<1>6. ASSUME NEW a \in Apps, Esp8266Recv(a)
      PROVE  s <= Len(sock') /\ Len(sock'[s].rcvRing) <= Len(sock[s].rcvRing)
  <2> DEFINE t == app[a].sock
             ring == sock[t].rcvRing
  <2>1. PICK n \in 1 .. Len(ring) :
          sock' = [sock EXCEPT ![t].rcvRing = SubSeq(ring, n + 1, Len(ring))]
    BY <1>6 DEF Esp8266Recv
  <2>2. t \in 1 .. Len(sock)
    BY <1>6, OwnSocket DEF Esp8266Recv, Owners
  <2>3. ring \in Seq(Pieces) /\ Len(ring) \in Nat
    BY <2>2, ASocket, LenProperties
  <2>4. Len(SubSeq(ring, n + 1, Len(ring))) <= Len(ring)
    <3> HIDE DEF ring
    <3>1. n + 1 \in Nat \ {0} /\ n \in Nat
      BY <2>3
    <3>2. Len(SubSeq(ring, n + 1, Len(ring)))
            = (IF n + 1 <= Len(ring) THEN Len(ring) - (n + 1) + 1 ELSE 0)
      BY <2>3, <3>1, Portion
    <3> QED
      BY <2>3, <3>1, <3>2
  <2>5. CASE s = t
    <3>1. sock'[s].rcvRing = SubSeq(ring, n + 1, Len(ring)) /\ Len(sock') = Len(sock)
      <4> DEFINE rest == SubSeq(ring, n + 1, Len(ring))
      <4>1. sock' = [sock EXCEPT ![t].rcvRing = rest]
        BY <2>1
      <4> HIDE DEF rest, t
      <4>2. sock'[s].rcvRing = rest /\ Len(sock') = Len(sock)
        BY <1>1, <2>5, <4>1, LenProperties DEF Sockets
      <4> QED
        BY <4>2 DEF rest, t
    <3> QED
      BY <1>1, <2>4, <2>5, <3>1
  <2>6. CASE s # t
    <3>1. sock'[s] = sock[s] /\ Len(sock') = Len(sock)
      BY <1>1, <2>1, <2>6, LenProperties
    <3> QED
      BY <1>1, <3>1
  <2> QED
    BY <2>5, <2>6
<1>7. ASSUME NEW a \in Apps, AppStep(a) \/ SendStep(a)
      PROVE  s <= Len(sock') /\ Len(sock'[s].rcvRing) <= Len(sock[s].rcvRing)
  <2>1. sock' = sock \/ \E t, v : sock' = [sock EXCEPT ![t].isConnect = v]
    BY <1>7 DEF AppStep, SendStep, Esp8266Close, close_return, data_command,
          Esp8266Connect, Esp8266GetHostByName, lookup_return, connect_return, Esp8266Send,
          cipsend_return, data_return, send_return, sockets, send_fails
  <2>2. CASE \E t, v : sock' = [sock EXCEPT ![t].isConnect = v]
    <3>1. s <= Len(sock') /\ sock'[s].rcvRing = sock[s].rcvRing
      BY <1>3, <2>2
    <3> QED
      BY <1>1, <3>1
  <2> QED
    BY <1>2, <2>1, <2>2
<1>8. CASE \/ \E w \in Workers : MsgDealSingle(w) \/ MsgDealRest(w)
           \/ \E n \in 1 .. MaxChunk : rcv_task(n)
           \/ modem_data \/ modem_command
           \/ \E fd \in Fds, len \in StreamLens \cup DatagramLens : peer_sends(fd, len)
           \/ UNCHANGED vars
  <2>1. sock' = sock
    BY <1>8 DEF MsgDealSingle, MsgDealRest, rcv_task, modem_data, modem_command, peer_sends,
                vars, sockets
  <2> QED
    BY <1>2, <2>1
<1> QED
  BY <1>4, <1>5, <1>6, <1>7, <1>8, Steps DEF ItsStep, Esp8266MsgDeal

\* A frame for which there is room still has it after such a step.
LEMMA FitsKept ==
    ASSUME Typed, Owners, Commanding, Dealings, [Next]_vars,
           ~\E w \in Workers : MsgDealWrite(w),
           NEW s \in 1 .. Len(sock), NEW f \in Ipds, Fits(f, s)
    PROVE  s <= Len(sock') /\ Fits(f, s)'
<1>1. s <= Len(sock') /\ Len(sock'[s].rcvRing) <= Len(sock[s].rcvRing)
  BY RoomKept
<1>2. /\ f.len \in Nat /\ RCVCACHE \in Nat /\ Len(sock[s].rcvRing) \in Nat
      /\ f.len <= RCVCACHE - Len(sock[s].rcvRing)
  BY ASocket, PartKinds, Bounds DEF Fits, Room
<1>3. Len(sock'[s].rcvRing) \in Nat
  <2>1. s \in 1 .. Len(sock')
    BY <1>1
  <2>2. sock' \in Seq(Sockets) => sock'[s] \in Sockets
    BY <2>1, ElementOfSeq
  <2>3. sock' \in Seq(Sockets) => sock'[s].rcvRing \in Seq(Pieces)
    BY <2>2 DEF Sockets, Rings
  <2>4. Typed'
    BY TypedKept
  <2> QED
    BY <2>3, <2>4, LenProperties DEF Typed
<1> QED
  BY <1>1, <1>2, <1>3 DEF Fits, Room

\* A task that is not in MsgDealWrite keeps what it deals with.
LEMMA StillDealing ==
    ASSUME Typed, Owners, Commanding, Dealings, [Next]_vars,
           ~\E w \in Workers : MsgDealWrite(w),
           NEW v \in Workers, deal'[v].sock = deal[v].sock,
           deal[v].sock # 0 => deal'[v].parts = deal[v].parts,
           ioLock' = v <=> ioLock = v
    PROVE  Dealing(v)'
<1>1. Dealing(v)
  BY DEF Dealings
<1>2. CASE deal[v].sock = 0
  BY <1>1, <1>2 DEF Dealing
<1>3. CASE deal[v].sock # 0
  <2> DEFINE s == deal[v].sock
             f == Head(deal[v].parts)
  <2>1. deal[v].parts # << >> /\ IsIpd(f) /\ s <= Len(sock) /\ Fits(f, s)
    BY <1>1, <1>3 DEF Dealing
  <2>2. s \in 1 .. Len(sock) /\ f \in Ipds
    <3>1. s \in Nat /\ deal[v].parts \in Seq(Parts) /\ Len(sock) \in Nat
      BY LenProperties DEF Typed, DealStates
    <3>2. f \in Parts
      BY <2>1, <3>1, Rest
    <3> QED
      BY <1>3, <2>1, <3>1, <3>2, PartKinds
  <2>3. s <= Len(sock') /\ Fits(f, s)'
    <3>1. \A x, y : (Fits(x, y))' <=> x.len <= (RCVCACHE - Len(sock'[y].rcvRing))
      BY DEF Fits, Room
    <3>2. \A x \in Ipds, y \in 1 .. Len(sock) :
            Fits(x, y) => y <= Len(sock') /\ x.len <= (RCVCACHE - Len(sock'[y].rcvRing))
      BY FitsKept DEF Fits, Room
    <3>3. s <= Len(sock') /\ f.len <= (RCVCACHE - Len(sock'[s].rcvRing))
      BY <2>1, <2>2, <3>2
    <3>4. s' = s /\ f' = f
      BY <1>3
    <3> QED
      BY <3>3, <3>4 DEF Fits, Room
  <2> QED
    BY <1>1, <1>3, <2>1, <2>3 DEF Dealing, Fits, Room
<1> QED
  BY <1>2, <1>3

LEMMA DealingsKept ==
    ASSUME Typed, Owners, Commanding, Dealings, [Next]_vars
    PROVE  Dealings'
<1>1. /\ deal \in [Workers -> DealStates] /\ Nobody \notin Workers
      /\ ioLock \in Workers \cup {Nobody}
  BY Bounds DEF Typed, Workers
<1>2. SUFFICES ASSUME NEW v \in Workers PROVE Dealing(v)'
  BY DEF Dealings
<1>3. Dealing(v)
  BY DEF Dealings
<1>4. ASSUME NEW w \in Workers, MsgDealWrite(w) PROVE Dealing(v)'
  <2>1. ioLock = w
    BY <1>4 DEF MsgDealWrite, Dealings, Dealing
  <2>2. v # w => deal'[v] = deal[v] /\ deal[v].sock = 0
    BY <1>1, <1>3, <1>4, <2>1 DEF MsgDealWrite, Dealing
  <2>3. v = w => deal'[v].sock = 0
    BY <1>1, <1>4 DEF MsgDealWrite, DealStates
  <2>4. deal'[v].sock = 0 /\ ioLock' # v
    BY <1>1, <1>4, <2>2, <2>3 DEF MsgDealWrite
  <2> QED
    BY <2>4 DEF Dealing
<1>5. ASSUME NEW w \in Workers, MsgDealSingle(w), ~\E x \in Workers : MsgDealWrite(x)
      PROVE  Dealing(v)'
  <2> DEFINE f == Head(deal[w].parts)
             s == sockArray[f.fd]
  <2>1. CASE s = 0 \/ ~Fits(f, s)
    <3>1. deal' = [deal EXCEPT ![w].parts = << >>] /\ UNCHANGED ioLock /\ ioLock = Nobody
      BY <1>5, <2>1 DEF MsgDealSingle
    <3>2. deal'[v].sock = deal[v].sock /\ deal[v].sock = 0
      BY <1>1, <1>3, <3>1 DEF DealStates, Dealing
    <3> QED
      BY <1>5, <3>1, <3>2, StillDealing
  <2>2. CASE s # 0 /\ Fits(f, s)
    <3>1. /\ deal' = [deal EXCEPT ![w].sock = s] /\ ioLock' = w /\ ioLock = Nobody
          /\ deal[w].parts # << >> /\ IsIpd(f) /\ sock' = sock
      BY <1>5, <2>2 DEF MsgDealSingle, sockets
    <3>2. CASE v # w
      <4>1. deal'[v] = deal[v] /\ deal[v].sock = 0 /\ ioLock' # v
        BY <1>1, <1>3, <3>1, <3>2 DEF Dealing
      <4> QED
        BY <4>1 DEF Dealing
    <3>3. CASE v = w
      <4>1. deal'[v].sock = s /\ deal'[v].parts = deal[w].parts
        BY <1>1, <3>1, <3>3 DEF DealStates
      <4>2. f.fd \in Fds
        BY <1>1, <3>1, Rest, PartKinds DEF DealStates
      <4>3. s <= Len(sock)
        <5>1. s \in 0 .. Len(sock)
          BY <4>2 DEF Typed
        <5> QED
          BY <5>1
      <4>4. ioLock' = v
        BY <3>1, <3>3
      <4> HIDE DEF s
      <4>5. f' = f
        BY <3>3, <4>1
      <4> QED
        BY <2>2, <3>1, <3>3, <4>1, <4>3, <4>4 DEF Dealing, Fits, Room
    <3> QED
      BY <3>2, <3>3
  <2> QED
    BY <2>1, <2>2
<1>6. ASSUME NEW w \in Workers, MsgDealRest(w), ~\E x \in Workers : MsgDealWrite(x)
      PROVE  Dealing(v)'
  <2>1. deal[w].sock = 0
    BY <1>6 DEF MsgDealRest, Dealings, Dealing
  <2>2. deal' = [deal EXCEPT ![w].parts = << >>] /\ ioLock' = ioLock
    BY <1>6 DEF MsgDealRest
  <2>3. deal'[v].sock = deal[v].sock /\ (deal[v].sock # 0 => deal'[v].parts = deal[v].parts)
    BY <1>1, <2>1, <2>2 DEF DealStates
  <2> QED
    BY <1>6, <2>2, <2>3, StillDealing
<1>7. ASSUME NEW a \in Apps, ItsStep(a), ~\E x \in Workers : MsgDealWrite(x)
      PROVE  Dealing(v)'
  <2>1. Owns(a) /\ a \in Workers
    BY DEF Owners, Workers
  <2>2. /\ \A w \in Workers \ {a} : deal'[w] = deal[w]
        /\ deal'[a].sock = deal[a].sock
    BY <1>7, <2>1, Moves
  <2>3. deal[a].sock # 0 => deal'[a].parts = deal[a].parts
    <3>1. SUFFICES ASSUME deal[a].sock # 0 PROVE deal'[a].parts = deal[a].parts
      OBVIOUS
    <3>2. app[a].pc = "tail"
      BY <2>1, <3>1 DEF Dealings, Dealing, Owns
    <3> QED
      BY <1>7, <3>2 DEF ItsStep, AppStep, SendStep, Esp8266Close, close_return,
          data_command, Esp8266Connect, Esp8266GetHostByName, lookup_return, connect_return,
          Esp8266Send, cipsend_return, data_return, send_return, Esp8266Recv
  <2>4. ioLock' = ioLock
    BY <1>7 DEF ItsStep, AppStep, SendStep, Esp8266Close, close_return,
          data_command, Esp8266Connect, Esp8266GetHostByName, lookup_return, connect_return,
          Esp8266Send, cipsend_return, data_return, send_return, Esp8266Recv
  <2>5. deal'[v].sock = deal[v].sock /\ (deal[v].sock # 0 => deal'[v].parts = deal[v].parts)
    BY <2>2, <2>3
  <2> QED
    BY <1>7, <2>4, <2>5, StillDealing
<1>8. ASSUME NEW n \in 1 .. MaxChunk, rcv_task(n), ~\E x \in Workers : MsgDealWrite(x)
      PROVE  Dealing(v)'
  <2>1. deal[Rcv].sock = 0 /\ Rcv \in Workers
    BY <1>8 DEF rcv_task, Dealings, Dealing, Workers
  <2>2. deal'[v].sock = deal[v].sock /\ (deal[v].sock # 0 => deal'[v].parts = deal[v].parts)
        /\ ioLock' = ioLock
    <3>1. (deal' = deal \/ \E c : deal' = [deal EXCEPT ![Rcv].parts = c]) /\ ioLock' = ioLock
      BY <1>8 DEF rcv_task
    <3>2. CASE deal' = deal
      BY <3>1, <3>2
    <3>3. CASE \E c : deal' = [deal EXCEPT ![Rcv].parts = c]
      <4>1. PICK c : deal' = [deal EXCEPT ![Rcv].parts = c]
        BY <3>3
      <4>2. v # Rcv => deal'[v] = deal[v]
        BY <1>1, <4>1
      <4>3. deal'[Rcv].sock = deal[Rcv].sock
        BY <1>1, <2>1, <4>1 DEF DealStates
      <4> QED
        BY <2>1, <3>1, <4>2, <4>3
    <3> QED
      BY <3>1, <3>2, <3>3
  <2> QED
    BY <1>8, <2>2, StillDealing
<1>9. CASE (\/ modem_data \/ modem_command \/ UNCHANGED vars
            \/ \E fd \in Fds, len \in StreamLens \cup DatagramLens : peer_sends(fd, len)
            \/ \E a \in Apps : Esp8266SockFree(a)
            \/ \E a \in Apps, type \in Types, garbage \in BOOLEAN :
                 Esp8266Socket(a, type, garbage)) /\ ~\E x \in Workers : MsgDealWrite(x)
  <2>1. UNCHANGED <<deal, ioLock>>
    BY <1>9 DEF modem_data, modem_command, vars, peer_sends, Esp8266SockFree, Esp8266Socket
  <2> QED
    BY <1>9, <2>1, StillDealing
<1> QED
  BY <1>4, <1>5, <1>6, <1>7, <1>8, <1>9, Steps DEF Esp8266MsgDeal

\* What is in r is in q.
ComesFrom(r, q) == \A i \in DOMAIN r : \E j \in DOMAIN q : r[i] = q[j]

\* What was from a peer remains so, and so does what is taken from it.
LEMMA StillFromPeer ==
    ASSUME Typed, Typed', HistGrows, NEW q, AllFromPeer(q, hist), NEW r,
           ComesFrom(r, q)
    PROVE  AllFromPeer(r, hist')
<1>1. DOMAIN hist = 1 .. Len(sock) /\ DOMAIN hist' = 1 .. Len(sock')
  BY LenProperties DEF Typed
<1>2. ASSUME NEW i \in DOMAIN r PROVE FromPeer(r[i], hist')
  <2>1. PICK j \in DOMAIN q : r[i] = q[j]
    BY DEF ComesFrom
  <2>2. FromPeer(r[i], hist)
    BY <2>1 DEF AllFromPeer
  <2>3. SUFFICES ASSUME IsIpd(r[i])
                 PROVE  /\ r[i].sock \in DOMAIN hist'
                        /\ \E k \in DOMAIN hist'[r[i].sock].peer :
                             hist'[r[i].sock].peer[k] = r[i]
    BY DEF FromPeer
  <2>4. r[i].sock \in 1 .. Len(sock)
    BY <1>1, <2>2, <2>3 DEF FromPeer
  <2>5. PICK k \in DOMAIN hist[r[i].sock].peer : hist[r[i].sock].peer[k] = r[i]
    BY <2>2, <2>3 DEF FromPeer
  <2> QED
    BY <1>1, <2>4, <2>5 DEF HistGrows
<1> QED
  BY <1>2 DEF AllFromPeer

\* The parts of what was read and of what is dealt with are parts of it.
LEMMA PartsOf ==
    ASSUME NEW q \in Seq(Parts)
    PROVE  /\ ComesFrom(q, q) /\ ComesFrom(<< >>, q)
           /\ q # << >> => ComesFrom(Tail(q), q)
           /\ HasIpd(q) => ComesFrom(FromIpd(q), q)
           /\ \A m \in Nat \ {0}, n \in Nat : n <= Len(q) => ComesFrom(SubSeq(q, m, n), q)
<1>1. q # << >> => ComesFrom(Tail(q), q)
  BY Rest DEF ComesFrom
<1>2. HasIpd(q) => ComesFrom(FromIpd(q), q)
  BY FramesBehind DEF ComesFrom
<1>3. ASSUME NEW m \in Nat \ {0}, NEW n \in Nat, n <= Len(q)
      PROVE  ComesFrom(SubSeq(q, m, n), q)
  BY <1>3, Portion DEF ComesFrom
<1>4. ComesFrom(q, q) /\ ComesFrom(<< >>, q)
  BY EmptySeq, LenProperties DEF ComesFrom
<1> QED
  BY <1>1, <1>2, <1>3, <1>4

\* What a task reads and deals with was written by the modem.
LEMMA Passed ==
    ASSUME Typed, Owners, Dealings, [Next]_vars
    PROVE  /\ \/ at'.resp = at.resp \/ at'.resp = << >>
              \/ \E n \in Nat : n <= Len(uart) /\ at'.resp = SubSeq(uart, 1, n)
           /\ \A w \in Workers :
                \/ deal'[w].parts = deal[w].parts \/ deal'[w].parts = << >>
                \/ deal[w].parts # << >> /\ deal'[w].parts = Tail(deal[w].parts)
                \/ HasIpd(at.resp) /\ deal'[w].parts = FromIpd(at.resp)
                \/ \E n \in Nat : n <= Len(uart) /\ deal'[w].parts = SubSeq(uart, 1, n)
<1>1. at \in AtStates /\ deal \in [Workers -> DealStates]
  BY DEF Typed
<1>2. ASSUME NEW a \in Apps, ItsStep(a)
      PROVE  /\ at'.resp = at.resp \/ at'.resp = << >>
             /\ \A w \in Workers :
                  \/ deal'[w].parts = deal[w].parts
                  \/ HasIpd(at.resp) /\ deal'[w].parts = FromIpd(at.resp)
  <2>1. at'.resp = at.resp \/ at'.resp = << >>
    <3>1. Asks(a) \/ Passes(a) \/ Leaves(a) \/ Misses(a)
      BY <1>2, AtMoves DEF Owners
    <3>2. NoCommand.resp = << >>
      BY DEF NoCommand
    <3> QED
      BY <3>1, <3>2 DEF Asks, Passes, Leaves, Misses
  <2>2. deal' = deal \/ (HasIpd(at.resp) /\ deal' = [deal EXCEPT ![a].parts = FromIpd(at.resp)])
    BY <1>2 DEF ItsStep, AppStep, SendStep, Esp8266Close, close_return,
          data_command, Esp8266Connect, Esp8266GetHostByName, lookup_return, connect_return,
          Esp8266Send, cipsend_return, data_return, send_return, Esp8266Recv
  <2> QED
    BY <1>1, <2>1, <2>2 DEF DealStates
<1>3. ASSUME NEW w \in Workers, Esp8266MsgDeal(w)
      PROVE  /\ at'.resp = at.resp
             /\ \A v \in Workers :
                  \/ deal'[v].parts = deal[v].parts \/ deal'[v].parts = << >>
                  \/ deal[v].parts # << >> /\ deal'[v].parts = Tail(deal[v].parts)
  <2>1. at' = at
    BY <1>3 DEF Esp8266MsgDeal, MsgDealSingle, MsgDealWrite, MsgDealRest
  <2>2. CASE MsgDealWrite(w)
    <3>1. deal[w].parts # << >>
      BY <2>2 DEF MsgDealWrite, Dealings, Dealing
    <3> QED
      BY <1>1, <2>1, <2>2, <3>1 DEF MsgDealWrite, DealStates
  <2>3. CASE MsgDealSingle(w)
    <3>1. \/ deal' = [deal EXCEPT ![w].parts = << >>]
          \/ \E s : deal' = [deal EXCEPT ![w].sock = s]
      BY <2>3 DEF MsgDealSingle
    <3> QED
      BY <1>1, <2>1, <3>1 DEF DealStates
  <2>4. CASE MsgDealRest(w)
    BY <1>1, <2>1, <2>4 DEF MsgDealRest, DealStates
  <2> QED
    BY <1>3, <2>2, <2>3, <2>4 DEF Esp8266MsgDeal
<1>4. ASSUME NEW n \in 1 .. MaxChunk, rcv_task(n)
      PROVE  /\ at'.resp = at.resp \/ at'.resp = SubSeq(uart, 1, n)
             /\ \A w \in Workers :
                  deal'[w].parts = deal[w].parts \/ deal'[w].parts = SubSeq(uart, 1, n)
             /\ n \in Nat /\ n <= Len(uart)
  <2> DEFINE chunk == SubSeq(uart, 1, n)
  <2>1. n \in Nat /\ n <= Len(uart)
    <3>1. n \in Nat
      BY Bounds
    <3> QED
      BY <1>4, <3>1 DEF rcv_task
  <2>2. \/ deal' = [deal EXCEPT ![Rcv].parts = chunk] /\ at' = at
        \/ deal' = deal /\ at' \in {[at EXCEPT !.resp = chunk], at}
    BY <1>4 DEF rcv_task
  <2> HIDE DEF chunk
  <2>3. (at'.resp = at.resp \/ at'.resp = chunk)
    BY <1>1, <2>2 DEF AtStates
  <2>4. \A w \in Workers : deal'[w].parts = deal[w].parts \/ deal'[w].parts = chunk
    BY <1>1, <2>2 DEF DealStates
  <2> QED
    BY <2>1, <2>3, <2>4 DEF chunk
<1>5. CASE \/ modem_data \/ modem_command \/ UNCHANGED vars
           \/ \E fd \in Fds, len \in StreamLens \cup DatagramLens : peer_sends(fd, len)
           \/ \E a \in Apps : Esp8266SockFree(a)
           \/ \E a \in Apps, type \in Types, garbage \in BOOLEAN :
                Esp8266Socket(a, type, garbage)
  <2>1. UNCHANGED <<deal, at>>
    BY <1>5 DEF modem_data, modem_command, vars, peer_sends, Esp8266SockFree, Esp8266Socket
  <2> QED
    BY <2>1
<1> QED
  BY <1>2, <1>3, <1>4, <1>5, Steps

\* What the modem has written gets shorter from the front, or longer.
LEMMA UartSteps ==
    ASSUME [Next]_vars
    PROVE  \/ uart' = uart
           \/ \E n \in 1 .. MaxChunk : n <= Len(uart) /\ uart' = SubSeq(uart, n + 1, Len(uart))
           \/ \E text \in Texts : uart' = Append(uart, Answer(text))
                /\ (modem_data \/ modem_command)
           \/ \E fd \in Fds, len \in Lens : peer_sends(fd, len)
<1>1. CASE modem_data \/ modem_command
  BY <1>1 DEF modem_data, modem_command, Texts
<1>2. CASE \E n \in 1 .. MaxChunk : rcv_task(n)
  BY <1>2 DEF rcv_task
<1>3. ASSUME NEW a \in Apps, ItsStep(a) PROVE uart' = uart
  BY <1>3 DEF ItsStep, AppStep, SendStep, Esp8266Close, close_return,
          data_command, Esp8266Connect, Esp8266GetHostByName, lookup_return, connect_return,
          Esp8266Send, cipsend_return, data_return, send_return, Esp8266Recv, modem
<1>4. CASE \/ \E w \in Workers : Esp8266MsgDeal(w)
           \/ \E a \in Apps : Esp8266SockFree(a)
           \/ \E a \in Apps, type \in Types, garbage \in BOOLEAN :
                Esp8266Socket(a, type, garbage)
           \/ UNCHANGED vars
  BY <1>4 DEF Esp8266MsgDeal, MsgDealSingle, MsgDealWrite, MsgDealRest, Esp8266SockFree,
              Esp8266Socket, vars, modem
<1> QED
  BY <1>1, <1>2, <1>3, <1>4, Steps DEF Lens

\* The frame that a peer sends.
LEMMA PeerSends ==
    ASSUME Typed, NEW fd \in Fds, NEW len \in Lens, peer_sends(fd, len)
    PROVE  LET s == link[fd]
               f == Ipd(fd, s, Len(hist[s].peer) + 1, len)
           IN  /\ s \in 1 .. Len(sock) /\ f \in Ipds /\ IsIpd(f) /\ f.sock = s /\ f.fd = fd
               /\ uart' = Append(uart, f)
               /\ hist'[s].peer = Append(hist[s].peer, f)
               /\ \A t \in 1 .. Len(sock) : t # s => hist'[t].peer = hist[t].peer
               /\ DOMAIN hist' = 1 .. Len(sock) /\ DOMAIN hist = 1 .. Len(sock)
<1> DEFINE s == link[fd]
           f == Ipd(fd, s, Len(hist[s].peer) + 1, len)
<1>1. hist' = [hist EXCEPT ![s].peer = Append(hist[s].peer, f)] /\ uart' = Append(uart, f)
  BY DEF peer_sends
<1>2. s \in 1 .. Len(sock) /\ s \in Nat
  <2>1. s \in 0 .. Len(sock) /\ s # 0
    BY DEF Typed, peer_sends
  <2> QED
    BY <2>1
<1>3. hist[s] \in Histories /\ hist[s].peer \in Seq(Ipds) /\ Len(hist[s].peer) + 1 \in Nat
      /\ DOMAIN hist = 1 .. Len(sock)
  <2>1. hist[s] \in Histories /\ hist[s].peer \in Seq(Ipds)
    BY <1>2, ASocket
  <2> QED
    BY <2>1, LenProperties DEF Typed
<1>4. f \in Ipds /\ IsIpd(f) /\ f.sock = s /\ f.fd = fd
  <2>1. Len(hist[s].peer) + 1 \in Nat
    BY <1>3
  <2> QED
    BY <1>2, <2>1, PartKinds
<1>5. /\ hist'[s].peer = Append(hist[s].peer, f) /\ DOMAIN hist' = 1 .. Len(sock)
      /\ \A t \in 1 .. Len(sock) : t # s => hist'[t].peer = hist[t].peer
  <2> DEFINE v == Append(hist[s].peer, f)
  <2>1. hist' = [hist EXCEPT ![s].peer = v]
    BY <1>1
  <2> HIDE DEF v, f, s
  <2>2. /\ hist'[s].peer = v /\ DOMAIN hist' = 1 .. Len(sock)
        /\ \A t \in 1 .. Len(sock) : t # s => hist'[t].peer = hist[t].peer
    BY <1>2, <1>3, <2>1 DEF Histories
  <2> QED
    BY <2>2 DEF v
<1> QED
  BY <1>1, <1>2, <1>3, <1>4, <1>5

\* What a step adds to what a peer has sent.
LEMMA PeerSteps ==
    ASSUME Typed, Owners, [Next]_vars, NEW s \in 1 .. Len(sock),
           ~\E fd \in Fds, len \in Lens : peer_sends(fd, len)
    PROVE  hist'[s].peer = hist[s].peer
<1>1. \/ hist' = hist
      \/ \E a \in Apps : Esp8266Send(a)
           /\ hist' = [hist EXCEPT ![app[a].sock].offered = hist[app[a].sock].offered + 1]
      \/ \E a \in Apps : send_succeeds(a) /\ app[a].pc \in {"sending", "tail"}
      \/ \E t, v : hist' = [hist EXCEPT ![t].got = v]
      \/ modem_data
      \/ \E a \in Apps, type \in Types, garbage \in BOOLEAN : Esp8266Socket(a, type, garbage)
  BY HistSteps
<1>2. CASE \E t, v : hist' = [hist EXCEPT ![t].offered = v]
  BY <1>2, Recorded
<1>3. CASE \E t, v : hist' = [hist EXCEPT ![t].acked = v]
  BY <1>3, Recorded
<1>4. CASE \E t, v : hist' = [hist EXCEPT ![t].got = v]
  BY <1>4, Recorded
<1>5. CASE \E t, v : hist' = [hist EXCEPT ![t].net = v]
  BY <1>5, Recorded
<1>6. CASE \E x : hist' = Append(hist, x)
  BY <1>6, AppendProperties, LenProperties DEF Typed
<1>7. ASSUME NEW a \in Apps, send_succeeds(a)
      PROVE  \E t, v : hist' = [hist EXCEPT ![t].acked = v]
  BY <1>7 DEF send_succeeds
<1>8. modem_data => \E t, v : hist' = [hist EXCEPT ![t].net = v]
  BY DEF modem_data
<1>9. (\E a \in Apps, type \in Types, garbage \in BOOLEAN : Esp8266Socket(a, type, garbage))
         => \E x : hist' = Append(hist, x)
  BY DEF Esp8266Socket
<1> QED
  BY <1>1, <1>2, <1>3, <1>4, <1>5, <1>6, <1>7, <1>8, <1>9

LEMMA GenuineKept ==
    ASSUME Basics, Typed', [Next]_vars
    PROVE  Genuine'
<1>1. Typed /\ Owners /\ Commanding /\ Dealings /\ Genuine
  BY DEF Basics
<1>2. HistGrows
  BY <1>1, HistGrown
<1>3. /\ uart \in Seq(Parts) /\ at.resp \in Seq(Parts)
      /\ \A w \in Workers : deal[w].parts \in Seq(Parts)
      /\ DOMAIN hist = 1 .. Len(sock) /\ DOMAIN hist' = 1 .. Len(sock')
  BY <1>1, LenProperties DEF Typed, AtStates, DealStates
<1>4. /\ AllFromPeer(uart, hist) /\ AllFromPeer(at.resp, hist)
      /\ \A w \in Workers : AllFromPeer(deal[w].parts, hist)
  BY <1>1 DEF Genuine
<1>5. ASSUME NEW q \in Seq(Parts), AllFromPeer(q, hist)
      PROVE  /\ AllFromPeer(q, hist') /\ AllFromPeer(<< >>, hist')
             /\ q # << >> => AllFromPeer(Tail(q), hist')
             /\ HasIpd(q) => AllFromPeer(FromIpd(q), hist')
             /\ \A m \in Nat \ {0}, n \in Nat : n <= Len(q) =>
                  AllFromPeer(SubSeq(q, m, n), hist')
  <2>1. \A r : ComesFrom(r, q) => AllFromPeer(r, hist')
    BY <1>1, <1>2, <1>5, StillFromPeer
  <2>2. ComesFrom(q, q) /\ ComesFrom(<< >>, q)
        /\ (q # << >> => ComesFrom(Tail(q), q)) /\ (HasIpd(q) => ComesFrom(FromIpd(q), q))
    BY PartsOf
  <2>3. \A m \in Nat \ {0}, n \in Nat : n <= Len(q) => ComesFrom(SubSeq(q, m, n), q)
    BY PartsOf
  <2> QED
    BY <2>1, <2>2, <2>3
<1>6. AllFromPeer(at'.resp, hist') /\ \A w \in Workers : AllFromPeer(deal'[w].parts, hist')
  <2>1. \A n \in Nat : n <= Len(uart) => AllFromPeer(SubSeq(uart, 1, n), hist')
    BY <1>3, <1>4, <1>5
  <2>2. AllFromPeer(at.resp, hist') /\ AllFromPeer(<< >>, hist')
        /\ (HasIpd(at.resp) => AllFromPeer(FromIpd(at.resp), hist'))
    BY <1>3, <1>4, <1>5
  <2>3. \A w \in Workers :
          /\ AllFromPeer(deal[w].parts, hist')
          /\ deal[w].parts # << >> => AllFromPeer(Tail(deal[w].parts), hist')
    BY <1>3, <1>4, <1>5
  <2> QED
    BY <1>1, <2>1, <2>2, <2>3, Passed
<1>7. CASE \E fd \in Fds, len \in Lens : peer_sends(fd, len)
  <2>1. PICK fd \in Fds, len \in Lens : peer_sends(fd, len)
    BY <1>7
  <2> DEFINE s == link[fd]
             f == Ipd(fd, s, Len(hist[s].peer) + 1, len)
  <2>2. /\ s \in 1 .. Len(sock) /\ f \in Ipds /\ IsIpd(f) /\ f.sock = s
        /\ uart' = Append(uart, f)
        /\ hist'[s].peer = Append(hist[s].peer, f)
        /\ \A t \in 1 .. Len(sock) : t # s => hist'[t].peer = hist[t].peer
        /\ DOMAIN hist' = 1 .. Len(sock)
    BY <1>1, <2>1, PeerSends
  <2>3. hist[s].peer \in Seq(Ipds) /\ f \in Parts
    BY <1>1, <2>2, ASocket DEF Parts
  <2> HIDE DEF f, s
  <2>4. /\ DOMAIN hist'[s].peer = DOMAIN hist[s].peer \cup {Len(hist[s].peer) + 1}
        /\ hist'[s].peer[Len(hist[s].peer) + 1] = f
        /\ \A k \in DOMAIN hist[s].peer : hist'[s].peer[k] = hist[s].peer[k]
    BY <2>2, <2>3, Appended
  <2>5. AllFromPeer(uart', hist')
    <3>1. /\ DOMAIN uart' = DOMAIN uart \cup {Len(uart) + 1}
          /\ uart'[Len(uart) + 1] = f /\ \A j \in DOMAIN uart : uart'[j] = uart[j]
      BY <1>3, <2>2, <2>3, Appended
    <3>2. AllFromPeer(uart, hist')
      BY <1>3, <1>4, <1>5
    <3>3. FromPeer(f, hist')
      BY <2>2, <2>4 DEF FromPeer
    <3> QED
      BY <3>1, <3>2, <3>3 DEF AllFromPeer
  <2>6. ASSUME NEW t \in DOMAIN hist', NEW k \in DOMAIN hist'[t].peer
        PROVE  IsIpd(hist'[t].peer[k]) /\ hist'[t].peer[k].sock = t
    <3>1. \A x \in DOMAIN hist : \A y \in DOMAIN hist[x].peer :
            IsIpd(hist[x].peer[y]) /\ hist[x].peer[y].sock = x
      BY <1>1 DEF Genuine
    <3>2. t \in 1 .. Len(sock)
      BY <2>2
    <3>3. CASE t = s
      BY <1>3, <2>2, <2>4, <3>1, <3>3
    <3>4. CASE t # s
      BY <1>3, <2>2, <3>1, <3>2, <3>4
    <3> QED
      BY <3>3, <3>4
  <2> QED
    BY <1>6, <2>5, <2>6 DEF Genuine
<1>8. CASE ~\E fd \in Fds, len \in Lens : peer_sends(fd, len)
  <2>1. AllFromPeer(uart', hist')
    <3>1. AllFromPeer(uart, hist') /\ \A m \in Nat \ {0}, n \in Nat : n <= Len(uart) =>
            AllFromPeer(SubSeq(uart, m, n), hist')
      BY <1>3, <1>4, <1>5
    <3>2. CASE \E n \in 1 .. MaxChunk : n <= Len(uart) /\ uart' = SubSeq(uart, n + 1, Len(uart))
      <4>1. PICK n \in 1 .. MaxChunk : uart' = SubSeq(uart, n + 1, Len(uart))
        BY <3>2
      <4>2. n + 1 \in Nat \ {0} /\ Len(uart) \in Nat
        BY <1>3, Bounds, LenProperties
      <4> QED
        BY <3>1, <4>1, <4>2
    <3>3. CASE \E text \in Texts : uart' = Append(uart, Answer(text))
      <4>1. PICK text \in Texts : uart' = Append(uart, Answer(text))
        BY <3>3
      <4>2. Answer(text) \in Parts /\ ~IsIpd(Answer(text))
        BY PartKinds
      <4>3. /\ DOMAIN uart' = DOMAIN uart \cup {Len(uart) + 1}
            /\ uart'[Len(uart) + 1] = Answer(text)
            /\ \A j \in DOMAIN uart : uart'[j] = uart[j]
        BY <1>3, <4>1, <4>2, Appended
      <4> QED
        BY <3>1, <4>2, <4>3 DEF AllFromPeer, FromPeer
    <3> QED
      BY <1>8, <3>1, <3>2, <3>3, UartSteps
  <2>2. ASSUME NEW t \in DOMAIN hist', NEW k \in DOMAIN hist'[t].peer
        PROVE  IsIpd(hist'[t].peer[k]) /\ hist'[t].peer[k].sock = t
    <3>1. CASE t \in 1 .. Len(sock)
      <4>1. hist'[t].peer = hist[t].peer
        BY <1>1, <1>8, <3>1, PeerSteps
      <4> QED
        BY <1>1, <1>3, <3>1, <4>1 DEF Genuine
    <3>2. CASE t \notin 1 .. Len(sock)
      <4>1. ~\E a \in Apps : Esp8266SockFree(a)
        BY <1>1, <1>3, <3>2, LenProperties DEF Esp8266SockFree, Typed
      <4>2. PICK a \in Apps, type \in Types, garbage \in BOOLEAN :
                   Esp8266Socket(a, type, garbage)
        BY <1>1, <1>3, <3>2, <4>1, Stands DEF Standing
      <4>3. PICK x : hist' = Append(hist, x) /\ x.peer = << >>
        BY <4>2 DEF Esp8266Socket
      <4>4. Len(hist) \in Nat /\ t = Len(hist) + 1
        BY <1>1, <1>3, <3>2, <4>3, AppendProperties, LenProperties DEF Typed
      <4>5. hist'[t].peer = << >>
        BY <1>1, <4>3, <4>4, AppendProperties DEF Typed
      <4> QED
        BY <4>5, EmptySeq, LenProperties
    <3> QED
      BY <3>1, <3>2
  <2> QED
    BY <1>6, <2>1, <2>2 DEF Genuine
<1> QED
  BY <1>7, <1>8

\* What holds whatever goes wrong is kept by every step.
LEMMA BasicsKept ==
    ASSUME Basics, [Next]_vars
    PROVE  Basics'
<1>1. Typed /\ Owners /\ Commanding /\ Dealings /\ Genuine
  BY DEF Basics
<1>2. Typed' /\ Owners' /\ Commanding' /\ Dealings'
  BY <1>1, TypedKept, OwnersKept, CommandingKept, DealingsKept
<1>3. Genuine'
  BY <1>2, GenuineKept
<1> QED
  BY <1>2, <1>3 DEF Basics

\* It holds at the start.
LEMMA BasicsInit ==
    ASSUME Init
    PROVE  Basics
<1>1. << >> \in Seq(Parts) /\ DOMAIN << >> = {} /\ Len(<< >>) = 0
  BY EmptySeq, LenProperties
<1>2. Typed
  <2>1. app \in [Apps -> AppStates]
    BY DEF Init, AppStates, Pcs
  <2>2. at \in AtStates /\ deal \in [Workers -> DealStates] /\ flags \in Flags
    BY <1>1 DEF Init, NoCommand, AtStates, DealStates, Flags, Indexes, Workers
  <2>3. sock \in Seq(Sockets) /\ hist \in Seq(Histories) /\ cmds \in Seq(Cmds)
        /\ uart \in Seq(Parts) /\ Len(hist) = Len(sock)
    BY EmptySeq DEF Init
  <2>4. sockArray \in [Fds -> 0 .. Len(sock)] /\ link \in [Fds -> 0 .. Len(sock)]
    BY <1>1 DEF Init
  <2> QED
    BY <2>1, <2>2, <2>3, <2>4 DEF Init, Typed
<1>3. Owners
  <2>1. ASSUME NEW a \in Apps PROVE Owns(a)
    <3>1. app[a].pc = "idle" /\ app[a].sock = 0 /\ a \in Workers /\ a # Nobody
      BY Bounds DEF Init, Workers
    <3>2. atLock = Nobody /\ Len(sock) = 0 /\ deal[a].parts = << >>
      BY <1>1, <3>1 DEF Init, Workers
    <3> QED
      BY <3>1, <3>2 DEF Owns, Locking
  <2>2. ASSUME NEW fd \in Fds PROVE Entry(fd)
    BY DEF Entry, Init
  <2> QED
    BY <2>1, <2>2 DEF Owners
<1>4. Commanding
  BY <1>1 DEF Init, Commanding, NoCommand
<1>5. Dealings
  BY Bounds DEF Init, Dealings, Dealing, Workers
<1>6. Genuine
  BY <1>1 DEF Init, Genuine, AllFromPeer, NoCommand, Workers
<1> QED
  BY <1>2, <1>3, <1>4, <1>5, <1>6 DEF Basics

-----------------------------------------------------------------------------
(* While commands and answers belong together *)

\* What the modem has written and the receive task has not yet dealt with.
Pend == deal[Rcv].parts \o uart
NoAnswer(q) == \A i \in DOMAIN q : IsIpd(q[i])
OneAnswer(q) == \A i, j \in DOMAIN q : ~IsIpd(q[i]) /\ ~IsIpd(q[j]) => i = j
CommandOf(a) ==
    CASE app[a].pc = "connect" -> Command("AT+CIPSTART", a)
      [] app[a].pc = "cipsend" -> Command("AT+CIPSEND", a)
      [] app[a].pc = "close" -> Command("AT+CIPCLOSE", a)
      [] app[a].pc = "sending" -> Payload(app[a].sock, hist[app[a].sock].offered)
      [] OTHER -> CipDomain

\* One command is asked, and it has one answer at one place.
Asked ==
    /\ cmds # << >> => /\ at.task # Nobody /\ cmds = <<CommandOf(at.task)>>
                       /\ NoAnswer(Pend) /\ at.resp = << >>
    /\ ~NoAnswer(Pend) => at.task # Nobody /\ at.resp = << >>
    /\ OneAnswer(Pend)
    /\ at.resp # << >> => /\ Has(at.resp[1], at.index)
                          /\ \A i \in DOMAIN at.resp : i > 1 => IsIpd(at.resp[i])
    /\ \A a \in Apps : app[a].pc \in Asking => at.task = a

\* The link whose data the modem waits for is that of the task which sends, and
\* this task has not missed the prompt.
Prompts(q) == \E i \in DOMAIN q : q[i].kind = ">"
Prompted == Prompts(Pend) \/ at.resp # << >> \/ flags.sendIndex
Prompting ==
    /\ prompted # -1 =>
         \E a \in Apps :
           /\ atLock = a /\ prompted = MySock(a).fd /\ link[prompted] = app[a].sock
           /\ \/ app[a].pc = "cipsend" /\ cmds = << >> /\ Prompted
              \/ app[a].pc = "data"
              \/ app[a].pc = "sending" /\ cmds # << >>
    /\ Prompts(Pend) => prompted # -1 /\ app[at.task].pc = "cipsend"
    /\ \A a \in Apps : app[a].pc = "cipsend" /\ Prompted => prompted # -1

\* A link is that of the socket in the table; a socket that goes has none.
Linked ==
    /\ \A fd \in Fds : link[fd] # 0 => link[fd] = sockArray[fd]
    /\ \A a \in Apps :
         app[a].pc = "free" \/ (app[a].pc = "close" /\ cmds = << >>) => link[MySock(a).fd] = 0

\* The frames that are under way are for sockets of the table, and those of a
\* closed link come before the answer to the close.
Closing(s) == \E a \in Apps : app[a].pc = "close" /\ app[a].sock = s
Followed(q, i) == \E j \in DOMAIN q : j > i /\ ~IsIpd(q[j])
Known(f) == IsIpd(f) => f.sock = sockArray[f.fd]
Framed ==
    \A i \in DOMAIN Pend : IsIpd(Pend[i]) =>
      /\ Known(Pend[i])
      /\ \/ link[Pend[i].fd] = Pend[i].sock
         \/ Followed(Pend, i) /\ Closing(Pend[i].sock)

\* So are those that the sender deals with.
Handed ==
    /\ at.index = "SEND OK" => \A i \in DOMAIN at.resp : Known(at.resp[i])
    /\ \A a \in Apps : \A i \in DOMAIN deal[a].parts :
         IsIpd(deal[a].parts[i]) /\ Known(deal[a].parts[i])

Together == Asked /\ Prompting /\ Linked /\ Framed /\ Handed

\* A frame that is just written is written for its socket.
Dealt == \A w \in Workers : deal[w].sock # 0 => deal[w].sock = Head(deal[w].parts).sock

Exchange == InStep => Together /\ Dealt

\* What went wrong is not forgotten.
LEMMA TroubleStays ==
    ASSUME [Next]_vars
    PROVE  trouble \subseteq trouble'
<1>1. ASSUME NEW a \in Apps, at_response(a) \/ at_timeout(a) PROVE trouble \subseteq trouble'
  BY <1>1 DEF at_response, at_timeout, Late
<1>2. ASSUME NEW a \in Apps, NEW text, NEW index, at_command(a, text, index)
      PROVE  trouble \subseteq trouble'
  BY <1>2 DEF at_command, Late
<1>3. ASSUME NEW a \in Apps, ItsStep(a) PROVE trouble \subseteq trouble'
  <2>1. CASE \/ close_return(a) \/ lookup_return(a) \/ connect_return(a)
             \/ cipsend_return(a) \/ data_return(a)
    BY <1>1, <2>1 DEF close_return, lookup_return, connect_return, cipsend_return, data_return
  <2>2. CASE \/ Esp8266Close(a) \/ data_command(a) \/ Esp8266Send(a)
             \/ \E next \in {"idle", "send"} : Esp8266Connect(a, next)
    BY <1>2, <2>2 DEF Esp8266Close, data_command, Esp8266Send, Esp8266Connect
  <2>3. CASE Esp8266GetHostByName(a) \/ send_return(a) \/ Esp8266Recv(a)
    BY <2>3 DEF Esp8266GetHostByName, send_return, Esp8266Recv
  <2> QED
    BY <1>3, <2>1, <2>2, <2>3 DEF ItsStep, AppStep, SendStep
<1>4. CASE \/ \E w \in Workers : Esp8266MsgDeal(w)
           \/ \E n \in 1 .. MaxChunk : rcv_task(n)
  BY <1>4 DEF Esp8266MsgDeal, MsgDealSingle, MsgDealWrite, MsgDealRest, rcv_task
<1>5. CASE \/ modem_data \/ modem_command \/ UNCHANGED vars
           \/ \E fd \in Fds, len \in StreamLens \cup DatagramLens : peer_sends(fd, len)
           \/ \E a \in Apps : Esp8266SockFree(a)
           \/ \E a \in Apps, type \in Types, garbage \in BOOLEAN :
                Esp8266Socket(a, type, garbage)
  BY <1>5 DEF modem_data, modem_command, vars, peer_sends, Esp8266SockFree, Esp8266Socket,
              history
<1> QED
  BY <1>3, <1>4, <1>5, Steps

\* A socket keeps its entry and its type, whatever happens to it.
LEMMA SocketStays ==
    ASSUME Typed, Owners, Dealings, [Next]_vars, NEW s \in 1 .. Len(sock)
    PROVE  s \in 1 .. Len(sock') /\ sock'[s].fd = sock[s].fd /\ sock'[s].type = sock[s].type
<1>1. /\ sock \in Seq(Sockets) /\ DOMAIN sock = 1 .. Len(sock) /\ Len(sock) \in Nat
      /\ sock[s] \in Sockets
  BY ASocket, LenProperties DEF Typed
<1>2. CASE \E a \in Apps : Esp8266SockFree(a)
  <2>1. PICK a \in Apps : Esp8266SockFree(a)
    BY <1>2
  <2>2. Len(sock') = Len(sock)
    BY <1>1, <2>1, LenProperties DEF Esp8266SockFree
  <2>3. sock'[s].fd = sock[s].fd /\ sock'[s].type = sock[s].type
    BY <1>1, <2>1 DEF Esp8266SockFree, Sockets
  <2> QED
    BY <2>2, <2>3
<1>3. CASE \E a \in Apps, type \in Types, garbage \in BOOLEAN : Esp8266Socket(a, type, garbage)
  <2>1. PICK x : sock' = Append(sock, x)
    BY <1>3 DEF Esp8266Socket
  <2> QED
    BY <1>1, <2>1, AppendProperties
<1>4. CASE Standing
  BY <1>4 DEF Standing
<1> QED
  BY <1>2, <1>3, <1>4, Stands

\* The command of a task that waits is what it was.
LEMMA CommandStays ==
    ASSUME Basics, [Next]_vars, NEW a \in Apps, app'[a] = app[a], app[a].pc \in Asking
    PROVE  CommandOf(a)' = CommandOf(a)
<1>1. Typed /\ Owners /\ Dealings /\ Owns(a)
  BY DEF Basics, Owners
<1>2. CASE app[a].pc = "lookup"
  BY <1>2 DEF CommandOf
<1>3. CASE app[a].pc # "lookup"
  <2>1. app[a].sock # 0 /\ app[a].sock \in 1 .. Len(sock)
    BY <1>1, <1>3, OwnSocket DEF Owns, Asking
  <2>2. MySock(a)'.fd = MySock(a).fd
    BY <1>1, <2>1, SocketStays DEF MySock
  <2>3. CASE app[a].pc # "sending"
    BY <1>3, <2>2, <2>3 DEF CommandOf, Command, Asking
  <2>4. CASE app[a].pc = "sending"
    <3>1. hist'[app[a].sock].offered = hist[app[a].sock].offered
      <4>1. ASSUME NEW b \in Apps, Esp8266Send(b),
                   hist' = [hist EXCEPT ![app[b].sock].offered =
                              hist[app[b].sock].offered + 1]
            PROVE  hist'[app[a].sock].offered = hist[app[a].sock].offered
        <5>1. b # a
          BY <2>4, <4>1 DEF Esp8266Send
        <5>2. app[b].sock # app[a].sock
          BY <1>1, <2>1, <5>1 DEF Owns
        <5>3. hist[app[a].sock] \in Histories /\ DOMAIN hist = 1 .. Len(sock)
          BY <1>1, <2>1, ASocket, LenProperties DEF Typed
        <5> QED
          BY <2>1, <4>1, <5>2, <5>3
      <4>2. ASSUME NEW s, NEW v,
                   \/ hist' = [hist EXCEPT ![s].acked = v]
                   \/ hist' = [hist EXCEPT ![s].got = v]
                   \/ hist' = [hist EXCEPT ![s].net = v]
                   \/ hist' = [hist EXCEPT ![s].peer = v]
            PROVE  hist'[app[a].sock].offered = hist[app[a].sock].offered
        <5> DEFINE t == app[a].sock
        <5>1. t \in 1 .. Len(sock)
          BY <2>1
        <5> HIDE DEF t
        <5>2. CASE hist' = [hist EXCEPT ![s].acked = v]
          BY <1>1, <5>1, <5>2, Recorded DEF t
        <5>3. CASE hist' = [hist EXCEPT ![s].got = v]
          BY <1>1, <5>1, <5>3, Recorded DEF t
        <5>4. CASE hist' = [hist EXCEPT ![s].net = v]
          BY <1>1, <5>1, <5>4, Recorded DEF t
        <5>5. CASE hist' = [hist EXCEPT ![s].peer = v]
          BY <1>1, <5>1, <5>5, Recorded DEF t
        <5> QED
          BY <4>2, <5>2, <5>3, <5>4, <5>5
      <4>3. ASSUME NEW x, hist' = Append(hist, x)
            PROVE  hist'[app[a].sock].offered = hist[app[a].sock].offered
        BY <1>1, <2>1, <4>3, AppendProperties, LenProperties DEF Typed
      <4>4. ASSUME NEW b \in Apps, send_succeeds(b)
            PROVE  hist'[app[a].sock].offered = hist[app[a].sock].offered
        BY <4>2, <4>4 DEF send_succeeds
      <4>5. CASE modem_data
        BY <4>2, <4>5 DEF modem_data
      <4>6. CASE \E fd \in Fds, len \in Lens : peer_sends(fd, len)
        BY <4>2, <4>6 DEF peer_sends
      <4>7. CASE \E b \in Apps, type \in Types, garbage \in BOOLEAN :
                   Esp8266Socket(b, type, garbage)
        BY <4>3, <4>7 DEF Esp8266Socket
      <4> QED
        BY <1>1, <4>1, <4>2, <4>4, <4>5, <4>6, <4>7, HistSteps
    <3> QED
      BY <2>4, <3>1 DEF CommandOf
  <2> QED
    BY <2>3, <2>4
<1> QED
  BY <1>2, <1>3

-----------------------------------------------------------------------------
(* What is pending gets longer at its end and shorter at its beginning *)

LEMMA PendParts ==
    ASSUME Typed
    PROVE  /\ Pend \in Seq(Parts) /\ uart \in Seq(Parts) /\ deal[Rcv].parts \in Seq(Parts)
           /\ Len(Pend) = Len(deal[Rcv].parts) + Len(uart)
           /\ Len(deal[Rcv].parts) \in Nat /\ Len(uart) \in Nat /\ Len(Pend) \in Nat
           /\ DOMAIN Pend = 1 .. Len(Pend)
           /\ DOMAIN deal[Rcv].parts = 1 .. Len(deal[Rcv].parts) /\ DOMAIN uart = 1 .. Len(uart)
           /\ \A i \in DOMAIN deal[Rcv].parts : i \in DOMAIN Pend /\ Pend[i] = deal[Rcv].parts[i]
           /\ \A i \in DOMAIN uart : Len(deal[Rcv].parts) + i \in DOMAIN Pend
                                     /\ Pend[Len(deal[Rcv].parts) + i] = uart[i]
<1> DEFINE q == deal[Rcv].parts
<1>1. q \in Seq(Parts) /\ uart \in Seq(Parts)
  BY DEF Typed, Workers, DealStates
<1>2. Pend = q \o uart
  BY DEF Pend
<1> HIDE DEF q
<1>3. Len(q) \in Nat /\ Len(uart) \in Nat /\ DOMAIN q = 1 .. Len(q)
      /\ DOMAIN uart = 1 .. Len(uart)
  BY <1>1, LenProperties
<1>4. /\ Pend \in Seq(Parts) /\ Len(Pend) = Len(q) + Len(uart)
      /\ \A i \in 1 .. Len(q) : Pend[i] = q[i]
      /\ \A i \in 1 .. Len(uart) : Pend[Len(q) + i] = uart[i]
  BY <1>1, <1>2, Concatenated
<1>5. DOMAIN Pend = 1 .. Len(Pend)
  BY <1>4, LenProperties
<1>6. /\ \A i \in 1 .. Len(q) : i \in 1 .. Len(q) + Len(uart)
      /\ \A i \in 1 .. Len(uart) : Len(q) + i \in 1 .. Len(q) + Len(uart)
  BY <1>3
<1> QED
  BY <1>1, <1>3, <1>4, <1>5, <1>6 DEF q

\* r is q without its first m parts.
Drops(q, r, m) ==
    /\ Len(q) = m + Len(r) /\ \A i \in DOMAIN r : r[i] = q[m + i]

LEMMA Dropped ==
    ASSUME NEW q \in Seq(Parts), NEW r \in Seq(Parts), NEW m \in Nat, Drops(q, r, m)
    PROVE  /\ \A i \in DOMAIN r : m + i \in DOMAIN q /\ r[i] = q[m + i]
           /\ NoAnswer(q) => NoAnswer(r)
           /\ OneAnswer(q) => OneAnswer(r)
           /\ Prompts(r) => Prompts(q)
           /\ Prompts(q) => Prompts(r) \/ \E i \in DOMAIN q : i <= m /\ q[i].kind = ">"
           /\ \A i \in DOMAIN r : Followed(q, m + i) => Followed(r, i)
<1>1. /\ Len(q) \in Nat /\ Len(r) \in Nat /\ DOMAIN q = 1 .. Len(q) /\ DOMAIN r = 1 .. Len(r)
      /\ Len(q) = m + Len(r)
  BY LenProperties DEF Drops
<1>2. \A i \in DOMAIN r : m + i \in DOMAIN q /\ r[i] = q[m + i]
  BY <1>1 DEF Drops
<1>3. \A j \in DOMAIN q : j > m => j - m \in DOMAIN r /\ r[j - m] = q[j]
  <2> SUFFICES ASSUME NEW j \in DOMAIN q, j > m PROVE j - m \in DOMAIN r /\ r[j - m] = q[j]
    OBVIOUS
  <2>1. j - m \in DOMAIN r /\ m + (j - m) = j
    BY <1>1
  <2> QED
    BY <1>2, <2>1
<1>4. NoAnswer(q) => NoAnswer(r)
  BY <1>2 DEF NoAnswer
<1>5. OneAnswer(q) => OneAnswer(r)
  <2> SUFFICES ASSUME OneAnswer(q), NEW i \in DOMAIN r, NEW j \in DOMAIN r,
                      ~IsIpd(r[i]), ~IsIpd(r[j])
               PROVE  i = j
    BY DEF OneAnswer
  <2>1. m + i = m + j
    BY <1>2 DEF OneAnswer
  <2> QED
    BY <1>1, <2>1
<1>6. Prompts(r) => Prompts(q)
  BY <1>2 DEF Prompts
<1>7. Prompts(q) => Prompts(r) \/ \E i \in DOMAIN q : i <= m /\ q[i].kind = ">"
  BY <1>1, <1>3 DEF Prompts
<1>8. ASSUME NEW i \in DOMAIN r, Followed(q, m + i) PROVE Followed(r, i)
  <2>1. PICK j \in DOMAIN q : j > m + i /\ ~IsIpd(q[j])
    BY <1>8 DEF Followed
  <2>2. j > m /\ j - m > i
    BY <1>1, <2>1
  <2> QED
    BY <1>3, <2>1, <2>2 DEF Followed
<1> QED
  BY <1>2, <1>4, <1>5, <1>6, <1>7, <1>8

\* r is q and e behind it.
Lengthens(q, r, e) ==
    /\ IsIpd(e) => (NoAnswer(r) <=> NoAnswer(q))
    /\ IsIpd(e) /\ OneAnswer(q) => OneAnswer(r)
    /\ NoAnswer(q) => OneAnswer(r)
    /\ Prompts(r) <=> Prompts(q) \/ e.kind = ">"
    /\ \A i \in DOMAIN q : Followed(q, i) => Followed(r, i)
    /\ ~IsIpd(e) => \A i \in DOMAIN q : Followed(r, i)
    /\ \A i \in DOMAIN r : (i \in DOMAIN q /\ r[i] = q[i]) \/ (i \notin DOMAIN q /\ r[i] = e)

LEMMA Lengthened ==
    ASSUME NEW q \in Seq(Parts), NEW e \in Parts
    PROVE  Lengthens(q, Append(q, e), e)
<1> DEFINE r == Append(q, e)
<1> DEFINE n == Len(q) + 1
<1>1. /\ n \in Nat \ {0} /\ DOMAIN q = 1 .. n - 1 /\ DOMAIN r = 1 .. n
      /\ r[n] = e /\ \A j \in DOMAIN q : r[j] = q[j]
  <2>1. /\ r \in Seq(Parts) /\ Len(r) = n /\ r[n] = e /\ \A j \in DOMAIN q : r[j] = q[j]
    BY Appended
  <2> QED
    BY <2>1, LenProperties
<1> HIDE DEF n, r
<1>2. \A i \in DOMAIN r : (i \in DOMAIN q /\ r[i] = q[i]) \/ (i = n /\ i \notin DOMAIN q /\ r[i] = e)
  BY <1>1
<1>3. \A i \in DOMAIN q : i \in DOMAIN r /\ n > i /\ r[i] = q[i]
  BY <1>1
<1>4. n \in DOMAIN r
  BY <1>1
<1>5. /\ IsIpd(e) => (NoAnswer(r) <=> NoAnswer(q))
      /\ IsIpd(e) /\ OneAnswer(q) => OneAnswer(r)
      /\ NoAnswer(q) => OneAnswer(r)
  BY <1>2, <1>3 DEF NoAnswer, OneAnswer
<1>6. Prompts(r) <=> Prompts(q) \/ e.kind = ">"
  BY <1>1, <1>2, <1>3, <1>4 DEF Prompts
<1>7. \A i \in DOMAIN q : Followed(q, i) => Followed(r, i)
  BY <1>3 DEF Followed
<1>8. ~IsIpd(e) => \A i \in DOMAIN q : Followed(r, i)
  BY <1>1, <1>3, <1>4 DEF Followed
<1> QED
  BY <1>2, <1>5, <1>6, <1>7, <1>8 DEF Lengthens, r

LEMMA PendAppended ==
    ASSUME Typed, Typed', NEW e \in Parts, uart' = Append(uart, e), deal'[Rcv] = deal[Rcv]
    PROVE  Pend' = Append(Pend, e)
<1> DEFINE q == deal[Rcv].parts
           l == Append(Pend, e)
<1>1. q \in Seq(Parts) /\ uart \in Seq(Parts) /\ Pend' = q \o Append(uart, e) /\ Pend = q \o uart
  BY PendParts DEF Pend
<1> HIDE DEF q
<1>2. q \o Append(uart, e) = Append(q \o uart, e)
  BY <1>1, AppendProperties, ConcatProperties, LenProperties
<1> QED
  BY <1>1, <1>2

-----------------------------------------------------------------------------
(* What a step of an application does to the exchange *)

AsksNow(a) ==
    /\ at.task = Nobody /\ cmds = << >> /\ NoAnswer(Pend)
    /\ at'.task = a /\ at'.resp = << >> /\ cmds' = <<CommandOf(a)'>>
    /\ app[a].pc \notin Asking /\ app'[a].pc \in Asking
    /\ app[a].pc = "data" => app'[a].pc = "sending"
    /\ app'[a].pc = "cipsend" => ~flags'.sendIndex
    /\ deal' = deal
EndsNow(a) ==
    /\ at.task = a /\ cmds = << >> /\ cmds' = << >> /\ NoAnswer(Pend) /\ at' = NoCommand
    /\ app[a].pc \in Asking /\ app'[a].pc \notin Asking
    /\ app'[a].pc = "free" => app[a].pc = "close"
    /\ app[a].pc = "cipsend" =>
         app'[a].pc = "data" \/ (at.resp = << >> /\ ~flags.sendIndex)
    /\ \/ deal' = deal
       \/ app[a].pc = "sending" /\ HasIpd(at.resp) /\ deal'[a].parts = FromIpd(at.resp)
RestsNow(a) ==
    /\ at' = at /\ cmds' = cmds /\ flags' = flags /\ deal' = deal
    /\ app[a].pc \notin Asking \cup {"data"} /\ app'[a].pc \notin Asking \cup {"free"}

\* As long as no answer is late a command is written at once, and the command
\* before it has been answered.
LEMMA AskInStep ==
    ASSUME Basics, Asked, InStep', NEW a \in Apps, NEW text, NEW index,
           at_command(a, text, index)
    PROVE  /\ at.task = Nobody /\ at' = [task |-> a, index |-> index, resp |-> << >>]
           /\ cmds = << >> /\ cmds' = <<text>> /\ NoAnswer(Pend)
<1>1. ~Late
  BY DEF InStep, Late
<1>2. at.task = Nobody /\ at' = [task |-> a, index |-> index, resp |-> << >>]
      /\ cmds' = Append(cmds, text)
  BY <1>1 DEF at_command
<1>3. cmds = << >> /\ NoAnswer(Pend)
  BY <1>2 DEF Asked
<1> QED
  BY <1>2, <1>3

\* A command ends when it has been answered.
LEMMA EndInStep ==
    ASSUME Basics, Asked, InStep', NEW a \in Apps, app[a].pc \in Asking,
           at_response(a) \/ at_timeout(a)
    PROVE  /\ at.task = a /\ at' = NoCommand /\ cmds = << >> /\ NoAnswer(Pend)
           /\ at_timeout(a) => at.resp = << >>
<1>1. ~Late
  BY DEF InStep, Late
<1>2. at.task = a
  BY DEF Asked
<1>3. at' = NoCommand
  BY <1>2 DEF at_response, at_timeout
<1>4. CASE at_response(a)
  BY <1>2, <1>3, <1>4 DEF at_response, at_timeout, Asked
<1>5. CASE at_timeout(a)
  <2>1. Quiet /\ at.resp = << >>
    BY <1>1, <1>2, <1>5 DEF at_timeout
  <2>2. Pend = << >>
    BY <2>1, EmptySeq DEF Quiet, Pend
  <2>3. NoAnswer(Pend)
    BY <2>2, EmptySeq, LenProperties DEF NoAnswer
  <2> QED
    BY <1>2, <1>3, <2>1, <2>3 DEF Quiet
<1> QED
  BY <1>4, <1>5

LEMMA Effects ==
    ASSUME Basics, Asked, InStep', NEW a \in Apps, ItsStep(a)
    PROVE  /\ link' = link /\ prompted' = prompted /\ uart' = uart
           /\ sockArray' = sockArray /\ deal'[Rcv] = deal[Rcv] /\ Pend' = Pend
           /\ AsksNow(a) \/ EndsNow(a) \/ RestsNow(a)
<1>1. Typed /\ app \in [Apps -> AppStates] /\ deal \in [Workers -> DealStates]
      /\ Rcv # a /\ Rcv \in Workers /\ a \in Workers
  BY Bounds DEF Basics, Typed, Workers
<1>2. /\ link' = link /\ prompted' = prompted /\ uart' = uart
      /\ sockArray' = sockArray /\ deal'[Rcv] = deal[Rcv]
  BY <1>1 DEF ItsStep, AppStep, SendStep, Esp8266Close, close_return, data_command,
     Esp8266Connect, Esp8266GetHostByName, lookup_return, connect_return, Esp8266Send,
     cipsend_return, data_return, send_return, Esp8266Recv, sockets, modem
<1>3. Pend' = Pend
  BY <1>2 DEF Pend
<1>4. CASE Esp8266Close(a)
  <2>1. /\ app' = [app EXCEPT ![a].pc = "close"] /\ app[a].pc = "idle"
        /\ at_command(a, Command("AT+CIPCLOSE", a), "OK") /\ sock' = sock /\ deal' = deal
    BY <1>4 DEF Esp8266Close, sockets
  <2>2. app'[a].pc = "close" /\ app'[a].sock = app[a].sock
    BY <1>1, <2>1 DEF AppStates
  <2>3. CommandOf(a)' = Command("AT+CIPCLOSE", a)
    BY <2>1, <2>2 DEF CommandOf, Command, MySock
  <2>4. /\ at.task = Nobody /\ at'.task = a /\ at'.resp = << >>
        /\ cmds = << >> /\ cmds' = <<CommandOf(a)'>> /\ NoAnswer(Pend)
    BY <2>1, <2>3, AskInStep
  <2> QED
    BY <1>2, <1>3, <2>1, <2>2, <2>4 DEF AsksNow, Asking
<1>5. CASE \E next \in {"idle", "send"} : Esp8266Connect(a, next)
  <2>1. PICK next \in {"idle", "send"} :
             /\ app' = [app EXCEPT ![a].pc = "connect", ![a].next = next]
             /\ app[a].pc = "idle"
             /\ at_command(a, Command("AT+CIPSTART", a), "OK")
             /\ sock' = sock /\ deal' = deal
    BY <1>5 DEF Esp8266Connect, sockets
  <2>2. app'[a].pc = "connect" /\ app'[a].sock = app[a].sock
    BY <1>1, <2>1 DEF AppStates
  <2>3. CommandOf(a)' = Command("AT+CIPSTART", a)
    BY <2>1, <2>2 DEF CommandOf, Command, MySock
  <2>4. /\ at.task = Nobody /\ at'.task = a /\ at'.resp = << >>
        /\ cmds = << >> /\ cmds' = <<CommandOf(a)'>> /\ NoAnswer(Pend)
    BY <2>1, <2>3, AskInStep
  <2> QED
    BY <1>2, <1>3, <2>1, <2>2, <2>4 DEF AsksNow, Asking
<1>6. CASE Esp8266Send(a)
  <2>1. /\ app' = [app EXCEPT ![a].pc = "cipsend"] /\ app[a].pc \in {"send", "idle"}
        /\ at_command(a, Command("AT+CIPSEND", a), ">") /\ sock' = sock /\ deal' = deal
        /\ flags' = [flags EXCEPT !.sendIndex = FALSE]
    BY <1>6 DEF Esp8266Send, sockets
  <2>2. app'[a].pc = "cipsend" /\ app'[a].sock = app[a].sock /\ ~flags'.sendIndex
    BY <1>1, <2>1 DEF AppStates, Typed, Flags
  <2>3. CommandOf(a)' = Command("AT+CIPSEND", a)
    BY <2>1, <2>2 DEF CommandOf, Command, MySock
  <2>4. /\ at.task = Nobody /\ at'.task = a /\ at'.resp = << >>
        /\ cmds = << >> /\ cmds' = <<CommandOf(a)'>> /\ NoAnswer(Pend)
    BY <2>1, <2>3, AskInStep
  <2> QED
    BY <1>2, <1>3, <2>1, <2>2, <2>4 DEF AsksNow, Asking
<1>7. CASE data_command(a)
  <2>1. /\ app' = [app EXCEPT ![a].pc = "sending"] /\ app[a].pc = "data"
        /\ at_command(a, Payload(app[a].sock, hist[app[a].sock].offered), "SEND OK")
        /\ hist' = hist /\ deal' = deal
    BY <1>7 DEF data_command
  <2>2. app'[a].pc = "sending" /\ app'[a].sock = app[a].sock
    BY <1>1, <2>1 DEF AppStates
  <2> DEFINE payload == Payload(app[a].sock, hist[app[a].sock].offered)
  <2>3. CommandOf(a)' = payload
    BY <2>1, <2>2 DEF CommandOf, Payload
  <2>5. at_command(a, payload, "SEND OK")
    BY <2>1
  <2> HIDE DEF payload
  <2>6. /\ at.task = Nobody /\ at' = [task |-> a, index |-> "SEND OK", resp |-> << >>]
        /\ cmds = << >> /\ cmds' = <<payload>> /\ NoAnswer(Pend)
    BY <2>5, AskInStep
  <2>4. /\ at.task = Nobody /\ at'.task = a /\ at'.resp = << >>
        /\ cmds = << >> /\ cmds' = <<CommandOf(a)'>> /\ NoAnswer(Pend)
    BY <2>3, <2>6
  <2> QED
    BY <1>2, <1>3, <2>1, <2>2, <2>4 DEF AsksNow, Asking
<1>8. CASE Esp8266GetHostByName(a)
  <2>1. /\ app' = [app EXCEPT ![a].pc = "lookup"] /\ app[a].pc = "idle"
        /\ at.task = Nobody /\ at' = [task |-> a, index |-> "+CIPDOMAIN", resp |-> << >>]
        /\ cmds' = Append(cmds, CipDomain) /\ deal' = deal
    BY <1>8 DEF Esp8266GetHostByName
  <2>2. app'[a].pc = "lookup"
    BY <1>1, <2>1 DEF AppStates
  <2>3. CommandOf(a)' = CipDomain
    BY <2>2 DEF CommandOf, CipDomain
  <2>4. cmds = << >> /\ NoAnswer(Pend)
    BY <2>1 DEF Asked
  <2>5. at'.task = a /\ at'.resp = << >> /\ cmds' = <<CommandOf(a)'>>
    BY <2>1, <2>3, <2>4
  <2> QED
    BY <1>2, <1>3, <2>1, <2>2, <2>4, <2>5 DEF AsksNow, Asking
<1>9. CASE close_return(a) \/ lookup_return(a) \/ connect_return(a)
  <2>1. /\ app[a].pc \in {"close", "lookup", "connect"}
        /\ (at_response(a) \/ at_timeout(a))
        /\ cmds' = cmds /\ deal' = deal
    BY <1>9 DEF close_return, lookup_return, connect_return
  <2>2. /\ app'[a].pc \in {"free", "idle", "send"}
        /\ app'[a].pc = "free" => app[a].pc = "close"
    <3>1. CASE close_return(a)
      BY <1>1, <3>1 DEF AppStates, close_return
    <3>2. CASE lookup_return(a)
      BY <1>1, <3>2 DEF AppStates, lookup_return
    <3>3. CASE connect_return(a)
      <4>1. app' = [app EXCEPT ![a].pc = app[a].next, ![a].next = "idle"]
        BY <3>3 DEF connect_return
      <4>2. app'[a].pc = app[a].next /\ app[a].next \in {"idle", "send"}
        BY <1>1, <4>1 DEF AppStates
      <4> QED
        BY <4>2
    <3> QED
      BY <1>9, <3>1, <3>2, <3>3
  <2>3. app[a].pc \in Asking /\ app'[a].pc \notin Asking /\ app[a].pc # "cipsend"
    BY <2>1, <2>2 DEF Asking
  <2>4. at.task = a /\ at' = NoCommand /\ cmds = << >> /\ NoAnswer(Pend)
    BY <2>1, <2>3, EndInStep
  <2> QED
    BY <1>2, <1>3, <2>1, <2>2, <2>3, <2>4 DEF EndsNow
<1>10. CASE cipsend_return(a)
  <2>1. /\ app[a].pc = "cipsend" /\ (at_response(a) \/ at_timeout(a))
        /\ cmds' = cmds /\ deal' = deal
        /\ \/ app' = [app EXCEPT ![a].pc = "data"]
           \/ /\ app' = [app EXCEPT ![a].pc = "idle"]
              /\ ~(at.task = a /\ at.resp # << >>) /\ ~flags.sendIndex
    BY <1>10 DEF cipsend_return, send_fails
  <2>2. at.task = a /\ at' = NoCommand /\ cmds = << >> /\ NoAnswer(Pend)
    BY <2>1, EndInStep DEF Asking
  <2>3. /\ app'[a].pc \in {"data", "idle"}
        /\ app'[a].pc = "data" \/ (at.resp = << >> /\ ~flags.sendIndex)
    BY <1>1, <2>1, <2>2 DEF AppStates
  <2> QED
    BY <1>2, <1>3, <2>1, <2>2, <2>3 DEF EndsNow, Asking
<1>11. CASE data_return(a)
  <2>1. /\ app[a].pc = "sending" /\ (at_response(a) \/ at_timeout(a))
        /\ cmds' = cmds
        /\ \/ app' = [app EXCEPT ![a].pc = "idle"]
           \/ app' = [app EXCEPT ![a].pc = "tail"]
        /\ \/ deal' = deal
           \/ HasIpd(at.resp) /\ deal' = [deal EXCEPT ![a].parts = FromIpd(at.resp)]
    BY <1>11 DEF data_return, send_succeeds, send_fails
  <2>2. at.task = a /\ at' = NoCommand /\ cmds = << >> /\ NoAnswer(Pend)
    BY <2>1, EndInStep DEF Asking
  <2>3. app'[a].pc \in {"tail", "idle"}
    BY <1>1, <2>1 DEF AppStates
  <2>4. deal' = deal \/ (HasIpd(at.resp) /\ deal'[a].parts = FromIpd(at.resp))
    BY <1>1, <2>1 DEF DealStates
  <2> QED
    BY <1>2, <1>3, <2>1, <2>2, <2>3, <2>4 DEF EndsNow, Asking
<1>12. CASE send_return(a) \/ Esp8266Recv(a)
  <2>1. /\ at' = at /\ cmds' = cmds /\ flags' = flags /\ deal' = deal
        /\ app[a].pc \in {"tail", "idle"}
        /\ app' = app \/ app' = [app EXCEPT ![a].pc = "idle"]
    BY <1>12 DEF send_return, send_succeeds, Esp8266Recv, tasks, sockets, modem
  <2>2. app'[a].pc \in {"tail", "idle"}
    BY <1>1, <2>1 DEF AppStates
  <2> QED
    BY <1>2, <1>3, <2>1, <2>2 DEF RestsNow, Asking
<1> QED
  BY <1>4, <1>5, <1>6, <1>7, <1>8, <1>9, <1>10, <1>11, <1>12 DEF ItsStep, AppStep, SendStep

OwnMove(a) ==
    /\ link' = link /\ prompted' = prompted /\ sockArray' = sockArray /\ Pend' = Pend
    /\ AsksNow(a) \/ EndsNow(a) \/ RestsNow(a)
    /\ \A b \in Apps \ {a} : app'[b] = app[b] /\ deal'[b] = deal[b]
    /\ app'[a].sock = app[a].sock
    /\ Locks(a) \/ Unlocks(a) \/ Keeps(a)
    /\ \A b \in Apps : app[b].sock # 0 => MySock(b)'.fd = MySock(b).fd
    /\ \A b \in Apps \ {a} : app[b].pc \in Asking => CommandOf(b)' = CommandOf(b)

LEMMA OwnMoves ==
    ASSUME Basics, Asked, InStep', [Next]_vars, NEW a \in Apps, ItsStep(a)
    PROVE  OwnMove(a)
<1>1. Typed /\ Owners /\ Dealings /\ \A b \in Apps : Owns(b)
  BY DEF Basics, Owners
<1>2. /\ link' = link /\ prompted' = prompted /\ sockArray' = sockArray /\ Pend' = Pend
      /\ AsksNow(a) \/ EndsNow(a) \/ RestsNow(a)
  BY Effects
<1>3. /\ \A b \in Apps \ {a} : app'[b] = app[b]
      /\ app'[a].sock = app[a].sock
      /\ \A w \in Workers \ {a} : deal'[w] = deal[w]
      /\ Locks(a) \/ Unlocks(a) \/ Keeps(a)
  BY <1>1, Moves
<1>4. ASSUME NEW b \in Apps, app[b].sock # 0 PROVE MySock(b)'.fd = MySock(b).fd
  <2>1. app[b].sock \in 1 .. Len(sock)
    BY <1>1, <1>4, OwnSocket
  <2>2. app'[b].sock = app[b].sock
    BY <1>3
  <2> QED
    BY <1>1, <2>1, <2>2, SocketStays DEF MySock
<1>5. ASSUME NEW b \in Apps \ {a}, app[b].pc \in Asking PROVE CommandOf(b)' = CommandOf(b)
  BY <1>3, <1>5, CommandStays
<1> QED
  BY <1>2, <1>3, <1>4, <1>5 DEF OwnMove, Workers

LEMMA ItsAsked ==
    ASSUME Basics, Asked, NEW a \in Apps, OwnMove(a)
    PROVE  Asked'
<1>1. /\ at.task # Nobody => app[at.task].pc \in Asking /\ at.task \in Apps
      /\ at.task = Nobody => at = NoCommand
      /\ a # Nobody /\ at \in AtStates
  BY Bounds DEF Basics, Commanding, Typed, AtStates
<1>2. Pend' = Pend /\ \A b \in Apps \ {a} : app'[b] = app[b]
  BY DEF OwnMove
<1>3. CASE AsksNow(a)
  <2>1. at'.resp = << >> /\ at'.task = a /\ cmds' = <<CommandOf(a)'>> /\ NoAnswer(Pend)
    BY <1>3 DEF AsksNow
  <2>2. OneAnswer(Pend)
    BY DEF Asked
  <2>3. ASSUME NEW b \in Apps, app'[b].pc \in Asking PROVE at'.task = b
    <3>1. CASE b # a
      <4>1. at.task = b
        BY <1>2, <2>3, <3>1 DEF Asked
      <4> QED
        BY <1>3, <4>1, Bounds DEF AsksNow
    <3> QED
      BY <2>1, <3>1
  <2> QED
    BY <1>1, <1>2, <2>1, <2>2, <2>3 DEF Asked
<1>4. CASE EndsNow(a)
  <2>1. at' = NoCommand /\ at'.resp = << >> /\ cmds' = << >> /\ NoAnswer(Pend) /\ OneAnswer(Pend)
    BY <1>4 DEF EndsNow, NoCommand, Asked
  <2>2. ASSUME NEW b \in Apps, app'[b].pc \in Asking PROVE FALSE
    <3>1. CASE b # a
      <4>1. at.task = b
        BY <1>2, <2>2, <3>1 DEF Asked
      <4> QED
        BY <1>4, <3>1, <4>1 DEF EndsNow
    <3> QED
      BY <1>4, <2>2, <3>1 DEF EndsNow
  <2> QED
    BY <1>2, <2>1, <2>2 DEF Asked
<1>5. CASE RestsNow(a)
  <2>1. at' = at /\ cmds' = cmds /\ app[a].pc \notin Asking /\ app'[a].pc \notin Asking
    BY <1>5 DEF RestsNow
  <2>2. cmds # << >> => CommandOf(at.task)' = CommandOf(at.task)
    <3> SUFFICES ASSUME cmds # << >> PROVE CommandOf(at.task)' = CommandOf(at.task)
      OBVIOUS
    <3>1. at.task \in Apps \ {a} /\ app[at.task].pc \in Asking
      BY <1>1, <2>1 DEF Asked
    <3>2. \A b \in Apps \ {a} : app[b].pc \in Asking => CommandOf(b)' = CommandOf(b)
      BY DEF OwnMove
    <3>3. PICK b \in Apps \ {a} : b = at.task
      BY <3>1
    <3>4. CommandOf(b)' = CommandOf(b)
      BY <3>1, <3>2, <3>3
    <3> QED
      BY <2>1, <3>3, <3>4 DEF CommandOf, Command, Payload, CipDomain, MySock
  <2>3. ASSUME NEW b \in Apps, app'[b].pc \in Asking PROVE at'.task = b
    BY <1>2, <2>1, <2>3 DEF Asked
  <2>4. cmds' # << >> => at'.task # Nobody /\ cmds' = <<CommandOf(at.task)'>>
                          /\ NoAnswer(Pend') /\ at'.resp = << >>
    BY <1>2, <2>1, <2>2 DEF Asked
  <2>5. cmds' # << >> => cmds' = <<CommandOf(at.task)>>' 
    BY <2>1, <2>4 DEF CommandOf, Command, Payload, CipDomain, MySock
  <2> QED
    BY <1>2, <2>1, <2>3, <2>4, <2>5 DEF Asked
<1> QED
  BY <1>3, <1>4, <1>5 DEF OwnMove

\* While the modem waits for data another task cannot ask for more than a name,
\* and the owner goes from the prompt to its data.
LEMMA ItsPrompting ==
    ASSUME Basics, Together, NEW a \in Apps, OwnMove(a)
    PROVE  Prompting'
<1>1. /\ Asked /\ Prompting /\ \A b \in Apps : Owns(b)
      /\ at.task # Nobody => app[at.task].pc \in Asking /\ at.task \in Apps
      /\ a # Nobody
  BY Bounds DEF Basics, Commanding, Owners, Together, Typed, AtStates
<1>2. /\ link' = link /\ prompted' = prompted /\ Pend' = Pend
      /\ \A b \in Apps \ {a} : app'[b] = app[b]
      /\ app'[a].sock = app[a].sock
      /\ \A b \in Apps : app[b].sock # 0 => MySock(b)'.fd = MySock(b).fd
      /\ Locks(a) \/ Unlocks(a) \/ Keeps(a)
      /\ AsksNow(a) \/ EndsNow(a) \/ RestsNow(a)
  BY DEF OwnMove
<1>3. NoAnswer(Pend) => ~Prompts(Pend)
  BY DEF NoAnswer, Prompts, IsIpd
<1>4. ASSUME NEW b \in Apps \ {a}, app[b].pc \in Asking
      PROVE  at.task = b /\ RestsNow(a) /\ at' = at /\ cmds' = cmds /\ flags' = flags
  <2>1. at.task = b /\ at.task # Nobody
    BY <1>1, <1>4, Bounds DEF Asked
  <2> QED
    BY <1>2, <2>1 DEF AsksNow, EndsNow, RestsNow
<1>5. ASSUME prompted' # -1
      PROVE  \E b \in Apps :
               /\ atLock' = b /\ prompted' = MySock(b)'.fd /\ link'[prompted'] = app'[b].sock
               /\ \/ app'[b].pc = "cipsend" /\ cmds' = << >> /\ Prompted'
                  \/ app'[b].pc = "data"
                  \/ app'[b].pc = "sending" /\ cmds' # << >>
  <2>1. PICK b \in Apps :
           /\ atLock = b /\ prompted = MySock(b).fd /\ link[prompted] = app[b].sock
           /\ \/ app[b].pc = "cipsend" /\ cmds = << >> /\ Prompted
              \/ app[b].pc = "data"
              \/ app[b].pc = "sending" /\ cmds # << >>
    BY <1>1, <1>2, <1>5 DEF Prompting
  <2>2. b # Nobody /\ app[b].sock # 0
    BY <1>1, <2>1, Bounds DEF Owns
  <2>3. /\ prompted' = MySock(b)'.fd /\ link'[prompted'] = app'[b].sock
    BY <1>2, <2>1, <2>2
  <2>4. CASE b # a
    <3>1. atLock' = b /\ app'[b] = app[b]
      BY <1>2, <2>1, <2>2, <2>4 DEF Locks, Unlocks, Keeps
    <3>2. CASE app[b].pc = "data"
      BY <2>3, <3>1, <3>2
    <3>3. CASE app[b].pc # "data"
      <4>1. at' = at /\ cmds' = cmds /\ flags' = flags
        BY <1>4, <2>1, <2>4, <3>3 DEF Asking
      <4>2. Prompted => Prompted'
        BY <1>2, <4>1 DEF Prompted
      <4> QED
        BY <2>1, <2>3, <3>1, <3>3, <4>1, <4>2
    <3> QED
      BY <3>2, <3>3
  <2>5. CASE b = a
    <3>1. CASE app[a].pc = "cipsend"
      <4>1. EndsNow(a)
        BY <1>2, <3>1 DEF AsksNow, RestsNow, Asking
      <4>2. app'[a].pc = "data"
        BY <1>3, <2>1, <2>5, <3>1, <4>1 DEF EndsNow, Prompted
      <4>3. atLock' = a
        BY <1>2, <2>1, <2>2, <2>5, <4>2 DEF Locks, Unlocks, Keeps, Locking
      <4> QED
        BY <2>3, <2>5, <4>2, <4>3
    <3>2. CASE app[a].pc = "data"
      <4>1. AsksNow(a)
        BY <1>2, <3>2 DEF EndsNow, RestsNow, Asking
      <4>2. app'[a].pc = "sending" /\ cmds' # << >>
        BY <3>2, <4>1 DEF AsksNow
      <4>3. atLock' = a
        BY <1>2, <2>1, <2>2, <2>5, <4>2 DEF Locks, Unlocks, Keeps, Locking
      <4> QED
        BY <2>3, <2>5, <4>2, <4>3
    <3>3. CASE app[a].pc = "sending" /\ cmds # << >>
      BY <1>2, <3>3 DEF AsksNow, EndsNow, RestsNow, Asking
    <3> QED
      BY <2>1, <2>5, <3>1, <3>2, <3>3
  <2> QED
    BY <2>4, <2>5
<1>6. ASSUME Prompts(Pend')
      PROVE  prompted' # -1 /\ app'[at'.task].pc = "cipsend"
  <2>1. prompted # -1 /\ app[at.task].pc = "cipsend" /\ ~NoAnswer(Pend) /\ at.task # Nobody
    BY <1>1, <1>2, <1>3, <1>6 DEF Prompting, Asked
  <2>2. RestsNow(a)
    BY <1>2, <2>1 DEF AsksNow, EndsNow
  <2>3. at.task \in Apps \ {a} /\ at' = at
    BY <1>1, <2>1, <2>2 DEF RestsNow
  <2> QED
    BY <1>2, <2>1, <2>3
<1>7. ASSUME NEW b \in Apps, app'[b].pc = "cipsend", Prompted'
      PROVE  prompted' # -1
  <2>1. CASE b # a
    <3>1. app[b].pc = "cipsend"
      BY <1>2, <1>7, <2>1
    <3>2. at' = at /\ flags' = flags
      BY <1>4, <2>1, <3>1 DEF Asking
    <3>3. Prompted
      BY <1>2, <1>7, <3>2 DEF Prompted
    <3> QED
      BY <1>1, <1>2, <3>1, <3>3 DEF Prompting
  <2>2. CASE b = a
    <3>1. AsksNow(a)
      BY <1>2, <1>7, <2>2 DEF EndsNow, RestsNow, Asking
    <3>2. ~Prompted'
      BY <1>2, <1>3, <1>7, <2>2, <3>1 DEF AsksNow, Prompted
    <3> QED
      BY <1>7, <3>2
  <2> QED
    BY <2>1, <2>2
<1> QED
  BY <1>5, <1>6, <1>7 DEF Prompting

\* A socket that goes has no link, since the modem has answered the close.
LEMMA ItsLinked ==
    ASSUME Basics, Together, NEW a \in Apps, OwnMove(a)
    PROVE  Linked'
<1>1. Asked /\ Linked /\ (\A b \in Apps : Owns(b)) /\ a # Nobody
  BY Bounds DEF Basics, Owners, Together
<1>2. /\ link' = link /\ sockArray' = sockArray
      /\ \A b \in Apps \ {a} : app'[b] = app[b]
      /\ app'[a].sock = app[a].sock
      /\ \A b \in Apps : app[b].sock # 0 => MySock(b)'.fd = MySock(b).fd
      /\ AsksNow(a) \/ EndsNow(a) \/ RestsNow(a)
  BY DEF OwnMove
<1>3. ASSUME NEW b \in Apps,
             app'[b].pc = "free" \/ (app'[b].pc = "close" /\ cmds' = << >>)
      PROVE  link'[MySock(b)'.fd] = 0
  <2>1. CASE b # a
    <3>1. app'[b] = app[b]
      BY <1>2, <2>1
    <3>2. app[b].pc = "free" \/ (app[b].pc = "close" /\ cmds = << >>)
      <4>1. CASE app[b].pc = "close"
        <5>1. at.task = b /\ b # Nobody
          BY <1>1, <4>1, Bounds DEF Asked, Asking
        <5>2. RestsNow(a)
          BY <1>2, <2>1, <5>1 DEF AsksNow, EndsNow
        <5> QED
          BY <1>3, <3>1, <4>1, <5>2 DEF RestsNow
      <4> QED
        BY <1>3, <3>1, <4>1
    <3>3. app[b].sock # 0 /\ link[MySock(b).fd] = 0
      BY <1>1, <3>2 DEF Linked, Owns
    <3> QED
      BY <1>2, <3>3
  <2>2. CASE b = a
    <3>1. EndsNow(a)
      BY <1>2, <1>3, <2>2 DEF AsksNow, RestsNow, Asking
    <3>2. app[a].pc = "close" /\ cmds = << >>
      BY <1>3, <2>2, <3>1 DEF EndsNow, Asking
    <3>3. app[a].sock # 0 /\ link[MySock(a).fd] = 0
      BY <1>1, <3>2 DEF Linked, Owns
    <3> QED
      BY <1>2, <2>2, <3>3
  <2> QED
    BY <2>1, <2>2
<1>4. \A fd \in Fds : link'[fd] # 0 => link'[fd] = sockArray'[fd]
  BY <1>1, <1>2 DEF Linked
<1> QED
  BY <1>3, <1>4 DEF Linked

\* The frames stay where they are.
LEMMA ItsFramed ==
    ASSUME Basics, Together, NEW a \in Apps, OwnMove(a)
    PROVE  Framed'
<1>1. Asked /\ Framed
  BY DEF Together
<1>2. /\ link' = link /\ sockArray' = sockArray /\ Pend' = Pend
      /\ \A b \in Apps \ {a} : app'[b] = app[b]
      /\ AsksNow(a) \/ EndsNow(a) \/ RestsNow(a)
  BY DEF OwnMove
<1>3. \A f : Known(f) => Known(f)'
  BY <1>2 DEF Known
<1>4. ASSUME NEW i \in DOMAIN Pend, NEW s, Followed(Pend, i), Closing(s) PROVE Closing(s)'
  <2>1. PICK b \in Apps : app[b].pc = "close" /\ app[b].sock = s
    BY <1>4 DEF Closing
  <2>2. ~NoAnswer(Pend)
    BY <1>4 DEF Followed, NoAnswer
  <2>3. b # a
    BY <1>2, <2>1, <2>2 DEF AsksNow, EndsNow, RestsNow, Asking
  <2> QED
    BY <1>2, <2>1, <2>3 DEF Closing
<1>5. ASSUME NEW i \in DOMAIN Pend', IsIpd(Pend'[i])
      PROVE  /\ Known(Pend[i])'
             /\ \/ link'[Pend'[i].fd] = Pend'[i].sock
                \/ Followed(Pend', i) /\ Closing(Pend[i].sock)'
  <2>1. i \in DOMAIN Pend /\ IsIpd(Pend[i])
    BY <1>2, <1>5
  <2>2. /\ Known(Pend[i])
        /\ \/ link[Pend[i].fd] = Pend[i].sock
           \/ Followed(Pend, i) /\ Closing(Pend[i].sock)
    BY <1>1, <2>1 DEF Framed
  <2>3. Known(Pend[i])'
    BY <1>2, <2>2 DEF Known
  <2>4. CASE link[Pend[i].fd] = Pend[i].sock
    BY <1>2, <2>3, <2>4
  <2>5. CASE Followed(Pend, i) /\ Closing(Pend[i].sock)
    <3> DEFINE s == Pend[i].sock
    <3>1. PICK t : t = s
      OBVIOUS
    <3>2. Closing(t)'
      BY <1>4, <2>1, <2>5, <3>1
    <3>3. Closing(Pend[i].sock)'
      BY <1>2, <3>1, <3>2 DEF Closing
    <3> QED
      BY <1>2, <2>3, <2>5, <3>3
  <2> QED
    BY <2>2, <2>4, <2>5
<1> QED
  BY <1>5 DEF Framed

\* The sender gets the frames behind its answer.
LEMMA ItsHanded ==
    ASSUME Basics, Together, NEW a \in Apps, OwnMove(a)
    PROVE  Handed'
<1>1. /\ Asked /\ Handed /\ Commanding /\ Typed
  BY DEF Basics, Together
<1>2. /\ sockArray' = sockArray
      /\ \A b \in Apps \ {a} : deal'[b] = deal[b]
      /\ AsksNow(a) \/ EndsNow(a) \/ RestsNow(a)
  BY DEF OwnMove
<1>3. at'.index = "SEND OK" => \A i \in DOMAIN at'.resp : Known(at.resp[i])'
  <2>1. CASE AsksNow(a)
    <3>1. at'.resp = << >> /\ DOMAIN << >> = {}
      BY <2>1 DEF AsksNow
    <3> QED
      BY <3>1
  <2>2. CASE EndsNow(a)
    BY <2>2 DEF EndsNow, NoCommand
  <2>3. CASE RestsNow(a)
    BY <1>1, <1>2, <2>3 DEF RestsNow, Handed, Known
  <2> QED
    BY <1>2, <2>1, <2>2, <2>3
<1>4. ASSUME NEW b \in Apps, NEW i \in DOMAIN deal'[b].parts
      PROVE  IsIpd(deal'[b].parts[i]) /\ Known(deal[b].parts[i])'
  <2>1. CASE deal'[b] = deal[b]
    <3>1. IsIpd(deal[b].parts[i]) /\ Known(deal[b].parts[i])
      BY <1>1, <1>4, <2>1 DEF Handed
    <3> QED
      BY <1>2, <2>1, <3>1 DEF Known
  <2>2. CASE deal'[b] # deal[b]
    <3>1. /\ b = a /\ EndsNow(a) /\ app[a].pc = "sending" /\ HasIpd(at.resp)
          /\ deal'[a].parts = FromIpd(at.resp)
      BY <1>2, <2>2 DEF AsksNow, EndsNow, RestsNow
    <3>2. at.task = a /\ at.index = "SEND OK" /\ at.resp \in Seq(Parts)
      BY <1>1, <3>1, Bounds DEF EndsNow, Commanding, IndexAt, Typed, AtStates
    <3>3. at.resp # << >>
      BY <3>1, EmptySeq, LenProperties DEF HasIpd
    <3>4. \A j \in DOMAIN at.resp : j > 1 => IsIpd(at.resp[j])
      BY <1>1, <3>3 DEF Asked
    <3>5. \A j \in DOMAIN at.resp : Known(at.resp[j])
      BY <1>1, <3>2 DEF Handed
    <3>6. PICK first \in DOMAIN at.resp :
                /\ IsIpd(at.resp[first])
                /\ \A k \in DOMAIN FromIpd(at.resp) :
                     /\ first + k - 1 \in DOMAIN at.resp
                     /\ FromIpd(at.resp)[k] = at.resp[first + k - 1]
      BY <3>1, <3>2, FramesBehind
    <3>7. FromIpd(at.resp) \in Seq(Parts) /\ i \in DOMAIN FromIpd(at.resp)
      BY <1>4, <3>1, <3>2, FramesBehind
    <3> DEFINE j == first + i - 1
    <3>8. /\ j \in DOMAIN at.resp /\ deal'[b].parts[i] = at.resp[j]
          /\ j = first \/ j > 1
      <4>1. i \in Nat \ {0} /\ first \in Nat \ {0}
        <5> DEFINE r == FromIpd(at.resp)
        <5>1. r \in Seq(Parts) /\ i \in DOMAIN r
          BY <3>7
        <5> HIDE DEF r
        <5>2. DOMAIN r = 1 .. Len(r) /\ Len(r) \in Nat
          BY <5>1, LenProperties
        <5>3. DOMAIN at.resp = 1 .. Len(at.resp) /\ Len(at.resp) \in Nat
          BY <3>2, LenProperties
        <5>4. first \in 1 .. Len(at.resp)
          BY <3>6, <5>3
        <5> QED
          BY <5>1, <5>2, <5>3, <5>4
      <4>2. j \in DOMAIN at.resp /\ FromIpd(at.resp)[i] = at.resp[j]
        BY <3>6, <3>7
      <4> QED
        BY <3>1, <4>1, <4>2
    <3> HIDE DEF j
    <3>9. IsIpd(at.resp[j]) /\ Known(at.resp[j])
      BY <3>4, <3>5, <3>6, <3>8
    <3> QED
      BY <1>2, <3>8, <3>9 DEF Known
  <2> QED
    BY <2>1, <2>2
<1> QED
  BY <1>3, <1>4 DEF Handed

LEMMA ItsTogether ==
    ASSUME Basics, Together, InStep', [Next]_vars, NEW a \in Apps, ItsStep(a)
    PROVE  Together'
<1>1. OwnMove(a) /\ Asked
  BY OwnMoves DEF Together
<1> QED
  BY <1>1, ItsAsked, ItsPrompting, ItsLinked, ItsFramed, ItsHanded DEF Together

-----------------------------------------------------------------------------
(* What a socket that comes or goes does to the exchange *)

TableStep(a, fd, v) ==
    /\ atLock = Nobody /\ at' = at /\ cmds' = cmds /\ flags' = flags /\ link' = link
    /\ prompted' = prompted /\ deal' = deal /\ Pend' = Pend
    /\ sockArray' = [sockArray EXCEPT ![fd] = v] /\ link[fd] = 0
    /\ \A i \in DOMAIN Pend : IsIpd(Pend[i]) => Pend[i].fd # fd
    /\ \A b \in Apps \ {a} : app'[b] = app[b]
    /\ app[a].pc \in {"idle", "free"} /\ app'[a].pc = "idle"

LEMMA TableTogether ==
    ASSUME Basics, Together, [Next]_vars, NEW a \in Apps, NEW fd \in Fds, NEW v,
           TableStep(a, fd, v)
    PROVE  Together'
<1>1. /\ Asked /\ Prompting /\ Linked /\ Framed /\ Handed
      /\ Typed /\ Owners /\ Dealings /\ Commanding /\ \A b \in Apps : Owns(b)
      /\ \A b \in Apps : b # Nobody
  BY Bounds DEF Basics, Owners, Together
<1>2. /\ at.task # Nobody => at.task \in Apps /\ app[at.task].pc \in Asking
                             /\ at.index = IndexAt(app[at.task].pc)
      /\ at.task = Nobody => at = NoCommand
  BY <1>1 DEF Commanding, Typed, AtStates
<1>3. /\ atLock = Nobody /\ at' = at /\ cmds' = cmds /\ flags' = flags /\ link' = link
      /\ prompted' = prompted /\ deal' = deal /\ Pend' = Pend
      /\ \A b \in Apps \ {a} : app'[b] = app[b]
      /\ app[a].pc \in {"idle", "free"} /\ app'[a].pc = "idle"
      /\ sockArray \in [Fds -> 0 .. Len(sock)]
      /\ sockArray' = [sockArray EXCEPT ![fd] = v] /\ link[fd] = 0
      /\ \A i \in DOMAIN Pend : IsIpd(Pend[i]) => Pend[i].fd # fd
  BY <1>1 DEF TableStep, Typed
<1>4. prompted = -1
  BY <1>1, <1>3 DEF Prompting
<1>5. \A b \in Apps : app[b].pc \notin Locking
  BY <1>1, <1>3 DEF Owns
<1>6. Asked'
  <2>1. cmds # << >> => CommandOf(at.task)' = CommandOf(at.task)
    <3> SUFFICES ASSUME cmds # << >> PROVE CommandOf(at.task)' = CommandOf(at.task)
      OBVIOUS
    <3>1. at.task \in Apps /\ app[at.task].pc \in Asking /\ at.task # a
      BY <1>1, <1>2, <1>3 DEF Asked, Asking
    <3>2. PICK b \in Apps : b = at.task
      BY <3>1
    <3>3. CommandOf(b)' = CommandOf(b)
      BY <1>3, <3>1, <3>2, CommandStays
    <3> QED
      BY <1>3, <3>2, <3>3 DEF CommandOf, Command, Payload, CipDomain, MySock
  <2>2. \A b \in Apps : app'[b].pc \in Asking => at'.task = b
    BY <1>1, <1>3 DEF Asked, Asking
  <2>3. cmds' # << >> => cmds' = <<CommandOf(at.task)>>'
    BY <1>1, <1>3, <2>1 DEF Asked, CommandOf, Command, Payload, CipDomain, MySock
  <2> QED
    BY <1>1, <1>3, <2>2, <2>3 DEF Asked
<1>7. Prompting'
  <2>1. ~Prompts(Pend')
    BY <1>1, <1>3, <1>4 DEF Prompting
  <2>2. Prompted' => Prompted
    BY <1>3 DEF Prompted
  <2>3. ASSUME NEW b \in Apps, app'[b].pc = "cipsend" PROVE ~Prompted'
    BY <1>1, <1>3, <1>4, <2>2, <2>3 DEF Prompting
  <2> QED
    BY <1>3, <1>4, <2>1, <2>3 DEF Prompting
<1>8. Linked'
  <2>1. \A e \in Fds : link'[e] # 0 => link'[e] = sockArray'[e]
    BY <1>1, <1>3 DEF Linked
  <2>2. ASSUME NEW b \in Apps,
               app'[b].pc = "free" \/ (app'[b].pc = "close" /\ cmds' = << >>)
        PROVE  link'[MySock(b)'.fd] = 0
    <3>1. b # a /\ app'[b] = app[b]
      BY <1>3, <2>2
    <3>2. app[b].sock # 0 /\ link[MySock(b).fd] = 0
      BY <1>1, <1>3, <2>2, <3>1 DEF Linked, Owns
    <3>3. MySock(b)'.fd = MySock(b).fd
      BY <1>1, <3>1, <3>2, OwnSocket, SocketStays DEF MySock
    <3> QED
      BY <1>3, <3>2, <3>3
  <2> QED
    BY <2>1, <2>2 DEF Linked
<1>9. Framed'
  <2>1. ASSUME NEW i \in DOMAIN Pend', IsIpd(Pend'[i])
        PROVE  /\ Known(Pend[i])'
               /\ \/ link'[Pend'[i].fd] = Pend'[i].sock
                  \/ Followed(Pend', i) /\ Closing(Pend[i].sock)'
    <3>1. /\ i \in DOMAIN Pend /\ IsIpd(Pend[i]) /\ Known(Pend[i]) /\ Pend[i].fd # fd
          /\ \/ link[Pend[i].fd] = Pend[i].sock
             \/ Followed(Pend, i) /\ Closing(Pend[i].sock)
      BY <1>1, <1>3, <2>1 DEF Framed
    <3>2. Pend[i].fd \in Fds
      <4>1. Pend[i] \in Parts
        BY <1>1, <3>1, PendParts, ElementOfSeq
      <4> QED
        BY <3>1, <4>1, PartKinds
    <3>3. Known(Pend[i])'
      BY <1>3, <3>1, <3>2 DEF Known
    <3>4. ASSUME Closing(Pend[i].sock) PROVE Closing(Pend[i].sock)'
      <4>1. PICK b \in Apps : app[b].pc = "close" /\ app[b].sock = Pend[i].sock
        BY <3>4 DEF Closing
      <4>2. app'[b] = app[b]
        BY <1>3, <4>1
      <4> QED
        BY <1>3, <4>1, <4>2 DEF Closing
    <3> QED
      BY <1>3, <3>1, <3>3, <3>4
  <2> QED
    BY <2>1 DEF Framed
<1>10. Handed'
  <2>1. at.index # "SEND OK"
    <3>1. CASE at.task = Nobody
      <4>1. at = NoCommand
        BY <1>2, <3>1
      <4>2. at.index = ""
        BY <4>1 DEF NoCommand
      <4> QED
        BY <4>2
    <3>2. CASE at.task # Nobody
      BY <1>2, <1>5, <3>2 DEF Asking, IndexAt, Locking
    <3> QED
      BY <3>1, <3>2
  <2>2. \A b \in Apps : deal[b].parts = << >>
    BY <1>1, <1>5 DEF Owns, Locking
  <2>3. DOMAIN << >> = {}
    OBVIOUS
  <2> QED
    BY <1>3, <2>1, <2>2, <2>3 DEF Handed
<1> QED
  BY <1>6, <1>7, <1>8, <1>9, <1>10 DEF Together

\* The frames that are under way are of sockets.
LEMMA FramesOfSockets ==
    ASSUME Basics, NEW i \in DOMAIN Pend, IsIpd(Pend[i])
    PROVE  /\ Pend[i] \in Parts /\ Pend[i] \in Ipds /\ Pend[i].fd \in Fds
           /\ Pend[i].sock \in 1 .. Len(sock) /\ FromPeer(Pend[i], hist)
<1>1. Typed /\ AllFromPeer(uart, hist) /\ AllFromPeer(deal[Rcv].parts, hist)
  BY DEF Basics, Genuine, Workers
<1>2. Pend[i] \in Parts
  BY <1>1, PendParts, ElementOfSeq
<1>3. FromPeer(Pend[i], hist)
  <2> DEFINE m == Len(deal[Rcv].parts)
  <2>1. /\ m \in Nat /\ Len(uart) \in Nat /\ i \in 1 .. m + Len(uart)
        /\ DOMAIN deal[Rcv].parts = 1 .. m /\ DOMAIN uart = 1 .. Len(uart)
        /\ \A j \in DOMAIN deal[Rcv].parts : Pend[j] = deal[Rcv].parts[j]
        /\ \A j \in DOMAIN uart : Pend[m + j] = uart[j]
    BY <1>1, PendParts
  <2> HIDE DEF m
  <2>2. CASE i <= m
    <3>1. i \in DOMAIN deal[Rcv].parts /\ Pend[i] = deal[Rcv].parts[i]
      BY <2>1, <2>2
    <3> QED
      BY <1>1, <3>1 DEF AllFromPeer
  <2>3. CASE i > m
    <3>1. i - m \in DOMAIN uart /\ m + (i - m) = i
      BY <2>1, <2>3
    <3>2. Pend[i] = uart[i - m]
      BY <2>1, <3>1
    <3> QED
      BY <1>1, <3>1, <3>2 DEF AllFromPeer
  <2> QED
    BY <2>1, <2>2, <2>3
<1>4. DOMAIN hist = 1 .. Len(sock)
  BY <1>1, LenProperties DEF Typed
<1> QED
  BY <1>2, <1>3, <1>4, PartKinds DEF FromPeer

LEMMA SocketTogether ==
    ASSUME Basics, Together, [Next]_vars, NEW a \in Apps, NEW type \in Types,
           NEW garbage \in BOOLEAN, Esp8266Socket(a, type, garbage)
    PROVE  Together'
<1>1. /\ Typed /\ Linked /\ Framed /\ app \in [Apps -> AppStates]
      /\ link \in [Fds -> 0 .. Len(sock)] /\ Len(sock) \in Nat
  BY LenProperties DEF Basics, Together, Typed
<1>2. PICK fd \in Fds : /\ sockArray[fd] = 0
                        /\ sockArray' = [sockArray EXCEPT ![fd] = Len(sock) + 1]
  BY DEF Esp8266Socket, Unused
<1>3. /\ atLock = Nobody /\ at' = at /\ cmds' = cmds /\ flags' = flags /\ link' = link
      /\ prompted' = prompted /\ deal' = deal /\ uart' = uart
      /\ app' = [app EXCEPT ![a].sock = Len(sock) + 1] /\ app[a].pc = "idle"
  BY DEF Esp8266Socket, modem
<1>4. link[fd] = 0
  BY <1>1, <1>2 DEF Linked
<1>5. \A i \in DOMAIN Pend : IsIpd(Pend[i]) => Pend[i].fd # fd
  <2> SUFFICES ASSUME NEW i \in DOMAIN Pend, IsIpd(Pend[i]), Pend[i].fd = fd PROVE FALSE
    OBVIOUS
  <2>1. Pend[i].sock \in 1 .. Len(sock) /\ Known(Pend[i])
    BY <1>1, FramesOfSockets DEF Framed
  <2> QED
    BY <1>1, <1>2, <2>1 DEF Known
<1>6. (\A b \in Apps \ {a} : app'[b] = app[b]) /\ app'[a].pc = "idle"
  BY <1>1, <1>3 DEF AppStates
<1>7. Pend' = Pend
  BY <1>3 DEF Pend
<1> DEFINE v == Len(sock) + 1
<1>8. TableStep(a, fd, v)
  BY <1>2, <1>3, <1>4, <1>5, <1>6, <1>7 DEF TableStep
<1> HIDE DEF v
<1> QED
  BY <1>8, TableTogether

LEMMA FreeTogether ==
    ASSUME Basics, Together, [Next]_vars, NEW a \in Apps, Esp8266SockFree(a)
    PROVE  Together'
<1>1. /\ Typed /\ Linked /\ Framed /\ app \in [Apps -> AppStates]
      /\ link \in [Fds -> 0 .. Len(sock)] /\ \A b \in Apps : Owns(b)
  BY DEF Basics, Together, Typed, Owners
<1>2. /\ atLock = Nobody /\ at' = at /\ cmds' = cmds /\ flags' = flags /\ link' = link
      /\ prompted' = prompted /\ deal' = deal /\ uart' = uart
      /\ app' = [app EXCEPT ![a].pc = "idle", ![a].sock = 0] /\ app[a].pc = "free"
      /\ sockArray' = [sockArray EXCEPT ![MySock(a).fd] = 0]
  BY DEF Esp8266SockFree, modem
<1> DEFINE fd == MySock(a).fd
<1>3. app[a].sock # 0 /\ fd \in Fds /\ sockArray[fd] = app[a].sock /\ link[fd] = 0
  BY <1>1, <1>2, OwnSocket DEF Owns, Linked
<1>4. sockArray' = [sockArray EXCEPT ![fd] = 0]
  BY <1>2
<1> HIDE DEF fd
<1>5. \A i \in DOMAIN Pend : IsIpd(Pend[i]) => Pend[i].fd # fd
  <2> SUFFICES ASSUME NEW i \in DOMAIN Pend, IsIpd(Pend[i]), Pend[i].fd = fd PROVE FALSE
    OBVIOUS
  <2>1. /\ Pend[i].sock = app[a].sock
        /\ link[fd] = Pend[i].sock \/ Closing(Pend[i].sock)
    BY <1>1, <1>3 DEF Framed, Known
  <2>2. PICK b \in Apps : app[b].pc = "close" /\ app[b].sock = app[a].sock
    BY <1>3, <2>1 DEF Closing
  <2> QED
    BY <1>1, <1>2, <1>3, <2>2 DEF Owns
<1>6. (\A b \in Apps \ {a} : app'[b] = app[b]) /\ app'[a].pc = "idle"
  BY <1>1, <1>2 DEF AppStates
<1>7. Pend' = Pend
  BY <1>2 DEF Pend
<1>8. TableStep(a, fd, 0)
  BY <1>2, <1>3, <1>4, <1>5, <1>6, <1>7 DEF TableStep
<1> QED
  BY <1>3, <1>8, TableTogether

-----------------------------------------------------------------------------
(* What the receive task, the modem and the peers do to the exchange *)

Still == app' = app /\ atLock' = atLock /\ sockArray' = sockArray

LEMMA StillFacts ==
    ASSUME Basics, [Next]_vars, Still
    PROVE  /\ \A b \in Apps : app[b].sock # 0 => MySock(b)'.fd = MySock(b).fd
           /\ \A b \in Apps : app[b].pc \in Asking => CommandOf(b)' = CommandOf(b)
<1>1. Typed /\ Owners /\ Dealings /\ (\A b \in Apps : Owns(b)) /\ app' = app
  BY DEF Basics, Owners, Still
<1>2. ASSUME NEW b \in Apps, app[b].sock # 0 PROVE MySock(b)'.fd = MySock(b).fd
  <2>1. app[b].sock \in 1 .. Len(sock)
    BY <1>1, <1>2, OwnSocket
  <2> QED
    BY <1>1, <2>1, SocketStays DEF MySock
<1>3. ASSUME NEW b \in Apps, app[b].pc \in Asking PROVE CommandOf(b)' = CommandOf(b)
  BY <1>1, <1>3, CommandStays
<1> QED
  BY <1>2, <1>3

\* Parts leave the beginning, and at most the prompt becomes a flag.
DropStep(m) ==
    /\ Still /\ at' = at /\ cmds' = cmds /\ link' = link /\ prompted' = prompted
    /\ \A b \in Apps : ComesFrom(deal'[b].parts, deal[b].parts)
    /\ Drops(Pend, Pend', m)
    /\ flags'.sendIndex => flags.sendIndex \/ Prompts(Pend)
    /\ flags.sendIndex => flags'.sendIndex
    /\ \A i \in DOMAIN Pend : i <= m /\ Pend[i].kind = ">" => flags'.sendIndex

LEMMA PendTyped ==
    ASSUME Typed, Typed'
    PROVE  Pend \in Seq(Parts) /\ Pend' \in Seq(Parts)
<1>1. /\ deal[Rcv].parts \in Seq(Parts) /\ uart \in Seq(Parts)
      /\ deal'[Rcv].parts \in Seq(Parts) /\ uart' \in Seq(Parts)
  BY DEF Typed, Workers, DealStates
<1> QED
  BY <1>1, ConcatProperties DEF Pend

\* A frame that stays pending is as it was.
LEMMA StillFramed ==
    ASSUME Basics, Typed', Framed, [Next]_vars, Still, link' = link, NEW m \in Nat,
           Drops(Pend, Pend', m)
    PROVE  Framed'
<1>1. Typed
  BY DEF Basics
<1>2. Pend \in Seq(Parts) /\ Pend' \in Seq(Parts)
  BY <1>1, PendTyped
<1>3. \A i \in DOMAIN Pend' : /\ m + i \in DOMAIN Pend /\ Pend'[i] = Pend[m + i]
                              /\ Followed(Pend, m + i) => Followed(Pend', i)
  <2>1. ASSUME NEW q \in Seq(Parts), NEW r \in Seq(Parts), Drops(q, r, m)
        PROVE  \A i \in DOMAIN r : /\ m + i \in DOMAIN q /\ r[i] = q[m + i]
                                   /\ Followed(q, m + i) => Followed(r, i)
    BY <2>1, Dropped
  <2> QED
    BY <1>2, <2>1
<1>4. ASSUME NEW i \in DOMAIN Pend', IsIpd(Pend'[i])
      PROVE  /\ Pend'[i].sock = sockArray'[Pend'[i].fd]
             /\ \/ link'[Pend'[i].fd] = Pend'[i].sock
                \/ /\ Followed(Pend', i)
                   /\ \E b \in Apps : app'[b].pc = "close" /\ app'[b].sock = Pend'[i].sock
  <2>1. /\ m + i \in DOMAIN Pend /\ Pend'[i] = Pend[m + i] /\ IsIpd(Pend[m + i])
        /\ Followed(Pend, m + i) => Followed(Pend', i)
    BY <1>3, <1>4
  <2>2. /\ Known(Pend[m + i])
        /\ \/ link[Pend[m + i].fd] = Pend[m + i].sock
           \/ Followed(Pend, m + i) /\ Closing(Pend[m + i].sock)
    BY <2>1 DEF Framed
  <2> QED
    BY <2>1, <2>2 DEF Known, Closing, Still
<1> QED
  BY <1>4 DEF Framed, Known, Closing

\* So is a link, and so is the task that owns it.
LEMMA StillLinked ==
    ASSUME Basics, Linked, [Next]_vars, Still, link' = link, cmds' = cmds
    PROVE  Linked'
<1>1. /\ \A b \in Apps : Owns(b)
      /\ app' = app /\ sockArray' = sockArray
      /\ \A b \in Apps : app[b].sock # 0 => MySock(b)'.fd = MySock(b).fd
  BY StillFacts DEF Basics, Owners, Still
<1>2. \A fd \in Fds : link'[fd] # 0 => link'[fd] = sockArray'[fd]
  BY <1>1 DEF Linked
<1>3. ASSUME NEW b \in Apps,
             app'[b].pc = "free" \/ (app'[b].pc = "close" /\ cmds' = << >>)
      PROVE  link'[MySock(b)'.fd] = 0
  <2>1. app[b].sock # 0 /\ link[MySock(b).fd] = 0
    BY <1>1, <1>3 DEF Linked, Owns
  <2> QED
    BY <1>1, <2>1
<1> QED
  BY <1>2, <1>3 DEF Linked

LEMMA StillPrompting ==
    ASSUME Basics, Prompting, [Next]_vars, Still, link' = link, cmds' = cmds,
           prompted' = prompted, Prompted => Prompted',
           Prompts(Pend') => Prompts(Pend) /\ at'.task = at.task,
           \A a \in Apps : app[a].pc = "cipsend" /\ Prompted' => prompted # -1
    PROVE  Prompting'
<1>1. /\ \A b \in Apps : Owns(b) /\ b # Nobody
      /\ app' = app /\ atLock' = atLock
      /\ \A b \in Apps : app[b].sock # 0 => MySock(b)'.fd = MySock(b).fd
  BY Bounds, StillFacts DEF Basics, Owners, Still
<1>2. ASSUME prompted' # -1
      PROVE  \E b \in Apps :
               /\ atLock' = b /\ prompted' = MySock(b)'.fd /\ link'[prompted'] = app'[b].sock
               /\ \/ app'[b].pc = "cipsend" /\ cmds' = << >> /\ Prompted'
                  \/ app'[b].pc = "data"
                  \/ app'[b].pc = "sending" /\ cmds' # << >>
  <2>1. PICK b \in Apps :
           /\ atLock = b /\ prompted = MySock(b).fd /\ link[prompted] = app[b].sock
           /\ \/ app[b].pc = "cipsend" /\ cmds = << >> /\ Prompted
              \/ app[b].pc = "data"
              \/ app[b].pc = "sending" /\ cmds # << >>
    BY <1>2 DEF Prompting
  <2>2. MySock(b)'.fd = MySock(b).fd
    BY <1>1, <2>1 DEF Owns
  <2> QED
    BY <1>1, <2>1, <2>2
<1> QED
  BY <1>1, <1>2 DEF Prompting

\* The command that waits is what it was.
LEMMA StillCommand ==
    ASSUME Basics, Asked, [Next]_vars, Still, at'.task = at.task, cmds' = cmds, cmds # << >>
    PROVE  cmds' = <<CommandOf(at.task)>>'
<1>1. PICK b \in Apps : b = at.task /\ app[b].pc \in Asking
  BY DEF Asked, Basics, Commanding, Typed, AtStates
<1>2. CommandOf(b)' = CommandOf(b)
  BY <1>1, StillFacts
<1> QED
  BY <1>1, <1>2 DEF Asked, CommandOf, Command, Payload, CipDomain, MySock

LEMMA DropTogether ==
    ASSUME Basics, Typed', Together, [Next]_vars, NEW m \in Nat, DropStep(m)
    PROVE  Together'
<1>1. /\ Asked /\ Prompting /\ Linked /\ Framed /\ Handed /\ Typed
      /\ \A b \in Apps : Owns(b) /\ b # Nobody
      /\ at.task # Nobody => at.task \in Apps /\ app[at.task].pc \in Asking
  BY Bounds DEF Basics, Owners, Together, Commanding, Typed, AtStates
<1>2. /\ app' = app /\ atLock' = atLock /\ sockArray' = sockArray
      /\ at' = at /\ cmds' = cmds /\ link' = link /\ prompted' = prompted
      /\ Drops(Pend, Pend', m) /\ Still
  BY DEF DropStep, Still
<1>4. Pend \in Seq(Parts) /\ Pend' \in Seq(Parts)
  BY <1>1, PendTyped
<1>5. /\ NoAnswer(Pend) => NoAnswer(Pend')
      /\ OneAnswer(Pend) => OneAnswer(Pend')
      /\ Prompts(Pend') => Prompts(Pend)
      /\ Prompts(Pend) => Prompts(Pend') \/ \E i \in DOMAIN Pend : i <= m /\ Pend[i].kind = ">"
  <2>1. ASSUME NEW q \in Seq(Parts), NEW r \in Seq(Parts), Drops(q, r, m)
        PROVE  /\ NoAnswer(q) => NoAnswer(r)
               /\ OneAnswer(q) => OneAnswer(r)
               /\ Prompts(r) => Prompts(q)
               /\ Prompts(q) => Prompts(r) \/ \E i \in DOMAIN q : i <= m /\ q[i].kind = ">"
    BY <2>1, Dropped
  <2> QED
    BY <1>2, <1>4, <2>1
<1>6. Prompted' <=> Prompted
  BY <1>2, <1>5 DEF Prompted, DropStep
<1>7. Asked'
  <2>1. cmds' # << >> => cmds' = <<CommandOf(at.task)>>'
    BY <1>1, <1>2, StillCommand
  <2> QED
    BY <1>1, <1>2, <1>5, <2>1 DEF Asked
<1>8. Prompting'
  BY <1>1, <1>2, <1>5, <1>6, StillPrompting DEF Prompting
<1>9. Linked'
  BY <1>1, <1>2, StillLinked
<1>10. Framed'
  BY <1>1, <1>2, StillFramed
<1>11. Handed'
  <2>1. at'.index = "SEND OK" => \A i \in DOMAIN at'.resp : Known(at.resp[i])'
    BY <1>1, <1>2 DEF Handed, Known
  <2>2. ASSUME NEW b \in Apps, NEW i \in DOMAIN deal'[b].parts
        PROVE  IsIpd(deal'[b].parts[i]) /\ Known(deal[b].parts[i])'
    <3>1. PICK j \in DOMAIN deal[b].parts : deal'[b].parts[i] = deal[b].parts[j]
      BY <2>2 DEF DropStep, ComesFrom
    <3>2. IsIpd(deal[b].parts[j]) /\ Known(deal[b].parts[j])
      BY <1>1 DEF Handed
    <3> QED
      BY <1>2, <3>1, <3>2 DEF Known
  <2> QED
    BY <2>1, <2>2 DEF Handed
<1> QED
  BY <1>7, <1>8, <1>9, <1>10, <1>11 DEF Together

LEMMA DropsFront ==
    ASSUME NEW q \in Seq(Parts), NEW r \in Seq(Parts), NEW u \in Seq(Parts), NEW m \in Nat,
           Drops(q, r, m)
    PROVE  Drops(q \o u, r \o u, m)
<1> DEFINE c == q \o u
           d == r \o u
<1>1. /\ Len(q) \in Nat /\ Len(r) \in Nat /\ Len(u) \in Nat /\ DOMAIN r = 1 .. Len(r)
      /\ Len(q) = m + Len(r)
  BY LenProperties DEF Drops
<1>2. /\ Len(c) = Len(q) + Len(u) /\ \A i \in 1 .. Len(q) : c[i] = q[i]
      /\ \A i \in 1 .. Len(u) : c[Len(q) + i] = u[i]
  BY Concatenated
<1>3. /\ d \in Seq(Parts) /\ Len(d) = Len(r) + Len(u) /\ \A i \in 1 .. Len(r) : d[i] = r[i]
      /\ \A i \in 1 .. Len(u) : d[Len(r) + i] = u[i]
  BY Concatenated
<1>4. DOMAIN d = 1 .. Len(r) + Len(u)
  BY <1>3, LenProperties
<1> HIDE DEF c, d
<1>5. ASSUME NEW i \in DOMAIN d PROVE d[i] = c[m + i]
  <2>1. CASE i <= Len(r)
    <3>1. i \in DOMAIN r /\ m + i \in 1 .. Len(q)
      BY <1>1, <1>4, <2>1
    <3>2. r[i] = q[m + i]
      BY <3>1 DEF Drops
    <3> QED
      BY <1>1, <1>2, <1>3, <3>1, <3>2
  <2>2. CASE i > Len(r)
    <3> DEFINE j == i - Len(r)
    <3>1. j \in 1 .. Len(u) /\ Len(r) + j = i /\ Len(q) + j = m + i
      BY <1>1, <1>4, <2>2
    <3> HIDE DEF j
    <3>2. d[Len(r) + j] = u[j] /\ c[Len(q) + j] = u[j]
      BY <1>2, <1>3, <3>1
    <3> QED
      BY <3>1, <3>2
  <2> QED
    BY <1>1, <1>4, <2>1, <2>2
<1>6. Len(c) = m + Len(d)
  BY <1>1, <1>2, <1>3
<1> QED
  BY <1>5, <1>6 DEF Drops, c, d

LEMMA DropsOf ==
    ASSUME NEW q \in Seq(Parts)
    PROVE  /\ Drops(q, q, 0) /\ Drops(q, << >>, Len(q)) /\ Len(q) \in Nat
           /\ q # << >> => Drops(q, Tail(q), 1)
           /\ \A n \in Nat : n <= Len(q) => Drops(q, SubSeq(q, n + 1, Len(q)), n)
<1>1. Len(q) \in Nat /\ DOMAIN q = 1 .. Len(q) /\ Len(<< >>) = 0 /\ DOMAIN << >> = {}
  BY LenProperties
<1>2. Drops(q, q, 0) /\ Drops(q, << >>, Len(q))
  BY <1>1 DEF Drops
<1>3. ASSUME q # << >> PROVE Drops(q, Tail(q), 1)
  <2> DEFINE r == Tail(q)
  <2>1. /\ r \in Seq(Parts) /\ Len(r) = Len(q) - 1
        /\ \A i \in DOMAIN r : i + 1 \in DOMAIN q /\ r[i] = q[i + 1]
    BY <1>3, Rest
  <2>2. DOMAIN r = 1 .. Len(r)
    BY <2>1, LenProperties
  <2> HIDE DEF r
  <2>3. Len(q) = 1 + Len(r) /\ \A i \in DOMAIN r : r[i] = q[1 + i]
    BY <1>1, <2>1, <2>2
  <2> QED
    BY <2>3 DEF Drops, r
<1>4. ASSUME NEW n \in Nat, n <= Len(q) PROVE Drops(q, SubSeq(q, n + 1, Len(q)), n)
  <2> DEFINE k == n + 1
             r == SubSeq(q, k, Len(q))
  <2>1. k \in Nat \ {0}
    OBVIOUS
  <2>2. /\ r \in Seq(Parts) /\ Len(r) = (IF k <= Len(q) THEN Len(q) - k + 1 ELSE 0)
        /\ \A i \in DOMAIN r : r[i] = q[k + i - 1]
    BY <1>1, <2>1, Portion
  <2>3. DOMAIN r = 1 .. Len(r)
    BY <2>2, LenProperties
  <2> HIDE DEF r
  <2>4. Len(q) = n + Len(r)
    <3>1. CASE k <= Len(q)
      BY <1>1, <2>2, <3>1
    <3>2. CASE ~(k <= Len(q))
      BY <1>1, <1>4, <2>2, <3>2
    <3> QED
      BY <3>1, <3>2
  <2>5. \A i \in DOMAIN r : r[i] = q[n + i]
    <3> SUFFICES ASSUME NEW i \in DOMAIN r PROVE r[i] = q[n + i]
      OBVIOUS
    <3>1. i \in Int /\ k + i - 1 = n + i
      BY <2>3
    <3> QED
      BY <2>2, <3>1
  <2> QED
    BY <2>4, <2>5 DEF Drops, r
<1> QED
  BY <1>1, <1>2, <1>3, <1>4

\* Only the frames and the prompt matter of what Esp8266MsgDeal takes away.
LEMMA DealTogether ==
    ASSUME Basics, Typed', Together, InStep', [Next]_vars, NEW w \in Workers,
           Esp8266MsgDeal(w)
    PROVE  Together'
<1>1. /\ Typed /\ Dealing(w) /\ Handed /\ deal \in [Workers -> DealStates]
      /\ Rcv \in Workers /\ (w \in Apps \/ w = Rcv)
      /\ \A a \in Apps : a # Rcv /\ a \in Workers
  BY Bounds DEF Basics, Dealings, Together, Typed, Workers
<1>2. /\ Still /\ at' = at /\ cmds' = cmds /\ link' = link /\ prompted' = prompted
      /\ uart' = uart
  BY DEF Esp8266MsgDeal, MsgDealSingle, MsgDealWrite, MsgDealRest, Still, tasks, sockets, modem
<1>3. \A v \in Workers : deal[v].parts \in Seq(Parts)
  BY <1>1 DEF DealStates
<1>4. \A v \in Workers \ {w} : deal'[v] = deal[v]
  BY <1>1 DEF Esp8266MsgDeal, MsgDealSingle, MsgDealWrite, MsgDealRest, DealStates
<1>5. /\ \/ deal'[w].parts = deal[w].parts /\ flags' = flags
         \/ /\ deal'[w].parts = << >> /\ flags' = flags
            /\ ~\E i \in DOMAIN deal[w].parts : deal[w].parts[i].kind = ">"
         \/ /\ deal[w].parts # << >> /\ deal'[w].parts = Tail(deal[w].parts) /\ flags' = flags
            /\ IsIpd(Head(deal[w].parts))
         \/ /\ deal[w].parts # << >> /\ deal'[w].parts = << >> /\ ~IsIpd(Head(deal[w].parts))
            /\ flags'.sendIndex <=> flags.sendIndex
                 \/ \E i \in DOMAIN deal[w].parts : deal[w].parts[i].kind = ">"
  <2>1. CASE MsgDealSingle(w)
    <3>1. CASE /\ deal' = [deal EXCEPT ![w].parts = << >>]
               /\ trouble' = trouble \cup {"full"} \cup
                     (IF Finds(deal[w].parts, ">") THEN {"lost_prompt"} ELSE {})
      <4>1. deal'[w].parts = << >>
        BY <1>1, <3>1 DEF DealStates
      <4>2. ~Finds(deal[w].parts, ">")
        BY <3>1 DEF InStep
      <4> QED
        BY <2>1, <4>1, <4>2 DEF Finds, Has, MsgDealSingle
    <3>2. CASE ~(/\ deal' = [deal EXCEPT ![w].parts = << >>]
                 /\ trouble' = trouble \cup {"full"} \cup
                       (IF Finds(deal[w].parts, ">") THEN {"lost_prompt"} ELSE {}))
      <4>1. PICK s : deal' = [deal EXCEPT ![w].sock = s]
        BY <2>1, <3>2 DEF MsgDealSingle
      <4>2. deal'[w].parts = deal[w].parts
        BY <1>1, <4>1 DEF DealStates
      <4> QED
        BY <2>1, <4>2 DEF MsgDealSingle
    <3> QED
      BY <3>1, <3>2
  <2>2. CASE MsgDealWrite(w)
    <3>1. deal' = [deal EXCEPT ![w].parts = Tail(@), ![w].sock = 0] /\ flags' = flags
      BY <2>2 DEF MsgDealWrite
    <3>2. deal'[w].parts = Tail(deal[w].parts)
      BY <1>1, <3>1 DEF DealStates
    <3>3. deal[w].parts # << >> /\ IsIpd(Head(deal[w].parts))
      BY <1>1, <2>2 DEF Dealing, MsgDealWrite
    <3> QED
      BY <3>1, <3>2, <3>3
  <2>3. CASE MsgDealRest(w)
    <3>1. /\ deal' = [deal EXCEPT ![w].parts = << >>] /\ deal[w].parts # << >>
          /\ ~IsIpd(Head(deal[w].parts))
          /\ flags' = [sendIndex |-> flags.sendIndex \/ Finds(deal[w].parts, ">"),
                       sendOK |-> flags.sendOK \/ Finds(deal[w].parts, "SEND OK")]
      BY <2>3 DEF MsgDealRest
    <3>2. deal'[w].parts = << >>
      BY <1>1, <3>1 DEF DealStates
    <3>3. flags'.sendIndex <=> flags.sendIndex \/ Finds(deal[w].parts, ">")
      BY <3>1
    <3>4. Finds(deal[w].parts, ">") <=> \E i \in DOMAIN deal[w].parts : deal[w].parts[i].kind = ">"
      BY DEF Finds, Has
    <3> QED
      BY <3>1, <3>2, <3>3, <3>4
  <2> QED
    BY <2>1, <2>2, <2>3 DEF Esp8266MsgDeal
<1> DEFINE q == deal[w].parts
           r == deal'[w].parts
<1>6. q \in Seq(Parts) /\ r \in Seq(Parts)
  BY <1>3 DEF Typed, DealStates
<1>7. ComesFrom(r, q)
  BY <1>5, <1>6, PartsOf
<1>8. \A a \in Apps : ComesFrom(deal'[a].parts, deal[a].parts)
  BY <1>1, <1>3, <1>4, <1>7, PartsOf
<1>9. CASE w \in Apps
  <2>1. flags' = flags
    <3>1. q # << >> => IsIpd(Head(q))
      <4>1. \A i \in DOMAIN q : IsIpd(q[i])
        BY <1>1, <1>9 DEF Handed
      <4> HIDE DEF q
      <4>2. q # << >> => 1 \in DOMAIN q /\ Head(q) = q[1]
        BY <1>6, Rest
      <4> QED
        BY <4>1, <4>2
    <3> QED
      BY <1>5, <3>1
  <2>2. Pend' = Pend
    BY <1>1, <1>2, <1>4, <1>9 DEF Pend
  <2>3. Drops(Pend, Pend', 0)
    BY <1>1, <2>2, PendParts, DropsOf
  <2>4. \A i \in DOMAIN Pend : ~(i <= 0)
    <3>1. DOMAIN Pend = 1 .. Len(Pend) /\ Len(Pend) \in Nat
      BY <1>1, PendParts
    <3> QED
      BY <3>1
  <2>5. DropStep(0)
    BY <1>2, <1>8, <2>1, <2>3, <2>4 DEF DropStep
  <2> QED
    BY <2>5, DropTogether
<1>10. CASE w = Rcv
  <2>1. Pend = q \o uart /\ Pend' = r \o uart /\ uart \in Seq(Parts)
    BY <1>1, <1>2, <1>10, PendParts DEF Pend
  <2> HIDE DEF q, r
  <2>2. PICK m \in Nat :
           /\ Drops(q, r, m) /\ m <= Len(q)
           /\ flags'.sendIndex => flags.sendIndex \/ \E i \in DOMAIN q : q[i].kind = ">"
           /\ flags.sendIndex => flags'.sendIndex
           /\ \A i \in DOMAIN q : i <= m /\ q[i].kind = ">" => flags'.sendIndex
    <3>1. Len(q) \in Nat /\ DOMAIN q = 1 .. Len(q)
      BY <1>6, LenProperties
    <3>2. CASE r = q /\ flags' = flags
      <4>1. Drops(q, r, 0) /\ \A i \in DOMAIN q : ~(i <= 0)
        BY <1>6, <3>1, <3>2, DropsOf
      <4> QED
        BY <3>1, <3>2, <4>1
    <3>3. CASE r = << >> /\ flags' = flags /\ ~\E i \in DOMAIN q : q[i].kind = ">"
      <4>1. Drops(q, r, Len(q))
        BY <1>6, <3>3, DropsOf
      <4> QED
        BY <3>1, <3>3, <4>1
    <3>4. CASE q # << >> /\ r = Tail(q) /\ flags' = flags /\ IsIpd(Head(q))
      <4>1. Drops(q, r, 1) /\ Head(q) = q[1] /\ Len(q) # 0
        BY <1>6, <3>4, DropsOf, Rest, EmptySeq
      <4>2. \A i \in DOMAIN q : i <= 1 => q[i].kind # ">"
        BY <3>1, <3>4, <4>1 DEF IsIpd
      <4> QED
        BY <3>1, <3>4, <4>1, <4>2
    <3>5. CASE r = << >> /\ (flags'.sendIndex <=> flags.sendIndex
                                \/ \E i \in DOMAIN q : q[i].kind = ">")
      <4>1. Drops(q, r, Len(q))
        BY <1>6, <3>5, DropsOf
      <4> QED
        BY <3>1, <3>5, <4>1
    <3> QED
      BY <1>5, <3>2, <3>3, <3>4, <3>5 DEF q, r
  <2>3. Drops(Pend, Pend', m)
    BY <1>6, <2>1, <2>2, DropsFront
  <2>4. /\ \A i \in DOMAIN q : i \in DOMAIN Pend /\ Pend[i] = q[i]
        /\ \A i \in DOMAIN Pend : i <= m => i \in DOMAIN q
    <3>1. /\ \A i \in DOMAIN q : i \in DOMAIN Pend /\ Pend[i] = q[i]
          /\ DOMAIN Pend = 1 .. Len(Pend) /\ Len(Pend) \in Nat /\ DOMAIN q = 1 .. Len(q)
          /\ Len(q) \in Nat
      BY <1>1, <1>10, PendParts DEF q
    <3> QED
      BY <2>2, <3>1
  <2>5. (\E i \in DOMAIN q : q[i].kind = ">") => Prompts(Pend)
    BY <2>4 DEF Prompts
  <2>6. \A i \in DOMAIN Pend : i <= m /\ Pend[i].kind = ">" => flags'.sendIndex
    BY <2>2, <2>4
  <2>7. DropStep(m)
    BY <1>2, <1>8, <2>2, <2>3, <2>5, <2>6 DEF DropStep
  <2> QED
    BY <2>7, DropTogether
<1> QED
  BY <1>1, <1>9, <1>10

\* What the receive task reads is a frame that stays pending, or the answer to
\* the command that waits with the frames behind it.
LEMMA ReadTogether ==
    ASSUME Basics, Typed', Together, InStep', [Next]_vars, NEW n \in 1 .. MaxChunk,
           rcv_task(n)
    PROVE  Together'
<1> DEFINE chunk == SubSeq(uart, 1, n)
           after == SubSeq(uart, n + 1, Len(uart))
           matches == at.task # Nobody /\ Finds(chunk, at.index)
<1>1. /\ Typed /\ Commanding /\ Asked /\ Prompting /\ Linked /\ Framed /\ Handed
      /\ deal \in [Workers -> DealStates] /\ at \in AtStates
      /\ Rcv \in Workers /\ \A a \in Apps : a # Rcv /\ a \in Workers /\ a # Nobody
      /\ n \in Nat \ {0}
  <2>1. n \in Nat \ {0}
    BY Bounds
  <2>2. Rcv \in Workers /\ \A a \in Apps : a # Rcv /\ a \in Workers /\ a # Nobody
    BY Bounds DEF Workers
  <2> QED
    BY <2>1, <2>2 DEF Basics, Together, Typed
<1>2. /\ Still /\ cmds' = cmds /\ link' = link /\ prompted' = prompted /\ flags' = flags
      /\ deal[Rcv].parts = << >> /\ n <= Len(uart) /\ uart' = after
      /\ IF IsIpd(chunk[1])
         THEN deal' = [deal EXCEPT ![Rcv].parts = chunk] /\ at' = at
         ELSE deal' = deal /\ at' = IF matches THEN [at EXCEPT !.resp = chunk] ELSE at
  BY DEF rcv_task, Still, tasks, sockets
<1>3. uart \in Seq(Parts) /\ Len(uart) \in Nat /\ DOMAIN uart = 1 .. Len(uart)
  BY <1>1, PendParts
<1>4. Pend = uart
  BY <1>2, <1>3, ConcatEmptySeq DEF Pend
<1>5. Drops(uart, after, n)
  BY <1>1, <1>2, <1>3, DropsOf
<1>6. /\ chunk \in Seq(Parts) /\ DOMAIN chunk = 1 .. n /\ Len(chunk) = n
      /\ \A i \in 1 .. n : i \in DOMAIN uart /\ chunk[i] = uart[i]
  <2>1. /\ chunk \in Seq(Parts) /\ Len(chunk) = (IF 1 <= n THEN n - 1 + 1 ELSE 0)
        /\ \A i \in DOMAIN chunk : 1 + i - 1 \in DOMAIN uart /\ chunk[i] = uart[1 + i - 1]
    BY <1>1, <1>2, <1>3, Portion
  <2>2. DOMAIN chunk = 1 .. Len(chunk) /\ Len(chunk) = n
    BY <1>1, <2>1, LenProperties
  <2>3. \A i \in 1 .. n : 1 + i - 1 = i
    BY <1>1
  <2> QED
    BY <2>1, <2>2, <2>3
<1>7. after \in Seq(Parts)
  BY <1>2 DEF Typed
<1>8. \A a \in Apps : ComesFrom(deal'[a].parts, deal[a].parts)
  <2>1. ASSUME NEW a \in Apps PROVE deal'[a] = deal[a] /\ deal[a].parts \in Seq(Parts)
    BY <1>1, <1>2 DEF DealStates
  <2> QED
    BY <2>1, PartsOf
<1> HIDE DEF chunk, after, matches
<1>9. CASE IsIpd(chunk[1])
  <2>1. Pend' = chunk \o after
    <3>1. deal'[Rcv].parts = chunk
      BY <1>1, <1>2, <1>9 DEF DealStates
    <3> QED
      BY <1>2, <3>1 DEF Pend
  <2>2. Drops(Pend, Pend', 0)
    <3> DEFINE c == chunk \o after
    <3>1. /\ c \in Seq(Parts) /\ Len(c) = Len(chunk) + Len(after)
          /\ \A i \in 1 .. Len(chunk) : c[i] = chunk[i]
          /\ \A i \in 1 .. Len(after) : c[Len(chunk) + i] = after[i]
      BY <1>6, <1>7, Concatenated, SMTT(60)
    <3>2. DOMAIN c = 1 .. Len(c) /\ DOMAIN after = 1 .. Len(after) /\ Len(after) \in Nat
      BY <1>7, <3>1, LenProperties
    <3> HIDE DEF c
    <3>3. Len(uart) = n + Len(after) /\ \A i \in DOMAIN after : after[i] = uart[n + i]
      BY <1>5 DEF Drops
    <3>4. ASSUME NEW i \in DOMAIN c PROVE c[i] = uart[i]
      <4>1. CASE i <= n
        BY <1>1, <1>6, <3>1, <3>2, <4>1
      <4>2. CASE i > n
        <5>1. i - n \in DOMAIN after /\ n + (i - n) = i
          BY <1>1, <1>6, <3>1, <3>2, <4>2
        <5>2. c[n + (i - n)] = after[i - n] /\ after[i - n] = uart[n + (i - n)]
          BY <1>6, <3>1, <3>2, <3>3, <5>1
        <5> QED
          BY <5>1, <5>2
      <4> QED
        BY <1>1, <3>1, <3>2, <4>1, <4>2
    <3>5. Len(c) = Len(uart)
      BY <1>6, <3>1, <3>3
    <3>6. Drops(uart, c, 0)
      BY <1>3, <3>2, <3>4, <3>5 DEF Drops
    <3> QED
      BY <1>4, <2>1, <3>6 DEF c
  <2>3. at' = at
    BY <1>2, <1>9
  <2>4. \A i \in DOMAIN Pend : ~(i <= 0)
    BY <1>3, <1>4
  <2>5. DropStep(0)
    BY <1>2, <1>8, <2>2, <2>3, <2>4 DEF DropStep
  <2> QED
    BY <2>5, DropTogether
<1>10. CASE ~IsIpd(chunk[1])
  <2>1. 1 \in DOMAIN Pend /\ ~IsIpd(Pend[1]) /\ chunk[1] = Pend[1]
    BY <1>1, <1>4, <1>6, <1>10
  <2>2. /\ ~NoAnswer(Pend) /\ at.task # Nobody /\ at.resp = << >> /\ cmds = << >>
        /\ at.task \in Apps /\ at.index = IndexAt(app[at.task].pc)
    BY <1>1, <2>1 DEF NoAnswer, Asked, Commanding, AtStates
  <2>3. \A i \in DOMAIN Pend : i # 1 => IsIpd(Pend[i])
    BY <1>1, <2>1 DEF Asked, OneAnswer
  <2>4. deal' = deal /\ at' = IF matches THEN [at EXCEPT !.resp = chunk] ELSE at
    BY <1>2, <1>10
  <2>5. Pend' = after /\ Drops(Pend, Pend', n)
    <3>1. Pend' = << >> \o after
      BY <1>2, <2>4 DEF Pend
    <3>2. << >> \o after = after
      BY <1>7, ConcatEmptySeq
    <3> QED
      BY <1>4, <1>5, <3>1, <3>2
  <2>6. ASSUME Prompts(Pend)
        PROVE  app[at.task].pc = "cipsend" /\ prompted # -1 /\ chunk[1].kind = ">" /\ matches
    <3>1. PICK i \in DOMAIN Pend : Pend[i].kind = ">"
      BY <2>6 DEF Prompts
    <3>2. chunk[1].kind = ">"
      BY <2>1, <2>3, <3>1 DEF IsIpd
    <3>3. app[at.task].pc = "cipsend" /\ prompted # -1
      BY <1>1, <2>6 DEF Prompting
    <3>4. at.index = ">"
      BY <2>2, <3>3 DEF IndexAt
    <3>5. 1 \in DOMAIN chunk
      BY <1>1, <1>6
    <3> QED
      BY <2>2, <3>2, <3>3, <3>4, <3>5 DEF matches, Finds, Has
  <2>7. CASE ~matches
    <3>1. ~Prompts(Pend)
      BY <2>6, <2>7
    <3>2. DropStep(n)
      BY <1>2, <1>8, <2>4, <2>5, <2>7, <3>1 DEF DropStep, Prompts
    <3> QED
      BY <1>1, <3>2, DropTogether
  <2>8. CASE matches
    <3>1. /\ at'.task = at.task /\ at'.index = at.index /\ at'.resp = chunk /\ chunk # << >>
      <4>1. chunk # << >>
        BY <1>1, <1>6, EmptySeq
      <4> QED
        BY <1>1, <2>4, <2>8, <4>1 DEF AtStates
    <3>2. NoAnswer(Pend')
      <4>1. ASSUME NEW q \in Seq(Parts), NEW r \in Seq(Parts), Drops(q, r, n)
            PROVE  \A i \in DOMAIN r : n + i \in DOMAIN q /\ r[i] = q[n + i]
        BY <1>1, <4>1, Dropped
      <4>2. \A i \in DOMAIN after : n + i \in DOMAIN uart /\ after[i] = uart[n + i]
        BY <1>3, <1>5, <1>7, <4>1
      <4>3. \A i \in DOMAIN after : n + i # 1
        <5>1. DOMAIN after = 1 .. Len(after) /\ Len(after) \in Nat
          BY <1>7, LenProperties
        <5> QED
          BY <1>1, <5>1
      <4> QED
        BY <1>4, <2>3, <2>5, <4>2, <4>3 DEF NoAnswer
    <3>3. /\ ~Prompts(Pend') /\ OneAnswer(Pend')
      BY <3>2 DEF NoAnswer, Prompts, OneAnswer, IsIpd
    <3>4. \A i \in DOMAIN chunk : i > 1 => IsIpd(chunk[i])
      BY <1>4, <1>6, <2>3
    <3>5. Has(chunk[1], at.index)
      <4>1. PICK i \in DOMAIN chunk : Has(chunk[i], at.index)
        BY <2>8 DEF matches, Finds
      <4>2. at.index \in Indexes
        BY <1>1 DEF AtStates
      <4>3. ~IsIpd(chunk[i])
        BY <4>1, <4>2 DEF Has, IsIpd, Indexes
      <4>4. i = 1
        BY <1>1, <1>6, <3>4, <4>3
      <4> QED
        BY <4>1, <4>4
    <3>6. Asked'
      <4>1. app' = app /\ cmds' = << >>
        BY <1>2, <2>2 DEF Still
      <4> QED
        BY <1>1, <2>2, <3>1, <3>2, <3>3, <3>4, <3>5, <4>1 DEF Asked
    <3>7. Prompting'
      <4>1. Prompted'
        BY <3>1 DEF Prompted
      <4>2. ASSUME NEW a \in Apps, app[a].pc = "cipsend" PROVE prompted # -1
        <5>1. at.task = a
          BY <1>1, <4>2 DEF Asked, Asking
        <5>2. at.index = ">"
          BY <2>2, <4>2, <5>1 DEF IndexAt
        <5>3. Pend[1].kind = ">"
          BY <2>1, <3>5, <5>2 DEF Has
        <5> QED
          BY <2>1, <2>6, <5>3 DEF Prompts
      <4> QED
        BY <1>1, <1>2, <3>3, <4>1, <4>2, StillPrompting
    <3>8. Linked'
      BY <1>1, <1>2, StillLinked
    <3>9. Framed'
      BY <1>1, <1>2, <2>5, StillFramed
    <3>10. Handed'
      <4>1. ASSUME NEW i \in DOMAIN chunk, IsIpd(chunk[i])
            PROVE  chunk[i].sock = sockArray'[chunk[i].fd]
        <5>1. i \in DOMAIN Pend /\ chunk[i] = Pend[i] /\ Known(Pend[i])
          BY <1>1, <1>4, <1>6, <4>1 DEF Framed
        <5> QED
          BY <1>2, <4>1, <5>1 DEF Known, Still
      <4> QED
        BY <1>1, <1>2, <2>4, <3>1, <4>1 DEF Handed, Known, Still
    <3> QED
      BY <3>6, <3>7, <3>8, <3>9, <3>10 DEF Together
  <2> QED
    BY <2>7, <2>8
<1> QED
  BY <1>9, <1>10

\* A frame comes on a link, which is that of a socket of the table.
LEMMA PeerTogether ==
    ASSUME Basics, Typed', Together, [Next]_vars, NEW fd \in Fds, NEW len \in Lens,
           peer_sends(fd, len)
    PROVE  Together'
<1> DEFINE s == link[fd]
           f == Ipd(fd, s, Len(hist[s].peer) + 1, len)
<1>1. /\ Typed /\ Commanding /\ Asked /\ Prompting /\ Linked /\ Framed /\ Handed
  BY DEF Basics, Together
<1>2. /\ Still /\ at' = at /\ cmds' = cmds /\ link' = link /\ prompted' = prompted
      /\ flags' = flags /\ deal' = deal /\ link[fd] # 0
  BY DEF peer_sends, Still, tasks, sockets
<1>3. f \in Ipds /\ IsIpd(f) /\ f.sock = s /\ f.fd = fd /\ uart' = Append(uart, f)
  BY <1>1, PeerSends
<1>4. s # 0 /\ s = sockArray[fd]
  BY <1>1, <1>2 DEF Linked
<1> HIDE DEF s, f
<1>5. f \in Parts /\ Pend \in Seq(Parts)
  BY <1>1, <1>3, PendTyped DEF Parts
<1>6. Pend' = Append(Pend, f)
  BY <1>1, <1>2, <1>3, <1>5, PendAppended
<1>7. /\ NoAnswer(Pend') <=> NoAnswer(Pend)
      /\ OneAnswer(Pend) => OneAnswer(Pend')
      /\ Prompts(Pend') <=> Prompts(Pend)
      /\ \A i \in DOMAIN Pend : Followed(Pend, i) => Followed(Pend', i)
      /\ \A i \in DOMAIN Pend' : \/ i \in DOMAIN Pend /\ Pend'[i] = Pend[i]
                                 \/ Pend'[i] = f
  <2>1. f.kind # ">"
    BY <1>3 DEF IsIpd
  <2>2. Lengthens(Pend, Append(Pend, f), f)
    BY <1>5, Lengthened
  <2>3. Lengthens(Pend, Pend', f)
    BY <1>6, <2>2
  <2> QED
    BY <1>3, <2>1, <2>3 DEF Lengthens
<1>8. Prompted' <=> Prompted
  BY <1>2, <1>7 DEF Prompted
<1>9. Asked'
  <2>1. cmds' # << >> => cmds' = <<CommandOf(at.task)>>'
    BY <1>1, <1>2, StillCommand
  <2>2. app' = app
    BY <1>2 DEF Still
  <2> QED
    BY <1>1, <1>2, <1>7, <2>1, <2>2 DEF Asked
<1>10. Prompting'
  BY <1>1, <1>2, <1>7, <1>8, StillPrompting DEF Prompting
<1>11. Linked'
  BY <1>1, <1>2, StillLinked
<1>12. Framed'
  <2>1. ASSUME NEW i \in DOMAIN Pend', IsIpd(Pend'[i])
        PROVE  /\ Pend'[i].sock = sockArray'[Pend'[i].fd]
               /\ \/ link'[Pend'[i].fd] = Pend'[i].sock
                  \/ /\ Followed(Pend', i)
                     /\ \E b \in Apps : app'[b].pc = "close" /\ app'[b].sock = Pend'[i].sock
    <3>1. CASE i \in DOMAIN Pend /\ Pend'[i] = Pend[i]
      BY <1>1, <1>2, <1>7, <2>1, <3>1 DEF Framed, Known, Closing, Still
    <3>2. CASE Pend'[i] = f
      BY <1>2, <1>3, <1>4, <3>2 DEF Still, s
    <3> QED
      BY <1>7, <2>1, <3>1, <3>2
  <2> QED
    BY <2>1 DEF Framed, Known, Closing
<1>13. Handed'
  BY <1>1, <1>2 DEF Handed, Known, Still
<1> QED
  BY <1>9, <1>10, <1>11, <1>12, <1>13 DEF Together

\* Commands are told by the pc of the task that waits.
LEMMA CommandOfs ==
    ASSUME NEW a \in Apps, app[a].pc \in Asking
    PROVE  /\ CommandOf(a).kind = "AT+CIPSTART" <=> app[a].pc = "connect"
           /\ CommandOf(a).kind = "AT+CIPSEND" <=> app[a].pc = "cipsend"
           /\ CommandOf(a).kind = "AT+CIPCLOSE" <=> app[a].pc = "close"
           /\ CommandOf(a).kind = "data" <=> app[a].pc = "sending"
           /\ CommandOf(a).kind = "AT+CIPDOMAIN" <=> app[a].pc = "lookup"
           /\ app[a].pc \in {"connect", "cipsend", "close"} =>
                CommandOf(a).fd = MySock(a).fd /\ CommandOf(a).sock = app[a].sock
<1>1. CASE app[a].pc = "connect"
  BY <1>1 DEF CommandOf, Command
<1>2. CASE app[a].pc = "cipsend"
  BY <1>2 DEF CommandOf, Command
<1>3. CASE app[a].pc = "close"
  BY <1>3 DEF CommandOf, Command
<1>4. CASE app[a].pc = "sending"
  BY <1>4 DEF CommandOf, Payload
<1>5. CASE app[a].pc = "lookup"
  BY <1>5 DEF CommandOf, CipDomain
<1> QED
  BY <1>1, <1>2, <1>3, <1>4, <1>5 DEF Asking

AnswerStep(text) ==
    /\ Still /\ at' = at /\ flags' = flags /\ deal' = deal
    /\ cmds # << >> /\ cmds' = Tail(cmds) /\ uart' = Append(uart, Answer(text))

\* The modem answers the one command that it was asked, behind all frames.
LEMMA Answered ==
    ASSUME Basics, Typed', Together, [Next]_vars, NEW text \in Texts, AnswerStep(text)
    PROVE  /\ at.task \in Apps /\ app[at.task].pc \in Asking /\ at.task # Nobody
           /\ Head(cmds) = CommandOf(at.task) /\ cmds' = << >>
           /\ NoAnswer(Pend) /\ at.resp = << >>
           /\ Prompts(Pend') <=> text = ">"
           /\ \A i \in DOMAIN Pend : Followed(Pend', i)
           /\ \A i \in DOMAIN Pend' : (i \in DOMAIN Pend /\ Pend'[i] = Pend[i])
                                      \/ ~IsIpd(Pend'[i])
           /\ \A i \in DOMAIN Pend :
                IsIpd(Pend[i]) /\ Known(Pend[i]) /\ link[Pend[i].fd] = Pend[i].sock
           /\ Asked' /\ Handed'
<1>1. /\ Typed /\ Commanding /\ Asked /\ Framed /\ Handed
  BY DEF Basics, Together
<1>2. /\ Still /\ at' = at /\ flags' = flags /\ deal' = deal /\ app' = app
      /\ cmds # << >> /\ cmds' = Tail(cmds) /\ uart' = Append(uart, Answer(text))
  BY DEF AnswerStep, Still
<1>3. /\ at.task \in Apps /\ app[at.task].pc \in Asking /\ at.task # Nobody
      /\ cmds = <<CommandOf(at.task)>> /\ NoAnswer(Pend) /\ at.resp = << >>
  BY <1>1, <1>2 DEF Asked, Commanding, Typed, AtStates
<1>4. Head(cmds) = CommandOf(at.task) /\ cmds' = << >>
  BY <1>2, <1>3
<1>5. /\ Answer(text) \in Parts /\ ~IsIpd(Answer(text)) /\ Answer(text).kind = text
      /\ Pend \in Seq(Parts)
  BY <1>1, PartKinds, PendTyped
<1> DEFINE e == Answer(text)
<1>6. Pend' = Append(Pend, e)
  BY <1>1, <1>2, <1>5, PendAppended
<1> HIDE DEF e
<1>7. Lengthens(Pend, Pend', e)
  <2>1. Lengthens(Pend, Append(Pend, e), e)
    BY <1>5, Lengthened DEF e
  <2> QED
    BY <1>6, <2>1
<1>8. ~Prompts(Pend)
  BY <1>3 DEF NoAnswer, Prompts, IsIpd
<1>9. /\ OneAnswer(Pend') /\ (Prompts(Pend') <=> text = ">")
      /\ \A i \in DOMAIN Pend : Followed(Pend', i)
      /\ \A i \in DOMAIN Pend' : (i \in DOMAIN Pend /\ Pend'[i] = Pend[i])
                                 \/ ~IsIpd(Pend'[i])
  BY <1>3, <1>5, <1>7, <1>8 DEF Lengthens, e
<1>10. \A i \in DOMAIN Pend :
         IsIpd(Pend[i]) /\ Known(Pend[i]) /\ link[Pend[i].fd] = Pend[i].sock
  BY <1>1, <1>3 DEF Framed, NoAnswer, Followed
<1>11. Asked'
  BY <1>1, <1>2, <1>3, <1>4, <1>9 DEF Asked
<1>12. Handed'
  BY <1>1, <1>2 DEF Handed, Known, Still
<1> QED
  BY <1>3, <1>4, <1>9, <1>10, <1>11, <1>12

\* The frames of a link that stays remain on it; those of one that is closed
\* come before the answer to the close.
LEMMA AnswerFramed ==
    ASSUME Basics, Typed', Together, [Next]_vars, NEW text \in Texts, AnswerStep(text),
           \A fd \in Fds : link[fd] # 0 => \/ link'[fd] = link[fd]
                                           \/ Closing(link[fd])
    PROVE  Framed'
<1>1. /\ Typed /\ app' = app /\ sockArray' = sockArray /\ Pend \in Seq(Parts)
  BY PendTyped DEF Basics, AnswerStep, Still
<1>2. ASSUME NEW i \in DOMAIN Pend', IsIpd(Pend'[i])
      PROVE  /\ Pend'[i].sock = sockArray'[Pend'[i].fd]
             /\ \/ link'[Pend'[i].fd] = Pend'[i].sock
                \/ /\ Followed(Pend', i)
                   /\ \E b \in Apps : app'[b].pc = "close" /\ app'[b].sock = Pend'[i].sock
  <2>1. i \in DOMAIN Pend /\ Pend'[i] = Pend[i]
    BY <1>2, Answered
  <2>2. /\ IsIpd(Pend[i]) /\ Known(Pend[i]) /\ link[Pend[i].fd] = Pend[i].sock
        /\ Followed(Pend', i)
    BY <2>1, Answered
  <2>3. Pend[i].fd \in Fds /\ Pend[i].sock \in 1 .. Len(sock)
    BY <2>1, <2>2, FramesOfSockets
  <2>4. link[Pend[i].fd] # 0
    BY <2>2, <2>3
  <2>5. link'[Pend[i].fd] = link[Pend[i].fd] \/ Closing(link[Pend[i].fd])
    BY <2>3, <2>4
  <2> QED
    BY <1>1, <2>1, <2>2, <2>5 DEF Known, Closing
<1> QED
  BY <1>2 DEF Framed, Known, Closing

\* What the modem takes for the data ends its waiting for them.
LEMMA DataTogether ==
    ASSUME Basics, Typed', Together, [Next]_vars, modem_data
    PROVE  Together'
<1>1. /\ Prompting /\ Linked /\ \A b \in Apps : Owns(b) /\ b # Nobody
  BY Bounds DEF Basics, Owners, Together
<1>2. /\ AnswerStep("SEND OK") /\ "SEND OK" \in Texts /\ Still
      /\ prompted # -1 /\ prompted' = -1 /\ link' = link /\ flags' = flags /\ at' = at
      /\ app' = app /\ cmds # << >>
  BY DEF modem_data, AnswerStep, Still, tasks, sockets, Texts
<1>3. /\ cmds' = << >> /\ at.resp = << >> /\ ~Prompts(Pend') /\ Asked' /\ Handed'
  BY <1>2, Answered
<1>4. PICK b \in Apps : atLock = b /\ app[b].pc \in {"data", "sending"}
  BY <1>1, <1>2 DEF Prompting
<1>5. \A a \in Apps : app[a].pc \notin {"cipsend", "close"}
  BY <1>1, <1>4 DEF Owns, Locking
<1>6. Prompting'
  BY <1>2, <1>3, <1>5 DEF Prompting
<1>7. Linked'
  <2>1. \A fd \in Fds : link'[fd] # 0 => link'[fd] = sockArray'[fd]
    BY <1>1, <1>2 DEF Linked, Still
  <2>2. ASSUME NEW a \in Apps,
               app'[a].pc = "free" \/ (app'[a].pc = "close" /\ cmds' = << >>)
        PROVE  link'[MySock(a)'.fd] = 0
    <3>1. app[a].pc = "free"
      BY <1>2, <1>5, <2>2
    <3>2. app[a].sock # 0 /\ link[MySock(a).fd] = 0
      BY <1>1, <3>1 DEF Linked, Owns
    <3>3. MySock(a)'.fd = MySock(a).fd
      BY <1>2, <3>2, StillFacts
    <3> QED
      BY <1>2, <3>2, <3>3
  <2> QED
    BY <2>1, <2>2 DEF Linked
<1>8. Framed'
  BY <1>2, AnswerFramed
<1> QED
  BY <1>3, <1>6, <1>7, <1>8 DEF Together

\* The modem opens, closes and prompts the links of the task that asks.
LEMMA CommandTogether ==
    ASSUME Basics, Typed', Together, [Next]_vars, modem_command
    PROVE  Together'
<1> DEFINE c == Head(cmds)
<1>1. /\ Typed /\ Asked /\ Prompting /\ Linked /\ (\A b \in Apps : Owns(b) /\ b # Nobody)
      /\ link \in [Fds -> 0 .. Len(sock)] /\ Len(sock) \in Nat
  BY Bounds, LenProperties DEF Basics, Owners, Together, Typed
<1>2. /\ Still /\ prompted = -1 /\ flags' = flags /\ at' = at /\ app' = app
      /\ atLock' = atLock /\ sockArray' = sockArray
  BY DEF modem_command, Still, tasks, sockets
<1>3. PICK text \in Texts :
         /\ AnswerStep(text)
         /\ \/ /\ c.kind = "AT+CIPSTART" /\ link[c.fd] = 0
               /\ link' = [link EXCEPT ![c.fd] = c.sock] /\ prompted' = prompted /\ text = "OK"
            \/ /\ c.kind = "AT+CIPSEND" /\ link[c.fd] # 0
               /\ prompted' = c.fd /\ text = ">" /\ link' = link
            \/ /\ c.kind = "AT+CIPCLOSE" /\ link[c.fd] # 0
               /\ link' = [link EXCEPT ![c.fd] = 0] /\ prompted' = prompted /\ text = "OK"
            \/ /\ link' = link /\ prompted' = prompted /\ text # ">"
               /\ c.kind = "AT+CIPCLOSE" => link[c.fd] = 0
  BY DEF modem_command, AnswerStep, Still, tasks, sockets, Texts
<1>4. PICK t \in Apps :
         /\ t = at.task /\ app[t].pc \in Asking
         /\ c = CommandOf(t) /\ cmds' = << >> /\ at.resp = << >> /\ Asked' /\ Handed'
         /\ Prompts(Pend') <=> text = ">"
  BY <1>3, Answered
<1> DEFINE fd == MySock(t).fd
<1>5. /\ c.kind = "AT+CIPSTART" <=> app[t].pc = "connect"
      /\ c.kind = "AT+CIPSEND" <=> app[t].pc = "cipsend"
      /\ c.kind = "AT+CIPCLOSE" <=> app[t].pc = "close"
      /\ app[t].pc \in {"connect", "cipsend", "close"} =>
           c.fd = MySock(t).fd /\ c.sock = app[t].sock
  BY <1>4, CommandOfs
<1> HIDE DEF c, fd
<1>6. \A b \in Apps : app[b].pc \in Asking => b = t
  BY <1>1, <1>4 DEF Asked
<1>7. \A b \in Apps : app[b].sock # 0 => MySock(b)'.fd = MySock(b).fd
  BY <1>2, StillFacts
<1>8. app[t].pc \in {"connect", "cipsend", "close"} =>
        /\ app[t].sock # 0 /\ c.fd = fd /\ fd \in Fds /\ sockArray[fd] = app[t].sock
        /\ fd = MySock(t).fd /\ c.sock = app[t].sock /\ atLock = t
  BY <1>1, <1>4, <1>5, OwnSocket DEF Owns, Locking, fd
<1>9. ~Prompted \/ \A b \in Apps : app[b].pc # "cipsend"
  BY <1>1, <1>2 DEF Prompting
<1>10. ASSUME link' = link, prompted' = prompted, text # ">",
              c.kind = "AT+CIPCLOSE" => link[c.fd] = 0
       PROVE  Together'
  <2>1. Prompted' => Prompted
    BY <1>2, <1>4, <1>10 DEF Prompted
  <2>2. Prompting'
    BY <1>2, <1>4, <1>9, <1>10, <2>1 DEF Prompting
  <2>3. ASSUME NEW b \in Apps,
               app'[b].pc = "free" \/ (app'[b].pc = "close" /\ cmds' = << >>)
        PROVE  link'[MySock(b)'.fd] = 0
    <3>1. CASE app[b].pc = "free"
      <4>1. app[b].sock # 0 /\ link[MySock(b).fd] = 0
        BY <1>1, <3>1 DEF Linked, Owns
      <4> QED
        BY <1>7, <1>10, <4>1
    <3>2. CASE app[b].pc = "close"
      <4>1. b = t
        BY <1>6, <3>2 DEF Asking
      <4>2. link[fd] = 0 /\ app[t].sock # 0 /\ fd = MySock(t).fd
        BY <1>5, <1>8, <1>10, <3>2, <4>1
      <4> QED
        BY <1>4, <1>7, <1>10, <4>1, <4>2
    <3> QED
      BY <1>2, <2>3, <3>1, <3>2
  <2>4. Linked'
    BY <1>1, <1>2, <1>10, <2>3 DEF Linked
  <2>5. Framed'
    BY <1>3, <1>10, AnswerFramed
  <2> QED
    BY <1>4, <2>2, <2>4, <2>5 DEF Together
<1>11. ASSUME app[t].pc = "connect", link[fd] = 0,
              link' = [link EXCEPT ![fd] = app[t].sock], prompted' = prompted, text = "OK"
       PROVE  Together'
  <2>1. /\ app[t].sock # 0 /\ fd \in Fds /\ sockArray[fd] = app[t].sock /\ atLock = t
        /\ fd = MySock(t).fd
    BY <1>8, <1>11
  <2>2. \A b \in Apps : app[b].pc \notin {"cipsend", "close"}
    BY <1>6, <1>11 DEF Asking
  <2>3. Prompting'
    BY <1>2, <1>4, <1>11, <2>2 DEF Prompting
  <2>4. \A e \in Fds : link'[e] = IF e = fd THEN app[t].sock ELSE link[e]
    BY <1>1, <1>11
  <2>5. ASSUME NEW b \in Apps,
               app'[b].pc = "free" \/ (app'[b].pc = "close" /\ cmds' = << >>)
        PROVE  link'[MySock(b)'.fd] = 0
    <3>1. app[b].pc = "free"
      BY <1>2, <2>2, <2>5
    <3>2. /\ app[b].sock # 0 /\ link[MySock(b).fd] = 0 /\ MySock(b).fd \in Fds
          /\ sockArray[MySock(b).fd] = app[b].sock
      BY <1>1, <3>1, OwnSocket DEF Linked, Owns
    <3>3. MySock(b).fd # fd
      BY <1>1, <1>4, <1>11, <2>1, <3>1, <3>2 DEF Owns
    <3> QED
      BY <1>7, <2>4, <3>2, <3>3
  <2>6. \A e \in Fds : link'[e] # 0 => link'[e] = sockArray'[e]
    BY <1>1, <1>2, <2>1, <2>4 DEF Linked
  <2>7. Linked'
    BY <2>5, <2>6 DEF Linked
  <2>8. \A e \in Fds : link[e] # 0 => link'[e] = link[e]
    BY <1>11, <2>4
  <2>9. Framed'
    BY <1>3, <2>8, AnswerFramed
  <2> QED
    BY <1>4, <2>3, <2>7, <2>9 DEF Together
<1>12. ASSUME app[t].pc = "cipsend", link[fd] # 0, link' = link, prompted' = fd, text = ">"
       PROVE  Together'
  <2>1. /\ app[t].sock # 0 /\ fd \in Fds /\ sockArray[fd] = app[t].sock /\ atLock = t
        /\ fd = MySock(t).fd
    BY <1>8, <1>12
  <2>2. link[fd] = app[t].sock /\ MySock(t)'.fd = fd
    BY <1>1, <1>4, <1>7, <1>12, <2>1 DEF Linked
  <2>3. Prompts(Pend') /\ Prompted'
    BY <1>4, <1>12 DEF Prompted
  <2>4. fd # -1
    BY <2>1 DEF Fds
  <2>5. at'.task = t
    BY <1>2, <1>4
  <2>6. prompted' # -1 /\ app'[at'.task].pc = "cipsend"
    BY <1>2, <1>12, <2>4, <2>5
  <2>7. /\ atLock' = t /\ prompted' = MySock(t)'.fd /\ link'[prompted'] = app'[t].sock
        /\ app'[t].pc = "cipsend" /\ cmds' = << >> /\ Prompted'
    BY <1>2, <1>4, <1>12, <2>1, <2>2, <2>3
  <2>8. Prompting'
    BY <1>4, <2>6, <2>7 DEF Prompting
  <2>9. \A b \in Apps : app[b].pc # "close"
    BY <1>6, <1>12 DEF Asking
  <2>10. ASSUME NEW b \in Apps,
               app'[b].pc = "free" \/ (app'[b].pc = "close" /\ cmds' = << >>)
        PROVE  link'[MySock(b)'.fd] = 0
    <3>1. app[b].pc = "free"
      BY <1>2, <2>9, <2>10
    <3>2. app[b].sock # 0 /\ link[MySock(b).fd] = 0
      BY <1>1, <3>1 DEF Linked, Owns
    <3> QED
      BY <1>7, <1>12, <3>2
  <2>11. Linked'
    BY <1>1, <1>2, <1>12, <2>10 DEF Linked
  <2>12. Framed'
    BY <1>3, <1>12, AnswerFramed
  <2> QED
    BY <1>4, <2>8, <2>11, <2>12 DEF Together
<1>13. ASSUME app[t].pc = "close", link' = [link EXCEPT ![fd] = 0], prompted' = prompted,
              text = "OK"
       PROVE  Together'
  <2>1. /\ app[t].sock # 0 /\ fd \in Fds /\ sockArray[fd] = app[t].sock
        /\ fd = MySock(t).fd
    BY <1>8, <1>13
  <2>2. \A b \in Apps : app[b].pc # "cipsend"
    BY <1>6, <1>13 DEF Asking
  <2>3. Prompting'
    BY <1>2, <1>4, <1>13, <2>2 DEF Prompting
  <2>4. \A e \in Fds : link'[e] = IF e = fd THEN 0 ELSE link[e]
    BY <1>1, <1>13
  <2>5. ASSUME NEW b \in Apps,
               app'[b].pc = "free" \/ (app'[b].pc = "close" /\ cmds' = << >>)
        PROVE  link'[MySock(b)'.fd] = 0
    <3>1. app[b].sock # 0 /\ MySock(b).fd \in Fds
      BY <1>1, <1>2, <2>5, OwnSocket DEF Owns
    <3>2. CASE app[b].pc = "free"
      <4>1. link[MySock(b).fd] = 0
        BY <1>1, <3>2 DEF Linked
      <4> QED
        BY <1>7, <2>4, <3>1, <4>1
    <3>3. CASE app[b].pc = "close"
      <4>1. b = t
        BY <1>6, <3>3 DEF Asking
      <4> QED
        BY <1>7, <2>1, <2>4, <3>1, <4>1
    <3> QED
      BY <1>2, <2>5, <3>2, <3>3
  <2>6. \A e \in Fds : link'[e] # 0 => link'[e] = sockArray'[e]
    BY <1>1, <1>2, <2>4 DEF Linked
  <2>7. Linked'
    BY <2>5, <2>6 DEF Linked
  <2>8. \A e \in Fds : link[e] # 0 => link'[e] = link[e] \/ Closing(link[e])
    <3> SUFFICES ASSUME NEW e \in Fds, link[e] # 0, e = fd PROVE Closing(link[e])
      BY <2>4
    <3>1. link[e] = app[t].sock
      BY <1>1, <2>1 DEF Linked
    <3> QED
      BY <1>4, <1>13, <3>1 DEF Closing
  <2>9. Framed'
    BY <1>3, <2>8, AnswerFramed
  <2> QED
    BY <1>4, <2>3, <2>7, <2>9 DEF Together
<1> QED
  BY <1>3, <1>5, <1>8, <1>10, <1>11, <1>12, <1>13

LEMMA TogetherKept ==
    ASSUME Basics, Typed', Together, InStep', [Next]_vars
    PROVE  Together'
<1>1. ASSUME NEW a \in Apps, ItsStep(a) \/ Esp8266SockFree(a) PROVE Together'
  BY <1>1, ItsTogether, FreeTogether
<1>2. ASSUME NEW a \in Apps, NEW type \in Types, NEW garbage \in BOOLEAN,
             Esp8266Socket(a, type, garbage)
      PROVE  Together'
  BY <1>2, SocketTogether
<1>3. ASSUME NEW w \in Workers, Esp8266MsgDeal(w) PROVE Together'
  BY <1>3, DealTogether
<1>4. ASSUME NEW n \in 1 .. MaxChunk, rcv_task(n) PROVE Together'
  BY <1>4, ReadTogether
<1>5. CASE modem_data \/ modem_command
  BY <1>5, DataTogether, CommandTogether
<1>6. ASSUME NEW fd \in Fds, NEW len \in StreamLens \cup DatagramLens, peer_sends(fd, len)
      PROVE  Together'
  BY <1>6, PeerTogether DEF Lens
<1>7. CASE UNCHANGED vars
  <2>1. /\ Still /\ at' = at /\ cmds' = cmds /\ link' = link /\ prompted' = prompted
        /\ deal' = deal /\ flags' = flags /\ Pend' = Pend
    BY <1>7 DEF vars, tasks, sockets, modem, Still, Pend
  <2>2. Typed /\ Pend \in Seq(Parts) /\ \A a \in Apps : deal[a].parts \in Seq(Parts)
    BY PendTyped DEF Basics, Typed, Workers, DealStates
  <2>3. Drops(Pend, Pend', 0)
    BY <2>1, <2>2, DropsOf
  <2>4. \A a \in Apps : ComesFrom(deal'[a].parts, deal[a].parts)
    BY <2>1, <2>2, PartsOf
  <2>5. \A i \in DOMAIN Pend : ~(i <= 0)
    <3>1. DOMAIN Pend = 1 .. Len(Pend) /\ Len(Pend) \in Nat
      BY <2>2, LenProperties
    <3> QED
      BY <3>1
  <2>6. DropStep(0)
    BY <2>1, <2>3, <2>4, <2>5 DEF DropStep
  <2> QED
    BY <2>6, DropTogether
<1> QED
  BY <1>1, <1>2, <1>3, <1>4, <1>5, <1>6, <1>7, Steps

\* The frame at the beginning of what a task deals with is one of the table.
LEMMA HeadKnown ==
    ASSUME Basics, Together, NEW w \in Workers, deal[w].parts # << >>,
           IsIpd(Head(deal[w].parts))
    PROVE  /\ Known(Head(deal[w].parts))
           /\ Head(deal[w].parts).fd \in Fds /\ Head(deal[w].parts).sock \in 1 .. Len(sock)
<1> DEFINE q == deal[w].parts
<1>1. Typed /\ Framed /\ Handed /\ q \in Seq(Parts) /\ AllFromPeer(q, hist)
  BY DEF Basics, Together, Typed, DealStates, Genuine
<1>2. (w = Rcv => \A i \in DOMAIN q : i \in DOMAIN Pend /\ Pend[i] = q[i])
      /\ (w # Rcv => \A i \in DOMAIN q : Known(q[i]))
  BY <1>1, PendParts DEF Handed, Workers
<1> HIDE DEF q
<1>3. 1 \in DOMAIN q /\ Head(q) = q[1] /\ IsIpd(q[1]) /\ Head(q) \in Parts
  BY <1>1, Rest DEF q
<1>4. Known(q[1])
  BY <1>1, <1>2, <1>3 DEF Framed
<1>5. q[1].fd \in Fds
  BY <1>3, PartKinds
<1>6. q[1].sock \in 1 .. Len(sock)
  BY <1>1, <1>3, LenProperties DEF AllFromPeer, FromPeer, Typed
<1> QED
  BY <1>3, <1>4, <1>5, <1>6 DEF q

LEMMA DealtKept ==
    ASSUME Basics, Typed', Together, Dealt, InStep', [Next]_vars
    PROVE  Dealt'
<1>1. /\ Typed /\ Dealings /\ Asked /\ deal \in [Workers -> DealStates]
      /\ \A a \in Apps : Owns(a) /\ a \in Workers
  BY DEF Basics, Together, Typed, Owners, Workers
<1>2. ASSUME NEW a \in Apps, ItsStep(a) PROVE Dealt'
  <2>1. /\ \A w \in Workers \ {a} : deal'[w] = deal[w]
        /\ deal'[a].sock = deal[a].sock
        /\ AsksNow(a) \/ EndsNow(a) \/ RestsNow(a)
    BY <1>1, <1>2, Moves, Effects
  <2>2. deal[a].sock # 0 => deal'[a] = deal[a]
    <3>1. deal[a].sock # 0 => app[a].pc = "tail"
      BY <1>1 DEF Dealings, Dealing, Owns
    <3> QED
      BY <2>1, <3>1 DEF AsksNow, EndsNow, RestsNow, Asking
  <2> QED
    BY <2>1, <2>2 DEF Dealt
<1>3. CASE deal' = deal
  BY <1>3 DEF Dealt
<1>4. ASSUME NEW v \in Workers, Esp8266MsgDeal(v) PROVE Dealt'
  <2>1. \A w \in Workers \ {v} : deal'[w] = deal[w]
    BY <1>1, <1>4 DEF Esp8266MsgDeal, MsgDealSingle, MsgDealWrite, MsgDealRest, DealStates
  <2>2. deal'[v].sock # 0 => deal'[v].sock = Head(deal'[v].parts).sock
    <3>1. CASE MsgDealSingle(v)
      <4>1. CASE deal' = [deal EXCEPT ![v].parts = << >>]
        <5>1. deal'[v].sock = deal[v].sock /\ deal[v].sock = 0
          BY <1>1, <3>1, <4>1 DEF MsgDealSingle, DealStates
        <5> QED
          BY <5>1
      <4>2. CASE deal' = [deal EXCEPT ![v].sock = sockArray[Head(deal[v].parts).fd]]
        <5>1. deal'[v].sock = sockArray[Head(deal[v].parts).fd]
              /\ deal'[v].parts = deal[v].parts
          BY <1>1, <4>2 DEF DealStates
        <5>2. Known(Head(deal[v].parts)) /\ IsIpd(Head(deal[v].parts))
          BY <3>1, HeadKnown DEF MsgDealSingle
        <5> QED
          BY <5>1, <5>2 DEF Known
      <4> QED
        BY <3>1, <4>1, <4>2 DEF MsgDealSingle
    <3>2. CASE MsgDealWrite(v)
      <4>1. deal' = [deal EXCEPT ![v].parts = Tail(@), ![v].sock = 0]
        BY <3>2 DEF MsgDealWrite
      <4>2. deal'[v].sock = 0
        BY <1>1, <4>1 DEF DealStates
      <4> QED
        BY <4>2
    <3>3. CASE MsgDealRest(v)
      <4>1. deal' = [deal EXCEPT ![v].parts = << >>] /\ ~IsIpd(Head(deal[v].parts))
        BY <3>3 DEF MsgDealRest
      <4>2. deal'[v].sock = deal[v].sock
        BY <1>1, <4>1 DEF DealStates
      <4>3. deal[v].sock = 0
        BY <1>1, <4>1 DEF Dealings, Dealing
      <4> QED
        BY <4>2, <4>3
    <3> QED
      BY <1>4, <3>1, <3>2, <3>3 DEF Esp8266MsgDeal
  <2> QED
    BY <2>1, <2>2 DEF Dealt
<1>5. ASSUME NEW n \in 1 .. MaxChunk, rcv_task(n) PROVE Dealt'
  <2>1. CASE deal' = deal
    BY <1>3, <2>1
  <2>2. CASE deal' # deal
    <3>1. PICK q : deal' = [deal EXCEPT ![Rcv].parts = q]
      BY <1>5, <2>2 DEF rcv_task
    <3>2. deal[Rcv].sock = 0
      BY <1>1, <1>5 DEF Dealings, Dealing, rcv_task, Workers
    <3>3. \A w \in Workers : deal'[w].sock = deal[w].sock /\ (w # Rcv => deal'[w] = deal[w])
      BY <1>1, <3>1 DEF DealStates
    <3> QED
      BY <3>2, <3>3 DEF Dealt
  <2> QED
    BY <2>1, <2>2
<1>6. CASE \/ \E a \in Apps : Esp8266SockFree(a)
           \/ \E a \in Apps, type \in Types, garbage \in BOOLEAN :
                Esp8266Socket(a, type, garbage)
           \/ modem_data \/ modem_command
           \/ \E fd \in Fds, len \in StreamLens \cup DatagramLens : peer_sends(fd, len)
           \/ UNCHANGED vars
  <2>1. deal' = deal
    BY <1>6 DEF Esp8266SockFree, Esp8266Socket, modem_data, modem_command, peer_sends, vars
  <2> QED
    BY <1>3, <2>1
<1> QED
  BY <1>2, <1>4, <1>5, <1>6, Steps

LEMMA ExchangeKept ==
    ASSUME Basics, Exchange, [Next]_vars
    PROVE  Exchange'
<1> SUFFICES ASSUME InStep' PROVE Together' /\ Dealt'
  BY DEF Exchange
<1>1. InStep
  BY TroubleStays DEF InStep
<1>2. Together /\ Dealt
  BY <1>1 DEF Exchange
<1>3. Typed'
  BY BasicsKept DEF Basics
<1> QED
  BY <1>2, <1>3, TogetherKept, DealtKept

LEMMA ExchangeInit ==
    ASSUME Init
    PROVE  Exchange
<1>1. Basics
  BY BasicsInit
<1>2. /\ \A w \in Workers : deal[w] = [parts |-> << >>, sock |-> 0]
      /\ \A a \in Apps : app[a] = [pc |-> "idle", sock |-> 0, next |-> "idle"] /\ a \in Workers
      /\ at = NoCommand /\ cmds = << >> /\ prompted = -1 /\ uart = << >>
      /\ \A fd \in Fds : link[fd] = 0
      /\ DOMAIN << >> = {} /\ Rcv \in Workers
  BY DEF Init, Workers
<1>3. DOMAIN Pend = {} /\ at.resp = << >> /\ at.index = ""
  <2>1. Pend = << >>
    BY <1>2, ConcatEmptySeq, EmptySeq DEF Pend
  <2> QED
    BY <1>2, <2>1 DEF NoCommand
<1>4. at.task = Nobody /\ Nobody \notin Apps /\ cmds = << >> /\ \A a \in Apps : app[a].pc = "idle"
  <2>1. at.task = Nobody
    BY <1>2 DEF NoCommand
  <2>2. Nobody \notin Apps
    BY Bounds
  <2>3. \A a \in Apps : app[a].pc = "idle"
    BY <1>2
  <2> QED
    BY <1>2, <2>1, <2>2, <2>3
<1>5. NoAnswer(Pend) /\ OneAnswer(Pend) /\ ~Prompts(Pend)
  BY <1>3 DEF NoAnswer, OneAnswer, Prompts
<1>6. Asked
  BY <1>3, <1>4, <1>5 DEF Asked, Asking
<1>7. Prompting
  BY <1>2, <1>4, <1>5 DEF Prompting
<1>8. Linked
  BY <1>2 DEF Linked
<1>9. Framed
  BY <1>3 DEF Framed
<1>10. Handed
  <2>1. \A a \in Apps : DOMAIN deal[a].parts = {}
    <3>1. \A a \in Apps : deal[a].parts = << >>
      BY <1>2
    <3> QED
      BY <1>2, <3>1
  <2> QED
    BY <1>3, <2>1 DEF Handed
<1>11. Dealt
  BY <1>2 DEF Dealt
<1> QED
  BY <1>6, <1>7, <1>8, <1>9, <1>10, <1>11 DEF Exchange, Together

-----------------------------------------------------------------------------
(* What the modem sends *)

\* What the modem took for data, and what a task last offered.
Net(s) == {hist[s].net[i] : i \in DOMAIN hist[s].net}
OwnPayload(a) == Payload(app[a].sock, hist[app[a].sock].offered)

\* From the prompt to the data no other command gets to the modem, and when it
\* has answered the data it has taken them.
Turns ==
    \A a \in Apps :
      /\ app[a].pc = "data" => at.task = Nobody /\ prompted # -1
      /\ app[a].pc = "sending" /\ cmds # << >> => prompted # -1
Taken ==
    \A a \in Apps : app[a].pc = "tail" \/ (app[a].pc = "sending" /\ cmds = << >>) =>
                      OwnPayload(a) \in Net(app[a].sock)
Told(s) ==
    /\ Net(s) \subseteq {Payload(s, n) : n \in 1 .. hist[s].offered}
    /\ {Payload(s, n) : n \in hist[s].acked} \subseteq Net(s)
Sent == Turns /\ Taken /\ \A s \in 1 .. Len(sock) : Told(s)

Sequence == InStep /\ "between" \notin trouble => Sent

LEMMA NetSteps ==
    ASSUME Typed, Owners, [Next]_vars, NEW t \in 1 .. Len(sock)
    PROVE  /\ hist'[t].net = hist[t].net \/ modem_data
           /\ \/ hist'[t].offered = hist[t].offered
              \/ \E a \in Apps : Esp8266Send(a) /\ app[a].sock = t
           /\ \/ hist'[t].acked = hist[t].acked
              \/ \E a \in Apps :
                   /\ send_succeeds(a) /\ app[a].pc \in {"sending", "tail"} /\ app[a].sock = t
                   /\ hist'[t].acked = hist[t].acked \cup {hist[t].offered}
<1>1. hist \in Seq(Histories) /\ DOMAIN hist = 1 .. Len(sock) /\ hist[t] \in Histories
  BY ASocket, LenProperties DEF Typed
<1>2. ASSUME NEW a \in Apps, Esp8266Send(a),
             hist' = [hist EXCEPT ![app[a].sock].offered = hist[app[a].sock].offered + 1]
      PROVE  /\ hist'[t].net = hist[t].net /\ hist'[t].acked = hist[t].acked
             /\ app[a].sock # t => hist'[t].offered = hist[t].offered
  <2>1. hist'[t].net = hist[t].net /\ hist'[t].acked = hist[t].acked
    BY <1>2, Recorded
  <2>2. app[a].sock # t => hist'[t].offered = hist[t].offered
    BY <1>1, <1>2
  <2> QED
    BY <2>1, <2>2
<1>3. ASSUME NEW a \in Apps, send_succeeds(a)
      PROVE  /\ hist'[t].net = hist[t].net /\ hist'[t].offered = hist[t].offered
             /\ IF app[a].sock = t
                THEN hist'[t].acked = hist[t].acked \cup {hist[t].offered}
                ELSE hist'[t].acked = hist[t].acked
  <2> DEFINE s == app[a].sock
             v == hist[s].acked \cup {hist[s].offered}
  <2>1. hist' = [hist EXCEPT ![s].acked = v]
    BY <1>3 DEF send_succeeds
  <2> HIDE DEF v, s
  <2>2. hist'[t].net = hist[t].net /\ hist'[t].offered = hist[t].offered
    BY <2>1, Recorded
  <2>3. hist'[t].acked = IF s = t THEN v ELSE hist[t].acked
    BY <1>1, <2>1 DEF Histories
  <2> QED
    BY <2>2, <2>3 DEF s, v
<1>4. CASE \E s, v : hist' = [hist EXCEPT ![s].got = v]
  BY <1>4, Recorded
<1>5. CASE modem_data
  <2>1. \E s, v : hist' = [hist EXCEPT ![s].net = v]
    BY <1>5 DEF modem_data
  <2>2. hist'[t].offered = hist[t].offered /\ hist'[t].acked = hist[t].acked
    BY <2>1, Recorded
  <2> QED
    BY <1>5, <2>2
<1>6. CASE \E fd \in Fds, len \in Lens : peer_sends(fd, len)
  <2>1. \E s, v : hist' = [hist EXCEPT ![s].peer = v]
    BY <1>6 DEF peer_sends
  <2> QED
    BY <2>1, Recorded
<1>7. CASE \E a \in Apps, type \in Types, garbage \in BOOLEAN : Esp8266Socket(a, type, garbage)
  <2>1. \E x : hist' = Append(hist, x)
    BY <1>7 DEF Esp8266Socket
  <2>2. hist'[t] = hist[t]
    BY <1>1, <2>1, AppendProperties
  <2> QED
    BY <2>2
<1> QED
  BY <1>2, <1>3, <1>4, <1>5, <1>6, <1>7, HistSteps

\* A socket of which the modem takes nothing remains right.
LEMMA ToldKept ==
    ASSUME Basics, [Next]_vars, NEW t \in 1 .. Len(sock), Told(t),
           hist'[t].net = hist[t].net,
           \A a \in Apps : send_succeeds(a) /\ app[a].pc \in {"sending", "tail"}
                             => OwnPayload(a) \in Net(app[a].sock)
    PROVE  Told(t)'
<1>1. Typed /\ Owners /\ Dealings /\ hist[t].offered \in Nat
  BY ASocket DEF Basics
<1>2. Net(t)' = Net(t)
  BY DEF Net
<1>3. hist'[t].offered \in Nat /\ hist'[t].offered >= hist[t].offered
  BY <1>1, HistGrown DEF HistGrows
<1>4. \A n \in 1 .. hist[t].offered : n \in 1 .. hist'[t].offered
  BY <1>1, <1>3
<1>5. Net(t)' \subseteq {Payload(t, n) : n \in 1 .. hist'[t].offered}
  BY <1>2, <1>4 DEF Told
<1>6. {Payload(t, n) : n \in hist'[t].acked} \subseteq Net(t)'
  <2>1. CASE hist'[t].acked = hist[t].acked
    BY <1>2, <2>1 DEF Told
  <2>2. CASE hist'[t].acked # hist[t].acked
    <3>1. /\ Payload(t, hist[t].offered) \in Net(t)
          /\ hist'[t].acked = hist[t].acked \cup {hist[t].offered}
      BY <1>1, <2>2, NetSteps DEF OwnPayload
    <3> QED
      BY <1>2, <3>1 DEF Told
  <2> QED
    BY <2>1, <2>2
<1> QED
  BY <1>5, <1>6 DEF Told

\* Another socket has had nothing to send.
LEMMA NewTold ==
    ASSUME Basics, Typed', [Next]_vars, NEW t \in 1 .. Len(sock'), t \notin 1 .. Len(sock)
    PROVE  Told(t)'
<1>1. Typed /\ Owners /\ Dealings /\ Len(sock) \in Nat /\ Len(hist) = Len(sock)
      /\ hist \in Seq(Histories)
  BY LenProperties DEF Basics, Typed
<1>2. ~\E a \in Apps : Esp8266SockFree(a)
  BY <1>1, LenProperties DEF Esp8266SockFree, Typed
<1>3. PICK a \in Apps, type \in Types, garbage \in BOOLEAN : Esp8266Socket(a, type, garbage)
  BY <1>1, <1>2, Stands DEF Standing
<1>4. PICK x, y : /\ hist' = Append(hist, x) /\ x.net = << >> /\ x.acked = {}
                  /\ sock' = Append(sock, y)
  BY <1>3 DEF Esp8266Socket
<1>5. t = Len(hist) + 1
  BY <1>1, <1>4, AppendProperties DEF Typed
<1>6. hist'[t].net = << >> /\ hist'[t].acked = {}
  BY <1>1, <1>4, <1>5, AppendProperties
<1>7. Net(t)' = {}
  BY <1>6, EmptySeq, LenProperties DEF Net
<1> QED
  BY <1>6, <1>7 DEF Told

\* How a task comes to where it sends, or asks for a name.
LEMMA ItsCourse ==
    ASSUME Typed, NEW a \in Apps, ItsStep(a)
    PROVE  /\ app'[a].pc = "data" =>
                /\ app[a].pc = "cipsend"
                /\ (at.task = a /\ at.resp # << >>) \/ flags.sendIndex
           /\ app'[a].pc = "sending" => app[a].pc = "data"
           /\ app'[a].pc = "tail" => app[a].pc = "sending"
           /\ app'[a].pc = "lookup" => Esp8266GetHostByName(a)
<1>1. app \in [Apps -> AppStates] /\ app[a].next \in {"idle", "send"}
  BY DEF Typed, AppStates
<1>2. ASSUME NEW pc PROVE [app EXCEPT ![a].pc = pc][a].pc = pc
  BY <1>1 DEF AppStates
<1>3. CASE Esp8266Close(a) \/ close_return(a) \/ lookup_return(a)
  <2>1. app'[a].pc \in {"close", "free", "idle"}
    BY <1>2, <1>3 DEF Esp8266Close, close_return, lookup_return
  <2> QED
    BY <2>1
<1>4. CASE data_command(a)
  <2>1. app'[a].pc = "sending" /\ app[a].pc = "data"
    BY <1>2, <1>4 DEF data_command
  <2> QED
    BY <2>1
<1>5. CASE \E next \in {"idle", "send"} : Esp8266Connect(a, next)
  <2>1. app'[a].pc = "connect"
    BY <1>1, <1>5 DEF Esp8266Connect, AppStates
  <2> QED
    BY <2>1
<1>6. CASE Esp8266GetHostByName(a)
  <2>1. app'[a].pc = "lookup"
    BY <1>2, <1>6 DEF Esp8266GetHostByName
  <2> QED
    BY <1>6, <2>1
<1>7. CASE connect_return(a)
  <2>1. app'[a].pc \in {"idle", "send"}
    BY <1>1, <1>7 DEF connect_return, AppStates
  <2> QED
    BY <2>1
<1>8. CASE Esp8266Send(a)
  <2>1. app'[a].pc = "cipsend"
    BY <1>2, <1>8 DEF Esp8266Send
  <2> QED
    BY <2>1
<1>9. CASE cipsend_return(a)
  <2>1. CASE (at.task = a /\ at.resp # << >>) \/ flags.sendIndex
    <3>1. app'[a].pc = "data" /\ app[a].pc = "cipsend"
      BY <1>2, <1>9, <2>1 DEF cipsend_return
    <3> QED
      BY <2>1, <3>1
  <2>2. CASE ~((at.task = a /\ at.resp # << >>) \/ flags.sendIndex)
    <3>1. app'[a].pc = "idle"
      BY <1>2, <1>9, <2>2 DEF cipsend_return, send_fails
    <3> QED
      BY <3>1
  <2> QED
    BY <2>1, <2>2
<1>10. CASE data_return(a) \/ send_return(a)
  <2>1. app'[a].pc = "idle" \/ (app'[a].pc = "tail" /\ app[a].pc = "sending")
    BY <1>2, <1>10 DEF data_return, send_return, send_succeeds, send_fails
  <2> QED
    BY <2>1
<1>11. CASE Esp8266Recv(a)
  <2>1. app'[a].pc = "idle"
    BY <1>11 DEF Esp8266Recv, tasks
  <2> QED
    BY <2>1
<1> QED
  BY <1>3, <1>4, <1>5, <1>6, <1>7, <1>8, <1>9, <1>10, <1>11 DEF ItsStep, AppStep, SendStep

\* A task that asks for more than a name does so when no other one sends.
LEMMA AsksUnlocked ==
    ASSUME Basics, NEW a \in Apps, OwnMove(a), AsksNow(a), ItsStep(a),
           "between" \notin trouble', NEW b \in Apps, b # a
    PROVE  app[b].pc # "data"
<1> SUFFICES ASSUME app[b].pc = "data" PROVE FALSE
  OBVIOUS
<1>1. /\ Owns(a) /\ Owns(b) /\ app \in [Apps -> AppStates]
      /\ app[a].pc \notin Asking /\ app'[a].pc \in Asking
      /\ Locks(a) \/ Unlocks(a) \/ Keeps(a)
  BY DEF Basics, Owners, Typed, OwnMove, AsksNow
<1>2. atLock = b /\ b # Nobody
  BY <1>1, Bounds DEF Owns, Locking
<1>3. CASE app'[a].pc # "lookup"
  <2>1. app'[a].pc \in Locking
    BY <1>1, <1>3 DEF Asking, Locking
  <2>2. Keeps(a)
    BY <1>1, <1>2, <2>1 DEF Locks, Unlocks
  <2>3. atLock = a
    BY <1>1, <2>1, <2>2 DEF Keeps, Owns
  <2> QED
    BY <1>2, <2>3
<1>4. CASE app'[a].pc = "lookup"
  <2>1. Esp8266GetHostByName(a)
    BY <1>1, <1>4, ItsCourse DEF Basics
  <2> QED
    BY <2>1 DEF Esp8266GetHostByName
<1> QED
  BY <1>3, <1>4

LEMMA ItsSent ==
    ASSUME Basics, Typed', Together, Sent, InStep', "between" \notin trouble', [Next]_vars,
           NEW a \in Apps, ItsStep(a)
    PROVE  Sent'
<1>1. /\ Typed /\ Owners /\ Dealings /\ Commanding /\ Asked /\ Prompting
      /\ (\A b \in Apps : Owns(b) /\ b # Nobody)
      /\ Turns /\ Taken /\ \A s \in 1 .. Len(sock) : Told(s)
  BY Bounds DEF Basics, Owners, Together, Sent
<1>2. OwnMove(a)
  BY <1>1, OwnMoves
<1>3. /\ prompted' = prompted /\ (AsksNow(a) \/ EndsNow(a) \/ RestsNow(a))
      /\ \A b \in Apps \ {a} : app'[b] = app[b]
      /\ app'[a].sock = app[a].sock
  BY <1>2 DEF OwnMove
<1>4. \A b \in Apps \ {a} : AsksNow(a) => app[b].pc # "data"
  BY <1>2, AsksUnlocked
<1>5. ~modem_data
  BY <1>3 DEF modem_data
<1>6. \A t \in 1 .. Len(sock) : hist'[t].net = hist[t].net /\ Net(t)' = Net(t)
  BY <1>1, <1>5, NetSteps DEF Net
<1>7. ASSUME NEW b \in Apps, app[b].pc \in Asking
      PROVE  /\ at.task = b /\ at.task # Nobody /\ ~AsksNow(a)
             /\ b # a => RestsNow(a) /\ at' = at /\ cmds' = cmds
             /\ b = a => EndsNow(a)
  <2>1. at.task = b /\ at.task # Nobody
    BY <1>1, <1>7 DEF Asked
  <2> QED
    BY <1>3, <1>7, <2>1 DEF AsksNow, EndsNow, RestsNow
<1>8. Turns'
  <2> SUFFICES ASSUME NEW b \in Apps
               PROVE  /\ app'[b].pc = "data" => at'.task = Nobody /\ prompted' # -1
                      /\ app'[b].pc = "sending" /\ cmds' # << >> => prompted' # -1
    BY DEF Turns
  <2>1. CASE b # a
    <3>1. app'[b] = app[b]
      BY <1>3, <2>1
    <3>2. app[b].pc = "data" => at.task = Nobody /\ prompted # -1 /\ ~AsksNow(a)
      BY <1>1, <1>4, <2>1 DEF Turns
    <3>3. app[b].pc = "data" => at'.task = Nobody
      <4>1. at.task = Nobody /\ ~AsksNow(a) /\ ~EndsNow(a) => at'.task = Nobody
        BY <1>3 DEF RestsNow
      <4>2. EndsNow(a) => at'.task = Nobody
        <5>1. NoCommand.task = Nobody
          BY DEF NoCommand
        <5> QED
          BY <5>1 DEF EndsNow
      <4> QED
        BY <3>2, <4>1, <4>2
    <3>4. app[b].pc = "sending" => cmds' = cmds
      BY <1>7, <2>1 DEF Asking
    <3> QED
      BY <1>1, <1>3, <3>1, <3>2, <3>3, <3>4 DEF Turns
  <2>2. CASE b = a
    <3>1. CASE app'[a].pc = "data"
      <4>1. app[a].pc = "cipsend" /\ Prompted
        BY <1>1, <3>1, ItsCourse DEF Prompted
      <4>2. EndsNow(a) /\ prompted # -1
        BY <1>1, <1>7, <4>1 DEF Asking, Prompting
      <4> QED
        BY <1>3, <2>2, <3>1, <4>2 DEF EndsNow, NoCommand
    <3>2. CASE app'[a].pc = "sending"
      <4>1. app[a].pc = "data"
        BY <1>1, <3>2, ItsCourse
      <4> QED
        BY <1>1, <1>3, <2>2, <3>2, <4>1 DEF Turns
    <3> QED
      BY <2>2, <3>1, <3>2
  <2> QED
    BY <2>1, <2>2
<1>9. Taken'
  <2> SUFFICES ASSUME NEW b \in Apps,
                      app'[b].pc = "tail" \/ (app'[b].pc = "sending" /\ cmds' = << >>)
               PROVE  OwnPayload(b)' \in Net(app[b].sock)'
    BY DEF Taken, OwnPayload, Net
  <2>0. PICK t : t = app[b].sock
    OBVIOUS
  <2>1. app[b].pc = "tail" \/ (app[b].pc = "sending" /\ cmds = << >>)
    <3>1. CASE b # a
      BY <1>3, <1>7, <3>1 DEF Asking
    <3>2. CASE b = a
      <4>1. app[a].pc # "data"
        <5>1. ASSUME app[a].pc = "data" PROVE FALSE
          <6>1. app'[a].pc = "sending" /\ app[a].pc \notin Asking
            BY <1>1, <2>1, <3>2, <5>1, ItsCourse DEF Asking
          <6>2. AsksNow(a)
            BY <1>3, <6>1 DEF EndsNow, RestsNow, Asking
          <6> QED
            BY <3>2, <6>1, <6>2 DEF AsksNow
        <5> QED
          BY <5>1
      <4>2. app'[a].pc = "tail" /\ app[a].pc = "sending"
        BY <1>1, <3>2, <4>1, ItsCourse
      <4>3. EndsNow(a)
        BY <1>7, <4>2 DEF Asking
      <4> QED
        BY <3>2, <4>2, <4>3 DEF EndsNow
    <3> QED
      BY <3>1, <3>2
  <2>2. /\ app'[b].sock = t /\ t \in 1 .. Len(sock) /\ t # 0
    BY <1>1, <1>3, <2>1, <2>0, OwnSocket DEF Owns
  <2>3. Payload(t, hist[t].offered) \in Net(t)
    BY <1>1, <2>1, <2>0 DEF Taken, OwnPayload
  <2>4. hist'[t].offered = hist[t].offered
    <3>1. ~\E c \in Apps : Esp8266Send(c) /\ app[c].sock = t
      <4>1. \A c \in Apps : Esp8266Send(c) => app[c].pc \in {"send", "idle"}
        BY DEF Esp8266Send
      <4>2. \A c \in Apps : app[c].sock = t => c = b
        BY <1>1, <2>2, <2>0 DEF Owns
      <4> QED
        BY <2>1, <4>1, <4>2
    <3> QED
      BY <1>1, <2>2, <3>1, NetSteps
  <2>5. Net(t)' = Net(t)
    BY <1>6, <2>2
  <2>6. Payload(t, hist'[t].offered) \in Net(t)'
    BY <2>3, <2>4, <2>5
  <2> QED
    BY <1>3, <2>2, <2>6, <2>0 DEF OwnPayload, Net
<1>10. ASSUME NEW t \in 1 .. Len(sock') PROVE Told(t)'
  <2>1. CASE t \in 1 .. Len(sock)
    <3>1. ASSUME NEW b \in Apps, send_succeeds(b), app[b].pc \in {"sending", "tail"}
          PROVE  OwnPayload(b) \in Net(app[b].sock)
      <4>1. app[b].pc = "sending" => cmds = << >>
        <5> SUFFICES ASSUME app[b].pc = "sending" PROVE cmds = << >>
          OBVIOUS
        <5>1. app'[b].pc = "idle"
          BY <1>1, <3>1 DEF send_succeeds, Typed, AppStates
        <5>2. b = a
          BY <1>3, <5>1
        <5>3. EndsNow(a)
          BY <1>7, <5>2 DEF Asking
        <5> QED
          BY <5>3 DEF EndsNow
      <4> QED
        BY <1>1, <3>1, <4>1 DEF Taken
    <3> QED
      BY <1>1, <1>6, <2>1, <3>1, ToldKept
  <2>2. CASE t \notin 1 .. Len(sock)
    BY <2>2, NewTold
  <2> QED
    BY <2>1, <2>2
<1> QED
  BY <1>8, <1>9, <1>10 DEF Sent

\* The modem takes for the data what the task that sends has offered.
LEMMA DataSent ==
    ASSUME Basics, Typed', Together, Sent, InStep', [Next]_vars, modem_data
    PROVE  Sent'
<1>1. /\ Typed /\ Owners /\ Dealings /\ Commanding /\ Asked /\ Prompting
      /\ (\A b \in Apps : Owns(b) /\ b # Nobody)
      /\ Turns /\ Taken /\ \A s \in 1 .. Len(sock) : Told(s)
  BY Bounds DEF Basics, Owners, Together, Sent
<1>2. /\ cmds # << >> /\ prompted # -1 /\ app' = app /\ at' = at /\ sock' = sock
      /\ hist' = [hist EXCEPT ![link[prompted]].net =
                    Append(hist[link[prompted]].net, Head(cmds))]
      /\ cmds' = Tail(cmds)
  BY DEF modem_data, tasks, sockets
<1>3. at.task # Nobody /\ cmds = <<CommandOf(at.task)>>
  BY <1>1, <1>2 DEF Asked
<1>4. PICK b \in Apps : atLock = b /\ link[prompted] = app[b].sock /\ app[b].pc = "sending"
  BY <1>1, <1>2, <1>3 DEF Prompting, Turns
<1>4a. PICK s, c : s = app[b].sock /\ c = OwnPayload(b)
  OBVIOUS
<1>5. cmds = <<c>> /\ cmds' = << >> /\ Head(cmds) = c
  <2>1. at.task = b
    BY <1>1, <1>4 DEF Asked, Asking
  <2>2. CommandOf(b) = c
    BY <1>4, <1>4a DEF CommandOf, OwnPayload
  <2> QED
    BY <1>2, <1>3, <2>1, <2>2
<1>6. /\ s \in 1 .. Len(sock) /\ s # 0 /\ hist[s].offered \in Nat \ {0}
      /\ c = Payload(s, hist[s].offered)
  <2>1. s \in 1 .. Len(sock) /\ s # 0 /\ hist[s].offered \in Nat /\ hist[s].offered > 0
    BY <1>1, <1>4, <1>4a, OwnSocket DEF Owns, Commanding
  <2> QED
    BY <1>4a, <2>1 DEF OwnPayload
<1>7. c \in Cmds
  BY <1>6, CmdKinds
<1> DEFINE v == Append(hist[s].net, c)
<1>8. hist' = [hist EXCEPT ![s].net = v]
  BY <1>2, <1>4, <1>5, <1>4a
<1>9. ASSUME NEW t \in 1 .. Len(sock)
      PROVE  /\ hist'[t].offered = hist[t].offered /\ hist'[t].acked = hist[t].acked
             /\ Net(t)' = IF t = s THEN Net(t) \cup {c} ELSE Net(t)
  <2>1. /\ DOMAIN hist = 1 .. Len(sock) /\ hist[t] \in Histories /\ hist[t].net \in Seq(Cmds)
    BY <1>1, ASocket, LenProperties DEF Typed
  <2>2. /\ DOMAIN v = DOMAIN hist[s].net \cup {Len(hist[s].net) + 1}
        /\ v[Len(hist[s].net) + 1] = c /\ \A j \in DOMAIN hist[s].net : v[j] = hist[s].net[j]
    <3>1. hist[s].net \in Seq(Cmds)
      BY <1>1, <1>6, ASocket
    <3> QED
      BY <1>7, <3>1, Appended
  <2> HIDE DEF v
  <2>3. hist'[t].offered = hist[t].offered /\ hist'[t].acked = hist[t].acked
    BY <1>1, <1>8, Recorded
  <2>4. hist'[t].net = IF t = s THEN v ELSE hist[t].net
    BY <1>8, <2>1 DEF Histories
  <2>5. CASE t = s
    <3>1. Net(s) = {hist[s].net[j] : j \in DOMAIN hist[s].net}
          /\ Net(t)' = {v[j] : j \in DOMAIN v}
      BY <2>4, <2>5 DEF Net
    <3>2. {v[j] : j \in DOMAIN v} = {hist[s].net[j] : j \in DOMAIN hist[s].net} \cup {c}
      BY <2>2
    <3> QED
      BY <2>3, <2>5, <3>1, <3>2
  <2>6. CASE t # s
    BY <2>3, <2>4, <2>6 DEF Net
  <2> QED
    BY <2>5, <2>6
<1>10. Turns'
  <2>1. ASSUME NEW a \in Apps PROVE app[a].pc # "data"
    BY <1>1, <1>3 DEF Turns
  <2> QED
    BY <1>2, <1>5, <2>1 DEF Turns
<1>11. Taken'
  <2> SUFFICES ASSUME NEW a \in Apps,
                      app'[a].pc = "tail" \/ (app'[a].pc = "sending" /\ cmds' = << >>)
               PROVE  OwnPayload(a)' \in Net(app[a].sock)'
    BY DEF Taken, OwnPayload, Net
  <2>1. a = b
    BY <1>1, <1>2, <1>4 DEF Owns, Locking
  <2>2. Payload(s, hist'[s].offered) \in Net(s)'
    BY <1>6, <1>9
  <2> QED
    BY <1>2, <1>4a, <2>1, <2>2 DEF OwnPayload, Net
<1>12. ASSUME NEW t \in 1 .. Len(sock') PROVE Told(t)'
  <2>1. t \in 1 .. Len(sock) /\ Told(t)
    BY <1>1, <1>2
  <2>2. hist[s].offered \in 1 .. hist[s].offered
    BY <1>6
  <2>3. Net(t)' \subseteq {Payload(t, n) : n \in 1 .. hist'[t].offered}
    BY <1>6, <1>9, <2>1, <2>2 DEF Told
  <2>4. {Payload(t, n) : n \in hist'[t].acked} \subseteq Net(t)'
    BY <1>9, <2>1 DEF Told
  <2> QED
    BY <2>3, <2>4 DEF Told
<1> QED
  BY <1>10, <1>11, <1>12 DEF Sent

\* Any other step that is not of a task takes no turn.
LEMMA OtherSent ==
    ASSUME Basics, Typed', Together, Sent, [Next]_vars, ~modem_data,
           ~\E a \in Apps : ItsStep(a)
    PROVE  Sent'
<1>1. /\ Typed /\ Owners /\ Dealings /\ Commanding /\ Asked /\ Prompting
      /\ (\A b \in Apps : Owns(b) /\ b # Nobody)
      /\ Turns /\ Taken /\ \A s \in 1 .. Len(sock) : Told(s)
  BY Bounds DEF Basics, Owners, Together, Sent
<1>2. at'.task = at.task
  BY <1>1, AtStays
<1>3. \A b \in Apps : app'[b].pc # "idle" => app'[b] = app[b]
  BY <1>1, AppStays
<1>4. ASSUME NEW t \in 1 .. Len(sock)
      PROVE  /\ hist'[t].net = hist[t].net
             /\ ~\E a \in Apps : Esp8266Send(a)
             /\ ~\E a \in Apps : send_succeeds(a) /\ app[a].pc \in {"sending", "tail"}
  <2>1. ~\E a \in Apps : Esp8266Send(a)
    BY DEF ItsStep, SendStep
  <2>2. ASSUME NEW a \in Apps, send_succeeds(a), app[a].pc \in {"sending", "tail"} PROVE FALSE
    <3>1. app'[a].pc = "idle"
      BY <1>1, <2>2 DEF send_succeeds, Typed, AppStates
    <3>2. app'[a] = app[a] \/ app[a].pc \in {"idle", "free"}
      BY <1>1, AppStays
    <3> QED
      BY <2>2, <3>1, <3>2
  <2> QED
    BY <1>1, <2>1, <2>2, NetSteps
<1>5. \A t \in 1 .. Len(sock) : Net(t)' = Net(t) /\ hist'[t].offered = hist[t].offered
  BY <1>1, <1>4, NetSteps DEF Net
<1>6. \/ cmds' = cmds /\ prompted' = prompted
      \/ cmds # << >> /\ prompted = -1
  <2>1. CASE modem_command
    BY <2>1 DEF modem_command
  <2>2. CASE \/ \E a \in Apps : Esp8266SockFree(a)
             \/ \E a \in Apps, type \in Types, garbage \in BOOLEAN :
                  Esp8266Socket(a, type, garbage)
             \/ \E w \in Workers : Esp8266MsgDeal(w)
             \/ \E n \in 1 .. MaxChunk : rcv_task(n)
             \/ \E fd \in Fds, len \in StreamLens \cup DatagramLens : peer_sends(fd, len)
             \/ UNCHANGED vars
    BY <2>2 DEF Esp8266SockFree, Esp8266Socket, Esp8266MsgDeal, MsgDealSingle, MsgDealWrite,
                MsgDealRest, rcv_task, peer_sends, vars, modem
  <2> QED
    BY <2>1, <2>2, Steps
<1>7. Turns'
  BY <1>1, <1>2, <1>3, <1>6 DEF Turns
<1>8. Taken'
  <2> SUFFICES ASSUME NEW a \in Apps,
                      app'[a].pc = "tail" \/ (app'[a].pc = "sending" /\ cmds' = << >>)
               PROVE  OwnPayload(a)' \in Net(app[a].sock)'
    BY DEF Taken, OwnPayload, Net
  <2>0. PICK t : t = app[a].sock
    OBVIOUS
  <2>1. app'[a] = app[a] /\ (app[a].pc = "tail" \/ (app[a].pc = "sending" /\ cmds = << >>))
    BY <1>1, <1>3, <1>6 DEF Turns
  <2>2. t \in 1 .. Len(sock) /\ t # 0
    BY <1>1, <2>1, <2>0, OwnSocket DEF Owns
  <2>3. Payload(t, hist[t].offered) \in Net(t)
    BY <1>1, <2>1, <2>0 DEF Taken, OwnPayload
  <2>4. Payload(t, hist'[t].offered) \in Net(t)'
    BY <1>5, <2>2, <2>3
  <2> QED
    BY <2>1, <2>4, <2>0 DEF OwnPayload, Net
<1>9. ASSUME NEW t \in 1 .. Len(sock') PROVE Told(t)'
  <2>1. CASE t \in 1 .. Len(sock)
    BY <1>1, <1>4, <2>1, ToldKept
  <2>2. CASE t \notin 1 .. Len(sock)
    BY <2>2, NewTold
  <2> QED
    BY <2>1, <2>2
<1> QED
  BY <1>7, <1>8, <1>9 DEF Sent

LEMMA SequenceKept ==
    ASSUME Basics, Exchange, Sequence, [Next]_vars
    PROVE  Sequence'
<1> SUFFICES ASSUME InStep', "between" \notin trouble' PROVE Sent'
  BY DEF Sequence
<1>1. InStep /\ "between" \notin trouble
  BY TroubleStays DEF InStep
<1>2. Together /\ Sent /\ Typed'
  BY <1>1, BasicsKept DEF Exchange, Sequence, Basics
<1> QED
  BY <1>2, ItsSent, DataSent, OtherSent

LEMMA SequenceInit ==
    ASSUME Init
    PROVE  Sequence
<1>1. (\A a \in Apps : app[a].pc = "idle") /\ 1 .. Len(sock) = {}
  BY EmptySeq, LenProperties DEF Init
<1> QED
  BY <1>1 DEF Sequence, Sent, Turns, Taken

-----------------------------------------------------------------------------
(* The units of frames *)

LEMMA UnitsOfFrame ==
    ASSUME NEW f \in Ipds, NEW type \in Types
    PROVE  /\ Units(f, type) \in Seq(Pieces)
           /\ type = "SOCK_STREAM" => Len(Units(f, type)) = f.len
           /\ type = "SOCK_DGRAM" => /\ Len(Units(f, type)) = f.len + 1
                                     /\ Units(f, type)[1] = Unit(f, 0)
           /\ \A i \in DOMAIN Units(f, type) :
                \E j \in Nat : Units(f, type)[i] = Unit(f, j) /\ (j = 0 => i = 1)
<1>1. f.sock \in Nat /\ f.k \in Nat /\ f.len \in Nat
  BY PartKinds
<1>2. \A j \in Nat : Unit(f, j) \in Pieces
  BY <1>1 DEF Unit, Pieces
<1> DEFINE body == [i \in 1 .. f.len |-> Unit(f, i)]
           head == IF type = "SOCK_DGRAM" THEN <<Unit(f, 0)>> ELSE << >>
<1>3. body \in Seq(Pieces) /\ Len(body) = f.len /\ \A i \in 1 .. f.len : body[i] = Unit(f, i)
  <2>1. body \in [1 .. f.len -> Pieces]
    BY <1>1, <1>2
  <2>2. \A i \in 1 .. f.len : body[i] = Unit(f, i)
    OBVIOUS
  <2> HIDE DEF body
  <2> QED
    BY <1>1, <2>1, <2>2, FunctionIsList
<1>4. Units(f, type) = head \o body
  BY DEF Units
<1> HIDE DEF body
<1>5. CASE type = "SOCK_DGRAM"
  <2> DEFINE h == <<Unit(f, 0)>>
             u == h \o body
  <2>1. h \in Seq(Pieces) /\ Len(h) = 1 /\ h[1] = Unit(f, 0)
    BY <1>2
  <2> HIDE DEF h
  <2>2. /\ u \in Seq(Pieces) /\ Len(u) = f.len + 1 /\ u[1] = Unit(f, 0)
        /\ \A i \in 1 .. f.len : u[1 + i] = Unit(f, i)
    <3>1. PICK r, t : r = h /\ t = body
      OBVIOUS
    <3>2. /\ r \o t \in Seq(Pieces) /\ Len(r \o t) = Len(r) + Len(t)
          /\ \A i \in 1 .. Len(r) : (r \o t)[i] = r[i]
          /\ \A i \in 1 .. Len(t) : (r \o t)[Len(r) + i] = t[i]
      <4>1. r \in Seq(Pieces) /\ t \in Seq(Pieces)
        BY <1>3, <2>1, <3>1
      <4> HIDE DEF u
      <4> QED
        BY <4>1, Concatenated
    <3>3. u = r \o t
      BY <3>1
    <3> HIDE DEF u
    <3>4. Len(r) = 1 /\ r[1] = Unit(f, 0) /\ Len(t) = f.len
          /\ \A i \in 1 .. f.len : t[i] = Unit(f, i)
      BY <1>3, <2>1, <3>1
    <3> QED
      BY <1>1, <3>2, <3>3, <3>4
  <2>3. Units(f, type) = u
    BY <1>4, <1>5 DEF h
  <2> HIDE DEF u
  <2>4. ASSUME NEW i \in DOMAIN u PROVE \E j \in Nat : u[i] = Unit(f, j) /\ (j = 0 => i = 1)
    <3>1. i \in 1 .. f.len + 1
      BY <2>2, <2>4, LenProperties
    <3>2. CASE i = 1
      BY <2>2, <3>2
    <3>3. CASE i # 1
      <4>1. i - 1 \in 1 .. f.len /\ 1 + (i - 1) = i
        BY <1>1, <3>1, <3>3
      <4>2. u[i] = Unit(f, i - 1)
        BY <2>2, <4>1
      <4> QED
        BY <4>1, <4>2
    <3> QED
      BY <3>2, <3>3
  <2> QED
    BY <1>5, <2>2, <2>3, <2>4
<1>6. CASE type = "SOCK_STREAM"
  <2>1. Units(f, type) = body
    BY <1>3, <1>4, <1>6, ConcatEmptySeq
  <2>2. DOMAIN body = 1 .. f.len
    BY <1>3, LenProperties
  <2>3. ASSUME NEW i \in DOMAIN body
        PROVE  \E j \in Nat : body[i] = Unit(f, j) /\ (j = 0 => i = 1)
    <3>1. i \in Nat \ {0} /\ body[i] = Unit(f, i)
      BY <1>1, <1>3, <2>2
    <3> QED
      BY <3>1
  <2> QED
    BY <1>3, <1>6, <2>1, <2>3
<1> QED
  BY <1>5, <1>6 DEF Types

\* UnitsIn as a fold of a function.
add_units(s, type) ==
    [all \in Seq(Pieces) |-> [part \in Parts |->
       IF IsIpd(part) /\ part.sock = s THEN all \o Units(part, type) ELSE all]]

LEMMA AddUnits ==
    ASSUME NEW s, NEW type \in Types
    PROVE  /\ add_units(s, type) \in [Seq(Pieces) -> [Parts -> Seq(Pieces)]]
           /\ \A all \in Seq(Pieces), part \in Parts : add_units(s, type)[all][part]
                = IF IsIpd(part) /\ part.sock = s THEN all \o Units(part, type) ELSE all
<1>1. ASSUME NEW all \in Seq(Pieces), NEW part \in Parts
      PROVE  (IF IsIpd(part) /\ part.sock = s THEN all \o Units(part, type) ELSE all)
               \in Seq(Pieces)
  <2>1. CASE IsIpd(part) /\ part.sock = s
    <3>1. Units(part, type) \in Seq(Pieces)
      BY <2>1, PartKinds, UnitsOfFrame
    <3> QED
      BY <2>1, <3>1, ConcatProperties
  <2> QED
    BY <2>1
<1> QED
  BY <1>1 DEF add_units

LEMMA UnitsFold ==
    ASSUME NEW s, NEW type \in Types, NEW q \in Seq(Parts)
    PROVE  FoldsTo(UnitsIn(q, s, type), Seq(Pieces), add_units(s, type), << >>, Len(q), q)
<1> DEFINE n == Len(q)
           f == add_units(s, type)
           iter[r \in SUBSET DOMAIN q] ==
             IF r = {} THEN << >>
             ELSE LET i == Max(r)
                  IN  IF IsIpd(q[i]) /\ q[i].sock = s THEN iter[r \ {i}] \o Units(q[i], type)
                      ELSE iter[r \ {i}]
<1>1. n \in Nat /\ DOMAIN q = 1 .. n /\ q \in [1 .. n -> Parts] /\ << >> \in Seq(Pieces)
  BY LenProperties
<1>2. /\ f \in [Seq(Pieces) -> [Parts -> Seq(Pieces)]]
      /\ \A all \in Seq(Pieces), part \in Parts : f[all][part]
           = IF IsIpd(part) /\ part.sock = s THEN all \o Units(part, type) ELSE all
  BY AddUnits
<1>3. UnitsIn(q, s, type) = iter[DOMAIN q]
  BY DEF UnitsIn, FoldLeft, MapThenFoldSet
<1> HIDE DEF f
<1>4. \A r \in SUBSET (1 .. n) :
        iter[r] = IF r = {} THEN << >>
                  ELSE IF IsIpd(q[Max(r)]) /\ q[Max(r)].sock = s
                       THEN iter[r \ {Max(r)}] \o Units(q[Max(r)], type)
                       ELSE iter[r \ {Max(r)}]
  <2> DEFINE F(g) == [r \in SUBSET DOMAIN q |->
                        IF r = {} THEN << >>
                        ELSE LET i == Max(r)
                             IN  IF IsIpd(q[i]) /\ q[i].sock = s
                                 THEN g[r \ {i}] \o Units(q[i], type)
                                 ELSE g[r \ {i}]]
  <2>1. PICK g \in [SUBSET (1 .. n) -> Seq(Pieces)] : \A r \in SUBSET (1 .. n) :
               g[r] = IF r = {} THEN << >> ELSE f[g[r \ {Max(r)}]][q[Max(r)]]
    <3>1. \E g : FoldsSets(g, Seq(Pieces), f, << >>, n, q)
      <4> HIDE DEF n
      <4> QED
        BY <1>1, <1>2, FoldExists
    <3> QED
      BY <3>1 DEF FoldsSets
  <2>2. ASSUME NEW r \in SUBSET (1 .. n)
        PROVE  g[r] = IF r = {} THEN << >>
                      ELSE IF IsIpd(q[Max(r)]) /\ q[Max(r)].sock = s
                           THEN g[r \ {Max(r)}] \o Units(q[Max(r)], type)
                           ELSE g[r \ {Max(r)}]
    <3>1. CASE r = {}
      BY <2>1, <3>1
    <3>2. CASE r # {}
      <4>1. Max(r) \in r
        <5> HIDE DEF n
        <5> QED
          BY <1>1, <3>2, Greatest
      <4>2. g[r \ {Max(r)}] \in Seq(Pieces) /\ q[Max(r)] \in Parts
        BY <1>1, <4>1
      <4> QED
        BY <1>2, <2>1, <3>2, <4>2
    <3> QED
      BY <3>1, <3>2
  <2>3. g = F(g)
    BY <1>1, <2>2
  <2>4. iter = F(iter)
    <3>1. iter = CHOOSE h : h = F(h)
      OBVIOUS
    <3> HIDE DEF F, iter
    <3> QED
      BY <2>3, <3>1
  <2> HIDE DEF iter
  <2> QED
    BY <1>1, <2>4
<1> HIDE DEF iter
<1>5. FoldsInto(iter, Seq(Pieces), f, << >>, n, q)
  <2>1. ASSUME NEW r \in SUBSET (1 .. n), r # {} PROVE q[Max(r)] \in Parts
    <3> HIDE DEF n
    <3>1. Max(r) \in 1 .. n
      BY <1>1, <2>1, Greatest
    <3> QED
      BY <1>1, <3>1
  <2> QED
    BY <1>2, <1>4, <2>1, ZenonT(60) DEF FoldsInto
<1>6. FoldsTo(iter[1 .. n], Seq(Pieces), f, << >>, n, q)
  <2> HIDE DEF n
  <2> QED
    BY <1>1, <1>2, <1>5, FoldRuns
<1> QED
  BY <1>1, <1>3, <1>6 DEF f

\* The units of no parts, and of one part more.
LEMMA UnitsOfList ==
    ASSUME NEW s, NEW type \in Types
    PROVE  /\ UnitsIn(<< >>, s, type) = << >>
           /\ \A q \in Seq(Parts) : UnitsIn(q, s, type) \in Seq(Pieces)
           /\ \A q \in Seq(Parts), x \in Parts :
                UnitsIn(Append(q, x), s, type) =
                  IF IsIpd(x) /\ x.sock = s THEN UnitsIn(q, s, type) \o Units(x, type)
                  ELSE UnitsIn(q, s, type)
<1>1. UnitsIn(<< >>, s, type) = << >>
  <2>1. << >> \in Seq(Parts) /\ Len(<< >>) = 0
    OBVIOUS
  <2>2. FoldsTo(UnitsIn(<< >>, s, type), Seq(Pieces), add_units(s, type), << >>, 0, << >>)
    BY <2>1, UnitsFold
  <2> QED
    BY <2>2 DEF FoldsTo, FoldsUp
<1>2. ASSUME NEW q \in Seq(Parts), NEW x \in Parts
      PROVE  /\ UnitsIn(q, s, type) \in Seq(Pieces)
             /\ UnitsIn(Append(q, x), s, type) = add_units(s, type)[UnitsIn(q, s, type)][x]
  <2> DEFINE u == Append(q, x)
             S == Seq(Pieces)
             f == add_units(s, type)
             a == UnitsIn(q, s, type)
             b == UnitsIn(u, s, type)
  <2>1. u \in Seq(Parts)
    OBVIOUS
  <2>2. FoldsTo(a, S, f, << >>, Len(q), q) /\ FoldsTo(b, S, f, << >>, Len(u), u)
    <3> HIDE DEF u
    <3> QED
      BY <2>1, UnitsFold
  <2>3. Longer(u, q, x, Parts)
    BY DEF Longer
  <2>4. a \in S /\ b = f[a][x]
    <3> HIDE DEF S, a, b, u, f
    <3> QED
      BY <2>2, <2>3, FoldsFurther
  <2> QED
    BY <2>4
<1>3. \A q \in Seq(Parts) : UnitsIn(q, s, type) \in Seq(Pieces)
  <2>1. Answer("OK") \in Parts
    BY PartKinds DEF Texts
  <2> QED
    BY <1>2, <2>1
<1>4. ASSUME NEW q \in Seq(Parts), NEW x \in Parts
      PROVE  UnitsIn(Append(q, x), s, type) =
               IF IsIpd(x) /\ x.sock = s THEN UnitsIn(q, s, type) \o Units(x, type)
               ELSE UnitsIn(q, s, type)
  <2>1. PICK all \in Seq(Pieces) : all = UnitsIn(q, s, type)
    BY <1>3
  <2>2. add_units(s, type)[all][x]
          = IF IsIpd(x) /\ x.sock = s THEN all \o Units(x, type) ELSE all
    BY AddUnits
  <2>3. UnitsIn(Append(q, x), s, type) = add_units(s, type)[all][x]
    BY <1>2, <2>1
  <2> QED
    BY <2>1, <2>2, <2>3
<1> QED
  BY <1>1, <1>3, <1>4

\* A list is empty or a shorter one and an element more.
LEMMA LastOut ==
    ASSUME NEW S, NEW r \in Seq(S), NEW k \in Nat, Len(r) = k + 1
    PROVE  \E p \in Seq(S), x \in S : r = Append(p, x) /\ Len(p) = k
<1>1. r # << >>
  BY EmptySeq
<1>2. PICK p \in Seq(S), x \in S : r = Append(p, x)
  BY <1>1, SequenceEmptyOrAppend
<1>3. Len(p) \in Nat /\ Len(r) = Len(p) + 1
  BY <1>2, LenProperties, AppendProperties
<1> QED
  BY <1>2, <1>3

\* What follows is added at the end.
LEMMA UnitsSplit ==
    ASSUME NEW s, NEW type \in Types, NEW q \in Seq(Parts), NEW r \in Seq(Parts)
    PROVE  UnitsIn(q \o r, s, type) = UnitsIn(q, s, type) \o UnitsIn(r, s, type)
<1> DEFINE U(l) == UnitsIn(l, s, type)
           P(k) == \A l \in Seq(Parts) : Len(l) = k => U(q \o l) = U(q) \o U(l)
           T == {k \in Nat : P(k)}
<1>1. U(<< >>) = << >> /\ \A l \in Seq(Parts) : U(l) \in Seq(Pieces)
  BY UnitsOfList
<1>2. \A l \in Seq(Parts), x \in Parts :
        U(Append(l, x)) = IF IsIpd(x) /\ x.sock = s THEN U(l) \o Units(x, type) ELSE U(l)
  BY UnitsOfList
<1> HIDE DEF U
<1>3. P(0)
  <2> SUFFICES ASSUME NEW l \in Seq(Parts), Len(l) = 0 PROVE U(q \o l) = U(q) \o U(l)
    OBVIOUS
  <2>1. l = << >>
    BY EmptySeq
  <2>2. q \o << >> = q /\ U(q) \o << >> = U(q)
    BY <1>1, ConcatEmptySeq
  <2> QED
    BY <1>1, <2>1, <2>2
<1>4. ASSUME NEW k \in Nat, P(k) PROVE P(k + 1)
  <2> SUFFICES ASSUME NEW l \in Seq(Parts), Len(l) = k + 1 PROVE U(q \o l) = U(q) \o U(l)
    OBVIOUS
  <2>1. PICK p \in Seq(Parts), x \in Parts : l = Append(p, x) /\ Len(p) = k
    BY LastOut
  <2>2. U(q \o p) = U(q) \o U(p)
    BY <1>4, <2>1
  <2>3. q \o p \in Seq(Parts) /\ q \o l = Append(q \o p, x)
    <3>1. /\ q \o p \in Seq(Parts) /\ <<x>> \in Seq(Parts)
          /\ Append(p, x) = p \o <<x>>
      BY ConcatProperties, AppendIsConcat
    <3>2. Append(q \o p, x) = (q \o p) \o <<x>>
      BY <3>1, AppendIsConcat
    <3>3. (q \o p) \o <<x>> = q \o (p \o <<x>>)
      BY <3>1, ConcatAssociative, SMTT(60)
    <3> QED
      BY <2>1, <3>1, <3>2, <3>3
  <2>4. CASE IsIpd(x) /\ x.sock = s
    <3>1. Units(x, type) \in Seq(Pieces)
      BY <2>4, PartKinds, UnitsTyped
    <3>2. U(q \o l) = U(q \o p) \o Units(x, type) /\ U(l) = U(p) \o Units(x, type)
      BY <1>2, <2>1, <2>3, <2>4
    <3>3. (U(q) \o U(p)) \o Units(x, type) = U(q) \o (U(p) \o Units(x, type))
      BY <1>1, <3>1, ConcatAssociative, SMTT(60)
    <3> QED
      BY <2>2, <3>2, <3>3
  <2>5. CASE ~(IsIpd(x) /\ x.sock = s)
    BY <1>2, <2>1, <2>2, <2>3, <2>5
  <2> QED
    BY <2>4, <2>5
<1> HIDE DEF P
<1>5. 0 \in T /\ \A k \in Nat : k \in T => k + 1 \in T
  BY <1>3, <1>4
<1>6. Len(r) \in T
  <2> HIDE DEF T
  <2>1. \A k \in Nat : k \in T
    BY <1>5, Induction
  <2> QED
    BY <2>1, LenProperties
<1> QED
  BY <1>6 DEF U, P

\* Where there are no frames of a socket there are no units of it.
LEMMA UnitsNone ==
    ASSUME NEW s, NEW type \in Types, NEW r \in Seq(Parts),
           \A i \in DOMAIN r : ~(IsIpd(r[i]) /\ r[i].sock = s)
    PROVE  UnitsIn(r, s, type) = << >>
<1> DEFINE U(l) == UnitsIn(l, s, type)
           None(l) == \A i \in 1 .. Len(l) : ~(IsIpd(l[i]) /\ l[i].sock = s)
           P(k) == \A l \in Seq(Parts) : Len(l) = k /\ None(l) => U(l) = << >>
           T == {k \in Nat : P(k)}
<1>1. U(<< >>) = << >>
  BY UnitsOfList
<1>2. \A l \in Seq(Parts), x \in Parts :
        U(Append(l, x)) = IF IsIpd(x) /\ x.sock = s THEN U(l) \o Units(x, type) ELSE U(l)
  BY UnitsOfList
<1> HIDE DEF U
<1>3. P(0)
  BY <1>1, EmptySeq
<1>4. ASSUME NEW k \in Nat, P(k) PROVE P(k + 1)
  <2> SUFFICES ASSUME NEW l \in Seq(Parts), Len(l) = k + 1, None(l) PROVE U(l) = << >>
    OBVIOUS
  <2>1. PICK p \in Seq(Parts), x \in Parts : l = Append(p, x) /\ Len(p) = k
    BY LastOut
  <2>2. l[k + 1] = x /\ \A i \in 1 .. k : i \in 1 .. k + 1 /\ l[i] = p[i]
    BY <2>1, AppendProperties
  <2>3. None(p) /\ ~(IsIpd(x) /\ x.sock = s)
    BY <2>1, <2>2
  <2>4. U(p) = << >>
    BY <1>4, <2>1, <2>3
  <2> QED
    BY <1>2, <2>1, <2>3, <2>4
<1> HIDE DEF P
<1>5. 0 \in T /\ \A k \in Nat : k \in T => k + 1 \in T
  BY <1>3, <1>4
<1>6. Len(r) \in T
  <2> HIDE DEF T
  <2>1. \A k \in Nat : k \in T
    BY <1>5, Induction
  <2> QED
    BY <2>1, LenProperties
<1>7. None(r)
  BY LenProperties
<1> QED
  BY <1>6, <1>7 DEF U, P

\* The units of one part, and those of the first part of a list.
LEMMA UnitsOfOne ==
    ASSUME NEW s, NEW type \in Types
    PROVE  /\ \A x \in Parts : UnitsIn(<<x>>, s, type)
                = IF IsIpd(x) /\ x.sock = s THEN Units(x, type) ELSE << >>
           /\ \A q \in Seq(Parts) : q # << >> =>
                UnitsIn(q, s, type) =
                  UnitsIn(<<Head(q)>>, s, type) \o UnitsIn(Tail(q), s, type)
<1>1. ASSUME NEW x \in Parts
      PROVE  UnitsIn(<<x>>, s, type)
               = IF IsIpd(x) /\ x.sock = s THEN Units(x, type) ELSE << >>
  <2>1. PICK e : e = << >>
    OBVIOUS
  <2>2. e \in Seq(Parts) /\ Append(e, x) = <<x>> /\ UnitsIn(e, s, type) = e
    BY <2>1, UnitsOfList
  <2>3. UnitsIn(<<x>>, s, type) = IF IsIpd(x) /\ x.sock = s THEN e \o Units(x, type) ELSE e
    <3>1. UnitsIn(Append(e, x), s, type) =
            IF IsIpd(x) /\ x.sock = s THEN UnitsIn(e, s, type) \o Units(x, type)
            ELSE UnitsIn(e, s, type)
      BY <2>2, UnitsOfList, ZenonT(60)
    <3> QED
      BY <2>2, <3>1
  <2>4. CASE IsIpd(x) /\ x.sock = s
    <3>1. Units(x, type) \in Seq(Pieces)
      BY <2>4, PartKinds, UnitsTyped
    <3> QED
      BY <2>1, <2>3, <2>4, <3>1, ConcatEmptySeq
  <2> QED
    BY <2>1, <2>3, <2>4
<1>2. ASSUME NEW q \in Seq(Parts), q # << >>
      PROVE  UnitsIn(q, s, type) = UnitsIn(<<Head(q)>>, s, type) \o UnitsIn(Tail(q), s, type)
  <2>1. Head(q) \in Parts /\ Tail(q) \in Seq(Parts) /\ <<Head(q)>> \in Seq(Parts)
    BY <1>2, HeadTailProperties
  <2>2. q = <<Head(q)>> \o Tail(q)
    BY <1>2, <2>1, SubSeqFull, SubSeqRecursiveFirst, TailIsSubSeq, LenProperties, EmptySeq, Rest
  <2>3. PICK h \in Seq(Parts), t \in Seq(Parts) : h = <<Head(q)>> /\ t = Tail(q)
    BY <2>1
  <2>4. UnitsIn(h \o t, s, type) = UnitsIn(h, s, type) \o UnitsIn(t, s, type)
    BY UnitsSplit
  <2> QED
    BY <2>2, <2>3, <2>4
<1> QED
  BY <1>1, <1>2

-----------------------------------------------------------------------------
(* What a stream carries *)

\* Nothing was dropped: then no frame is with a sender, and what came on the
\* connection of every socket of the table is in its place.
NoFrames(q) == \A i \in DOMAIN q : ~IsIpd(q[i])
IsStream(s) == s # 0 /\ sock[s].type = "SOCK_STREAM"
Arriving(s) == UnitsIn(Pend, s, "SOCK_STREAM")
Came(s) == UnitsIn(hist[s].peer, s, "SOCK_STREAM")
Intact(s) == hist[s].got \o sock[s].rcvRing \o Arriving(s) = Came(s)
Complete ==
    /\ NoFrames(at.resp) /\ \A a \in Apps : deal[a].parts = << >>
    /\ \A fd \in Fds : IsStream(sockArray[fd]) => Intact(sockArray[fd])

Smooth == InStep /\ trouble \cap {"full", "swallowed", "appended"} = {}
Streams == Smooth => Complete

Mixed == Pieces \cup Seq(Pieces)

LEMMA FlowTyped ==
    ASSUME Typed, NEW s \in 1 .. Len(sock)
    PROVE  /\ hist[s].got \in Seq(Mixed) /\ sock[s].rcvRing \in Seq(Mixed)
           /\ Arriving(s) \in Seq(Mixed) /\ Came(s) \in Seq(Mixed)
           /\ sock[s].rcvRing \in Seq(Pieces) /\ hist[s].peer \in Seq(Parts)
<1>1. Pieces \subseteq Mixed /\ Ipds \subseteq Parts
  BY DEF Mixed, Parts
<1>2. /\ hist[s].got \in Seq(Mixed) /\ sock[s].rcvRing \in Seq(Pieces)
      /\ hist[s].peer \in Seq(Ipds) /\ Pend \in Seq(Parts)
  BY ASocket, PendParts DEF Mixed
<1>3. hist[s].peer \in Seq(Parts)
  BY <1>1, <1>2, SeqMonotonic
<1>4. Arriving(s) \in Seq(Pieces) /\ Came(s) \in Seq(Pieces)
  BY <1>2, <1>3, UnitsOfList DEF Arriving, Came, Types
<1> QED
  BY <1>1, <1>2, <1>3, <1>4, SeqMonotonic

\* A step that moves nothing of a stream.
Same(s) ==
    /\ hist'[s].got = hist[s].got /\ hist'[s].peer = hist[s].peer
    /\ sock'[s].rcvRing = sock[s].rcvRing

LEMMA SameFlow ==
    ASSUME NEW s, Intact(s), Same(s), Arriving(s)' = Arriving(s)
    PROVE  Intact(s)'
<1>1. Came(s)' = Came(s)
  BY DEF Came, Same
<1> QED
  BY <1>1 DEF Intact, Same

LEMMA ItsSame ==
    ASSUME Typed, NEW a \in Apps, AppStep(a) \/ SendStep(a), NEW t \in 1 .. Len(sock)
    PROVE  Same(t)
<1>1. sock[t] \in Sockets /\ t \in DOMAIN sock
  BY ASocket
<1>2. ASSUME NEW s, NEW v, sock' = [sock EXCEPT ![s].isConnect = v]
      PROVE  sock'[t].rcvRing = sock[t].rcvRing
  BY <1>1, <1>2 DEF Sockets
<1>3. ASSUME NEW s, NEW v,
             hist' = [hist EXCEPT ![s].offered = v] \/ hist' = [hist EXCEPT ![s].acked = v]
      PROVE  hist'[t].got = hist[t].got /\ hist'[t].peer = hist[t].peer
  <2>1. CASE hist' = [hist EXCEPT ![s].offered = v]
    BY <2>1, Recorded
  <2>2. CASE hist' = [hist EXCEPT ![s].acked = v]
    BY <2>2, Recorded
  <2> QED
    BY <1>3, <2>1, <2>2
<1>4. send_fails(a) => \E s, v : sock' = [sock EXCEPT ![s].isConnect = v]
  BY DEF send_fails
<1>5. send_succeeds(a) => \E s, v : hist' = [hist EXCEPT ![s].acked = v]
  BY DEF send_succeeds
<1>6. CASE AppStep(a)
  <2>1. hist' = hist /\ sock' = sock
    BY <1>6 DEF AppStep, Esp8266Close, close_return, data_command, Esp8266Connect,
                Esp8266GetHostByName, lookup_return, sockets
  <2> QED
    BY <2>1 DEF Same
<1>7. CASE connect_return(a)
  <2>1. hist' = hist /\ (sock' = sock \/ \E s, v : sock' = [sock EXCEPT ![s].isConnect = v])
    BY <1>7 DEF connect_return
  <2> QED
    BY <1>2, <2>1 DEF Same
<1>8. CASE Esp8266Send(a)
  <2>1. sock' = sock /\ \E s, v : hist' = [hist EXCEPT ![s].offered = v]
    BY <1>8 DEF Esp8266Send, sockets
  <2> QED
    BY <1>3, <2>1 DEF Same
<1>9. CASE cipsend_return(a)
  <2>1. hist' = hist /\ (sock' = sock \/ \E s, v : sock' = [sock EXCEPT ![s].isConnect = v])
    BY <1>4, <1>9 DEF cipsend_return
  <2> QED
    BY <1>2, <2>1 DEF Same
<1>10. CASE data_return(a) \/ send_return(a)
  <2>1. /\ hist' = hist \/ \E s, v : hist' = [hist EXCEPT ![s].acked = v]
        /\ sock' = sock \/ \E s, v : sock' = [sock EXCEPT ![s].isConnect = v]
    BY <1>4, <1>5, <1>10 DEF data_return, send_return, sockets
  <2> QED
    BY <1>2, <1>3, <2>1 DEF Same
<1> QED
  BY <1>6, <1>7, <1>8, <1>9, <1>10 DEF SendStep

\* A part of a list that changes sides.
LEMMA Moved ==
    ASSUME NEW S, NEW g \in Seq(S), NEW x \in Seq(S), NEW y \in Seq(S)
    PROVE  \A r, u : r = x \o y => (g \o x) \o y \o u = g \o r \o u
<1>1. (g \o x) \o y = g \o (x \o y)
  BY ConcatAssociative
<1> QED
  BY <1>1

\* What Esp8266Recv returns is what it takes out of the ring buffer.
LEMMA RecvIntact ==
    ASSUME Basics, NEW a \in Apps, Esp8266Recv(a), Pend' = Pend,
           NEW t \in 1 .. Len(sock), sock[t].type = "SOCK_STREAM", Intact(t)
    PROVE  Intact(t)'
<1>1. Typed /\ Owners /\ Owns(a)
  BY DEF Basics, Owners
<1>2. Arriving(t)' = Arriving(t)
  BY DEF Arriving
<1>3. PICK s : s = app[a].sock
  OBVIOUS
<1>4. s \in 1 .. Len(sock) /\ s # 0
  BY <1>1, <1>3, OwnSocket DEF Esp8266Recv
<1> DEFINE ring == sock[s].rcvRing
<1>5. PICK n \in 1 .. Len(ring) :
        /\ sock' = [sock EXCEPT ![s].rcvRing = SubSeq(ring, n + 1, Len(ring))]
        /\ IF sock[s].type = "SOCK_STREAM"
           THEN hist' = [hist EXCEPT ![s].got = hist[s].got \o SubSeq(ring, 1, n)]
           ELSE \E v : hist' = [hist EXCEPT ![s].got = v] \/ hist' = hist
  BY <1>3 DEF Esp8266Recv
<1>6. /\ sock[t] \in Sockets /\ t \in DOMAIN sock /\ hist[t] \in Histories /\ t \in DOMAIN hist
  BY <1>1, ASocket
<1>7. CASE s # t
  <2>1. sock'[t] = sock[t] /\ hist'[t] = hist[t]
    BY <1>5, <1>6, <1>7
  <2> QED
    BY <1>2, <2>1, SameFlow DEF Same
<1>8. CASE s = t
  <2> DEFINE x == SubSeq(ring, 1, n)
             y == SubSeq(ring, n + 1, Len(ring))
             g == hist[t].got
             u == Arriving(t)
  <2>1. hist' = [hist EXCEPT ![t].got = g \o x] /\ sock' = [sock EXCEPT ![t].rcvRing = y]
    BY <1>5, <1>8
  <2>2. /\ g \in Seq(Mixed) /\ ring \in Seq(Mixed) /\ u \in Seq(Mixed)
    BY <1>1, <1>8, FlowTyped
  <2>3. x \in Seq(Mixed) /\ y \in Seq(Mixed) /\ x \o y = ring
    <3> HIDE DEF ring
    <3>1. Len(ring) \in Nat /\ n \in Nat /\ 1 \in 1 .. Len(ring) + 1 /\ n \in 1 - 1 .. Len(ring)
          /\ Len(ring) \in n .. Len(ring) /\ n + 1 \in Nat \ {0} /\ n <= Len(ring)
      BY <2>2, LenProperties
    <3>2. SubSeq(ring, 1, n) \o SubSeq(ring, n + 1, Len(ring)) = SubSeq(ring, 1, Len(ring))
      BY <2>2, <3>1, ConcatAdjacentSubSeq
    <3>3. SubSeq(ring, 1, Len(ring)) = ring
      BY <2>2, SubSeqFull
    <3>4. x \in Seq(Mixed) /\ y \in Seq(Mixed)
      BY <2>2, <3>1, Portion
    <3> QED
      BY <3>2, <3>3, <3>4
  <2> HIDE DEF x, y
  <2>4. hist'[t].got = g \o x /\ hist'[t].peer = hist[t].peer /\ sock'[t].rcvRing = y
    BY <1>6, <2>1 DEF Histories, Sockets
  <2>5. Came(t)' = Came(t)
    BY <2>4 DEF Came
  <2>6. g \o ring \o u = Came(t)
    BY <1>8 DEF Intact
  <2> HIDE DEF g, u, ring
  <2>7. (g \o x) \o y \o u = g \o ring \o u
    <3>1. g \in Seq(Mixed) /\ x \in Seq(Mixed) /\ y \in Seq(Mixed)
      BY <2>2, <2>3
    <3>2. \A r, v : r = x \o y => (g \o x) \o y \o v = g \o r \o v
      BY <3>1, Moved
    <3>3. ring = x \o y
      BY <2>3
    <3> QED
      BY <3>2, <3>3
  <2>8. (g \o x) \o y \o Arriving(t)' = Came(t)'
    BY <1>2, <2>5, <2>6, <2>7 DEF u
  <2> QED
    BY <2>4, <2>8 DEF Intact, g
<1> QED
  BY <1>7, <1>8

\* The units of the first part come first.
LEMMA UnitsOfHead ==
    ASSUME NEW s, NEW type \in Types, NEW q \in Seq(Parts), q # << >>, NEW r \in Seq(Parts)
    PROVE  /\ UnitsIn(q \o r, s, type)
                = UnitsIn(<<Head(q)>>, s, type) \o UnitsIn(Tail(q) \o r, s, type)
           /\ UnitsIn(<<Head(q)>>, s, type) \in Seq(Pieces)
           /\ UnitsIn(Tail(q) \o r, s, type) \in Seq(Pieces)
<1>1. PICK h \in Seq(Parts), t \in Seq(Parts) : h = <<Head(q)>> /\ t = Tail(q)
  <2>1. Head(q) \in Parts /\ Tail(q) \in Seq(Parts)
    BY HeadTailProperties
  <2>2. <<Head(q)>> \in Seq(Parts)
    BY <2>1
  <2> QED
    BY <2>1, <2>2
<1> DEFINE U(l) == UnitsIn(l, s, type)
<1>2. U(q) = U(h) \o U(t)
  BY <1>1, UnitsOfOne
<1>3. U(q \o r) = U(q) \o U(r)
  BY UnitsSplit
<1>4. U(t \o r) = U(t) \o U(r) /\ t \o r \in Seq(Parts)
  BY UnitsSplit, ConcatProperties
<1>5. \A l \in Seq(Parts) : U(l) \in Seq(Pieces)
  BY UnitsOfList
<1> HIDE DEF U
<1>6. (U(h) \o U(t)) \o U(r) = U(h) \o (U(t) \o U(r))
  <2>1. PICK a \in Seq(Pieces), b \in Seq(Pieces), c \in Seq(Pieces) :
               a = U(h) /\ b = U(t) /\ c = U(r)
    BY <1>5
  <2>2. (a \o b) \o c = a \o (b \o c)
    BY ConcatAssociative, SMTT(60)
  <2> QED
    BY <2>1, <2>2
<1>7. U(q \o r) = U(h) \o U(t \o r)
  BY <1>2, <1>3, <1>4, <1>6
<1> QED
  BY <1>1, <1>4, <1>5, <1>7 DEF U

\* A part of what came that changes sides.
Chain(g, r) == g \o r
LEMMA MovedOn ==
    \A g, r, u, v \in Seq(Mixed) :
      /\ Chain(Chain(g, Chain(r, u)), v) = Chain(Chain(g, r), Chain(u, v))
      /\ Chain(g, Chain(r, u)) = Chain(Chain(g, r), u)
<1> TAKE g, r, u, v \in Seq(Mixed)
<1>1. g \o (r \o u) = (g \o r) \o u
  BY ConcatAssociative
<1>2. g \o r \in Seq(Mixed)
  BY ConcatProperties
<1>3. ((g \o r) \o u) \o v = (g \o r) \o (u \o v)
  BY <1>2, ConcatAssociative, SMTT(60)
<1> QED
  BY <1>1, <1>3 DEF Chain

\* The receive task writes what comes next.
LEMMA WriteIntact ==
    ASSUME Basics, Typed', Dealt, MsgDealWrite(Rcv), NEW t \in 1 .. Len(sock),
           sock[t].type = "SOCK_STREAM", Intact(t)
    PROVE  Intact(t)'
<1>1. Typed /\ Dealings /\ Rcv \in Workers /\ t \in DOMAIN sock /\ sock[t] \in Sockets
  BY ASocket DEF Basics, Workers
<1>2. PICK s, q, f : s = deal[Rcv].sock /\ q = deal[Rcv].parts /\ f = Head(q)
  OBVIOUS
<1>3. /\ s # 0 /\ s \in 1 .. Len(sock) /\ s = f.sock /\ Fits(f, s)
      /\ q # << >> /\ IsIpd(f) /\ q \in Seq(Parts)
  <2>1. s # 0 /\ deal[Rcv] \in DealStates
    BY <1>1, <1>2 DEF MsgDealWrite, Typed
  <2>2. /\ q # << >> /\ IsIpd(f) /\ s <= Len(sock) /\ Fits(f, s) /\ s = f.sock
    BY <1>1, <1>2, <2>1 DEF Dealings, Dealing, Dealt
  <2>3. s \in Nat /\ q \in Seq(Parts) /\ Len(sock) \in Nat
    BY <1>1, <1>2, <2>1, LenProperties DEF DealStates, Typed
  <2> QED
    BY <2>1, <2>2, <2>3
<1>4. f \in Ipds /\ f \in Parts
  BY <1>2, <1>3, HeadTailProperties, PartKinds
<1> DEFINE units == Units(f, sock[s].type)
<1>5. /\ sock' = [sock EXCEPT ![s].rcvRing = Written(s, units)]
      /\ deal' = [deal EXCEPT ![Rcv].parts = Tail(q), ![Rcv].sock = 0]
      /\ hist' = hist /\ uart' = uart
  BY <1>2 DEF MsgDealWrite, modem
<1>6. Pend = q \o uart /\ Pend' = Tail(q) \o uart /\ uart \in Seq(Parts)
  BY <1>1, <1>2, <1>5 DEF Pend, Typed, DealStates
<1> DEFINE h == UnitsIn(<<f>>, t, "SOCK_STREAM")
<1>7. /\ Arriving(t) = h \o Arriving(t)' /\ h \in Seq(Pieces) /\ Arriving(t)' \in Seq(Pieces)
  BY <1>2, <1>3, <1>6, UnitsOfHead, ZenonT(60) DEF Arriving, Types
<1>8. Came(t)' = Came(t)
  BY <1>5 DEF Came
<1>9. h = IF f.sock = t THEN Units(f, "SOCK_STREAM") ELSE << >>
  BY <1>3, <1>4, UnitsOfOne DEF Types
<1> HIDE DEF units, h
<1>10. CASE s # t
  <2>1. sock'[t] = sock[t]
    BY <1>1, <1>5, <1>10
  <2>2. h = << >>
    BY <1>3, <1>9, <1>10
  <2>3. Arriving(t) = Arriving(t)'
    BY <1>7, <2>2, ConcatEmptySeq
  <2> QED
    BY <1>5, <2>1, <2>3, SameFlow DEF Same
<1>11. CASE s = t
  <2>1. h = units
    BY <1>3, <1>9, <1>11 DEF units
  <2>2. units \in Seq(Pieces) /\ Len(units) <= Room(t)
    <3>1. units \in Seq(Pieces) /\ Len(units) = f.len
      BY <1>4, <1>11, PartKinds, UnitsOfFrame DEF units, Types
    <3> QED
      BY <1>3, <1>11, <3>1 DEF Fits
  <2>3. Written(t, units) = sock[t].rcvRing \o units
    BY <1>1, <2>2, WrittenTyped
  <2>4. sock'[t].rcvRing = sock[t].rcvRing \o units
    BY <1>1, <1>5, <1>11, <2>3 DEF Sockets
  <2>5. PICK g, r, v : g = hist[t].got /\ r = sock[t].rcvRing /\ v = Arriving(t)'
    OBVIOUS
  <2>6. /\ g \in Seq(Mixed) /\ r \in Seq(Mixed) /\ units \in Seq(Mixed) /\ v \in Seq(Mixed)
    <3>1. Pieces \subseteq Mixed
      BY DEF Mixed
    <3>2. g \in Seq(Mixed) /\ r \in Seq(Mixed)
      BY <1>1, <2>5, FlowTyped
    <3> QED
      BY <1>7, <2>2, <2>5, <3>1, <3>2, SeqMonotonic
  <2>7. g \o (r \o units) \o v = g \o r \o (units \o v)
    <3>1. Chain(Chain(g, Chain(r, units)), v) = Chain(Chain(g, r), Chain(units, v))
      BY <2>6, MovedOn
    <3> QED
      BY <3>1 DEF Chain
  <2>8. g \o r \o Arriving(t) = Came(t) /\ Arriving(t) = units \o v
    BY <1>7, <2>1, <2>5 DEF Intact
  <2>9. hist'[t].got \o sock'[t].rcvRing \o Arriving(t)' = Came(t)'
    <3>1. hist'[t].got = g
      BY <1>5, <2>5
    <3>2. sock'[t].rcvRing = r \o units
      BY <2>4, <2>5
    <3>3. g \o (r \o units) \o v = Came(t)
      BY <2>7, <2>8
    <3> QED
      BY <1>8, <2>5, <3>1, <3>2, <3>3
  <2> QED
    BY <2>9 DEF Intact
<1> QED
  BY <1>10, <1>11

\* The other steps of Esp8266MsgDeal: as long as nothing is dropped the first
\* one moves nothing, and the last one drops only answers.
LEMMA RestIntact ==
    ASSUME Basics, Typed', Complete, Smooth', NEW w \in Workers,
           MsgDealSingle(w) \/ MsgDealRest(w), NEW t \in 1 .. Len(sock), Intact(t)
    PROVE  Intact(t)'
<1>1. Typed /\ Rcv \in Workers /\ deal \in [Workers -> DealStates]
  BY DEF Basics, Typed, Workers
<1>2. w = Rcv
  <2>1. deal[w].parts # << >>
    BY DEF MsgDealSingle, MsgDealRest
  <2> QED
    BY <2>1 DEF Complete, Workers
<1>3. uart' = uart /\ sock' = sock /\ hist' = hist
  BY DEF MsgDealSingle, MsgDealRest, modem, sockets
<1>4. Arriving(t)' = Arriving(t)
  <2>1. CASE MsgDealSingle(w)
    <3>1. "full" \notin trouble'
      BY DEF Smooth
    <3>2. PICK s : deal' = [deal EXCEPT ![Rcv].sock = s]
      BY <1>2, <2>1, <3>1 DEF MsgDealSingle
    <3>3. deal'[Rcv].parts = deal[Rcv].parts
      BY <1>1, <3>2 DEF DealStates
    <3>4. Pend' = Pend
      BY <1>3, <3>3 DEF Pend
    <3> QED
      BY <3>4 DEF Arriving
  <2>2. CASE MsgDealRest(w)
    <3>1. "swallowed" \notin trouble'
      BY DEF Smooth
    <3>2. PICK q : q = deal[Rcv].parts
      OBVIOUS
    <3>3. ~HasIpd(q) /\ deal' = [deal EXCEPT ![Rcv].parts = << >>]
      BY <1>2, <2>2, <3>1, <3>2 DEF MsgDealRest
    <3>4. deal'[Rcv].parts = << >> /\ q \in Seq(Parts) /\ uart \in Seq(Parts)
      BY <1>1, <3>2, <3>3 DEF DealStates, Typed
    <3>5. Pend = q \o uart /\ Pend' = << >> \o uart
      BY <1>3, <3>2, <3>4 DEF Pend
    <3>6. Pend' = uart
      BY <3>4, <3>5, ConcatEmptySeq
    <3> DEFINE U(l) == UnitsIn(l, t, "SOCK_STREAM")
    <3>7. U(q) = << >>
      BY <3>3, <3>4, UnitsNone DEF HasIpd, Types
    <3>8. U(Pend) = U(q) \o U(uart) /\ U(uart) \in Seq(Pieces)
      BY <3>4, <3>5, UnitsSplit, UnitsOfList DEF Types
    <3> HIDE DEF U
    <3>9. U(Pend) = U(uart)
      BY <3>7, <3>8, ConcatEmptySeq
    <3> QED
      BY <3>6, <3>9 DEF Arriving, U
  <2> QED
    BY <2>1, <2>2
<1> QED
  BY <1>3, <1>4, SameFlow DEF Same

\* What the receive task reads goes to Esp8266MsgDeal or has no frames.
LEMMA ReadIntact ==
    ASSUME Basics, Typed', Complete, Smooth', NEW n \in 1 .. MaxChunk, rcv_task(n)
    PROVE  /\ NoFrames(at'.resp) /\ \A a \in Apps : deal'[a].parts = << >>
           /\ \A t \in 1 .. Len(sock) : Intact(t) => Intact(t)'
<1>1. /\ Typed /\ Rcv \in Workers /\ deal \in [Workers -> DealStates] /\ uart \in Seq(Parts)
      /\ n \in Nat \ {0} /\ Rcv \notin Apps /\ at \in AtStates
  <2>1. MaxChunk \in Nat /\ Rcv \notin Apps
    BY Bounds
  <2>2. n \in Nat \ {0}
    BY <2>1
  <2> QED
    BY <2>1, <2>2 DEF Basics, Typed, Workers
<1>2. PICK chunk, rest : chunk = SubSeq(uart, 1, n) /\ rest = SubSeq(uart, n + 1, Len(uart))
  OBVIOUS
<1>3. /\ deal[Rcv].parts = << >> /\ n <= Len(uart) /\ uart' = rest
      /\ sock' = sock /\ hist' = hist
  BY <1>2 DEF rcv_task, sockets
<1>4. chunk \in Seq(Parts) /\ rest \in Seq(Parts) /\ chunk \o rest = uart
  <2>1. Len(uart) \in Nat
    BY <1>1, LenProperties
  <2>2. chunk \in Seq(Parts) /\ rest \in Seq(Parts)
    BY <1>1, <1>2, <1>3, <2>1, Portion
  <2>3. 1 \in 1 .. Len(uart) + 1 /\ n \in 1 - 1 .. Len(uart) /\ Len(uart) \in n .. Len(uart)
    BY <1>1, <1>3, <2>1
  <2>4. SubSeq(uart, 1, n) \o SubSeq(uart, n + 1, Len(uart)) = SubSeq(uart, 1, Len(uart))
    BY <1>1, <2>3, ConcatAdjacentSubSeq
  <2> QED
    BY <1>1, <1>2, <2>2, <2>4, SubSeqFull
<1>5. Pend = uart
  BY <1>1, <1>3, ConcatEmptySeq DEF Pend
<1>6. CASE IsIpd(chunk[1])
  <2>1. deal' = [deal EXCEPT ![Rcv].parts = chunk] /\ at' = at
    BY <1>2, <1>6 DEF rcv_task
  <2>2. deal'[Rcv].parts = chunk /\ \A a \in Apps : deal'[a] = deal[a]
    BY <1>1, <2>1 DEF DealStates, Workers
  <2>3. Pend' = Pend
    BY <1>3, <1>4, <1>5, <2>2 DEF Pend
  <2>4. \A t \in 1 .. Len(sock) : Arriving(t)' = Arriving(t)
    BY <2>3 DEF Arriving
  <2> QED
    BY <1>3, <2>1, <2>2, <2>4, SameFlow DEF Same, Complete
<1>7. CASE ~IsIpd(chunk[1])
  <2> DEFINE matches == at.task # Nobody /\ Finds(chunk, at.index)
  <2>1. /\ at' = IF matches THEN [at EXCEPT !.resp = chunk] ELSE at
        /\ trouble' = trouble \cup
             (IF ~HasIpd(chunk) THEN {}
              ELSE IF matches /\ at.index = "SEND OK" THEN {"appended"}
              ELSE {"swallowed"})
        /\ deal' = deal
    BY <1>2, <1>7 DEF rcv_task
  <2> HIDE DEF matches
  <2>2. ~HasIpd(chunk)
    <3>1. "appended" \notin trouble' /\ "swallowed" \notin trouble'
      BY DEF Smooth
    <3> QED
      BY <2>1, <3>1
  <2>3. NoFrames(at'.resp)
    <3>1. NoFrames(chunk)
      BY <2>2 DEF NoFrames, HasIpd
    <3>2. at'.resp = chunk \/ at' = at
      BY <1>1, <2>1 DEF AtStates
    <3> QED
      BY <3>1, <3>2 DEF Complete
  <2>4. Pend' = rest
    BY <1>3, <1>4, <2>1, ConcatEmptySeq DEF Pend
  <2>5. ASSUME NEW t \in 1 .. Len(sock) PROVE Arriving(t)' = Arriving(t)
    <3> DEFINE U(l) == UnitsIn(l, t, "SOCK_STREAM")
    <3>1. U(chunk) = << >>
      BY <1>4, <2>2, UnitsNone DEF HasIpd, Types
    <3>2. U(chunk \o rest) = U(chunk) \o U(rest) /\ U(rest) \in Seq(Pieces)
      BY <1>4, UnitsSplit, UnitsOfList DEF Types
    <3> HIDE DEF U
    <3>3. U(chunk \o rest) = U(rest)
      BY <3>1, <3>2, ConcatEmptySeq
    <3> QED
      BY <1>4, <1>5, <2>4, <3>3 DEF Arriving, U
  <2> QED
    BY <1>3, <2>1, <2>3, <2>5, SameFlow DEF Same, Complete
<1> QED
  BY <1>6, <1>7

\* What the modem writes comes last.
LEMMA UnitsOfLast ==
    ASSUME Typed, NEW x \in Parts, uart' = Append(uart, x), deal'[Rcv] = deal[Rcv], NEW t
    PROVE  Arriving(t)' = IF IsIpd(x) /\ x.sock = t
                          THEN Arriving(t) \o Units(x, "SOCK_STREAM") ELSE Arriving(t)
<1>1. Pend \in Seq(Parts) /\ uart \in Seq(Parts) /\ deal[Rcv].parts \in Seq(Parts)
  BY PendParts
<1>2. PICK q, r : q = deal[Rcv].parts /\ r = uart
  OBVIOUS
<1>3. q \in Seq(Parts) /\ r \in Seq(Parts) /\ Pend = q \o r /\ Pend' = q \o Append(r, x)
  BY <1>1, <1>2 DEF Pend
<1>4. Append(r, x) = r \o <<x>> /\ <<x>> \in Seq(Parts) /\ q \o r \in Seq(Parts)
  BY <1>3, AppendIsConcat, ConcatProperties
<1>5. Append(q \o r, x) = (q \o r) \o <<x>>
  BY <1>4, AppendIsConcat
<1>6. (q \o r) \o <<x>> = q \o (r \o <<x>>)
  BY <1>3, <1>4, ConcatAssociative
<1>7. Pend' = Append(Pend, x)
  BY <1>3, <1>4, <1>5, <1>6
<1>8. UnitsIn(Append(Pend, x), t, "SOCK_STREAM") =
        IF IsIpd(x) /\ x.sock = t THEN UnitsIn(Pend, t, "SOCK_STREAM") \o Units(x, "SOCK_STREAM")
        ELSE UnitsIn(Pend, t, "SOCK_STREAM")
  BY <1>1, UnitsOfList DEF Types
<1> QED
  BY <1>7, <1>8 DEF Arriving

LEMMA ModemIntact ==
    ASSUME Basics, modem_data \/ modem_command, NEW t \in 1 .. Len(sock), Intact(t)
    PROVE  Intact(t)'
<1>1. Typed
  BY DEF Basics
<1>2. PICK text \in Texts : uart' = Append(uart, Answer(text))
  BY DEF modem_data, modem_command, Texts
<1>3. deal' = deal /\ sock' = sock
  BY DEF modem_data, modem_command, sockets
<1>4. Answer(text) \in Parts /\ ~IsIpd(Answer(text))
  BY PartKinds
<1>5. Arriving(t)' = Arriving(t)
  BY <1>1, <1>2, <1>3, <1>4, UnitsOfLast
<1>6. hist'[t].got = hist[t].got /\ hist'[t].peer = hist[t].peer
  <2>1. CASE modem_data
    <3>1. \E s, v : hist' = [hist EXCEPT ![s].net = v]
      BY <2>1 DEF modem_data
    <3> QED
      BY <1>1, <3>1, Recorded
  <2>2. CASE modem_command
    BY <2>2 DEF modem_command, history
  <2> QED
    BY <2>1, <2>2
<1> QED
  BY <1>3, <1>5, <1>6, SameFlow DEF Same

\* What a peer sends comes behind what it sent before.
LEMMA PeerIntact ==
    ASSUME Basics, NEW fd \in Fds, NEW len \in Lens, peer_sends(fd, len),
           NEW t \in 1 .. Len(sock), Intact(t)
    PROVE  Intact(t)'
<1>1. Typed /\ hist[t] \in Histories /\ t \in DOMAIN hist
  BY ASocket DEF Basics
<1>2. PICK s : s = link[fd]
  OBVIOUS
<1>3. s \in 1 .. Len(sock)
  BY <1>1, <1>2, LenProperties DEF peer_sends, Typed
<1>4. PICK f : f = Ipd(fd, s, Len(hist[s].peer) + 1, len)
  OBVIOUS
<1>5. /\ uart' = Append(uart, f) /\ deal' = deal /\ sock' = sock
      /\ hist' = [hist EXCEPT ![s].peer = Append(hist[s].peer, f)]
  BY <1>2, <1>4 DEF peer_sends, sockets
<1>6. f \in Parts /\ IsIpd(f) /\ f.sock = s
  <2>1. s \in Nat /\ Len(hist[s].peer) + 1 \in Nat
    BY <1>1, <1>3, ASocket, LenProperties
  <2> QED
    BY <1>4, <2>1, PartKinds
<1>7. hist'[t].got = hist[t].got
  BY <1>1, <1>5, Recorded
<1>8. CASE s # t
  <2>1. hist'[t] = hist[t]
    BY <1>1, <1>5, <1>8
  <2>2. Arriving(t)' = Arriving(t)
    BY <1>1, <1>5, <1>6, <1>8, UnitsOfLast
  <2> QED
    BY <1>5, <2>1, <2>2, SameFlow DEF Same
<1>9. CASE s = t
  <2> DEFINE units == Units(f, "SOCK_STREAM")
  <2>1. Arriving(t)' = Arriving(t) \o units
    BY <1>1, <1>5, <1>6, <1>9, UnitsOfLast
  <2>2. hist'[t].peer = Append(hist[t].peer, f)
    BY <1>1, <1>5, <1>9 DEF Histories
  <2>3. hist[t].peer \in Seq(Parts)
    BY <1>1, FlowTyped
  <2>4. Came(t)' = Came(t) \o units
    <3>1. PICK p \in Seq(Parts) : p = hist[t].peer
      BY <2>3
    <3>2. UnitsIn(Append(p, f), t, "SOCK_STREAM")
            = IF IsIpd(f) /\ f.sock = t
              THEN UnitsIn(p, t, "SOCK_STREAM") \o Units(f, "SOCK_STREAM")
              ELSE UnitsIn(p, t, "SOCK_STREAM")
      BY <1>6, UnitsOfList DEF Types
    <3> QED
      BY <1>6, <1>9, <2>2, <3>1, <3>2 DEF Came
  <2>5. units \in Seq(Mixed)
    <3>1. units \in Seq(Pieces) /\ Pieces \subseteq Mixed
      BY <1>6, PartKinds, UnitsTyped DEF Types, Mixed
    <3> QED
      BY <3>1, SeqMonotonic
  <2> HIDE DEF units
  <2>6. PICK g \in Seq(Mixed), r \in Seq(Mixed), v \in Seq(Mixed), u \in Seq(Mixed) :
          g = hist[t].got /\ r = sock[t].rcvRing /\ v = Arriving(t) /\ u = units
    BY <1>1, <2>5, FlowTyped
  <2>7. Chain(Chain(g, Chain(r, v)), u) = Chain(Chain(g, r), Chain(v, u))
    BY MovedOn
  <2>8. Chain(g, Chain(r, v)) = Chain(Chain(g, r), v)
    BY MovedOn
  <2>9. Chain(Chain(g, r), v) = Came(t)
    BY <2>6 DEF Intact, Chain
  <2>10. Chain(Chain(g, r), Chain(v, u)) = Chain(Came(t), u)
    BY <2>7, <2>8, <2>9
  <2>11. g \o r \o (v \o u) = Came(t) \o u
    BY <2>10 DEF Chain
  <2>12. hist'[t].got = g /\ sock'[t].rcvRing = r /\ Arriving(t)' = v \o u
         /\ Came(t)' = Came(t) \o u
    BY <1>5, <1>7, <2>1, <2>4, <2>6
  <2>13. hist'[t].got \o sock'[t].rcvRing \o Arriving(t)' = Came(t)'
    BY <2>11, <2>12
  <2> QED
    BY <2>13 DEF Intact
<1> QED
  BY <1>8, <1>9

TableIntact == \A fd \in Fds : IsStream(sockArray[fd]) => Intact(sockArray[fd])

LEMMA StandingIntact ==
    ASSUME Basics, Standing, TableIntact,
           \A t \in 1 .. Len(sock) : sock[t].type = "SOCK_STREAM" /\ Intact(t) => Intact(t)'
    PROVE  TableIntact'
<1> SUFFICES ASSUME NEW fd \in Fds, sockArray'[fd] # 0,
                    sock'[sockArray'[fd]].type = "SOCK_STREAM"
             PROVE  Intact(sockArray[fd])'
  BY DEF TableIntact, IsStream
<1>1. PICK t : t = sockArray[fd]
  OBVIOUS
<1>2. sockArray'[fd] = t /\ t # 0
  BY <1>1 DEF Standing
<1>3. t \in 1 .. Len(sock)
  BY <1>1, <1>2, LenProperties DEF Basics, Typed
<1>4. sock[t].type = "SOCK_STREAM"
  BY <1>2, <1>3 DEF Standing
<1>5. Intact(t)
  BY <1>1, <1>2, <1>4 DEF TableIntact, IsStream
<1>6. Intact(t)'
  BY <1>3, <1>4, <1>5
<1> QED
  BY <1>2, <1>6 DEF Intact, Arriving, Came

\* A new socket has received nothing, and nothing is under way for it.
LEMMA SocketIntact ==
    ASSUME Basics, Typed', TableIntact, NEW a \in Apps, NEW type \in Types,
           NEW garbage \in BOOLEAN, Esp8266Socket(a, type, garbage)
    PROVE  TableIntact'
<1>1. /\ Typed /\ Genuine /\ sock \in Seq(Sockets) /\ hist \in Seq(Histories)
      /\ Len(sock) \in Nat /\ Len(hist) = Len(sock)
      /\ sockArray \in [Fds -> 0 .. Len(sock)]
  BY LenProperties DEF Basics, Typed
<1>2. PICK fd \in Unused :
         /\ sock' = Append(sock, [fd |-> fd, type |-> type, isConnect |-> garbage,
                                  rcvRing |-> << >>, live |-> TRUE])
         /\ sockArray' = [sockArray EXCEPT ![fd] = Len(sock) + 1]
  BY DEF Esp8266Socket
<1>3. /\ hist' = Append(hist, [peer |-> << >>, got |-> << >>, offered |-> 0,
                               acked |-> {}, net |-> << >>])
      /\ deal' = deal /\ uart' = uart
  BY DEF Esp8266Socket, modem
<1>4. Pend' = Pend
  BY <1>3 DEF Pend
<1>5. ASSUME NEW t \in 1 .. Len(sock), Intact(t) PROVE Intact(t)'
  <2>1. sock'[t] = sock[t] /\ hist'[t] = hist[t]
    BY <1>1, <1>2, <1>3, AppendProperties
  <2> QED
    BY <1>4, <1>5, <2>1, SameFlow DEF Same, Arriving
<1>6. PICK n : n = Len(sock) + 1
  OBVIOUS
<1>7. Intact(n)'
  <2>1. sock'[n].rcvRing = << >> /\ hist'[n].got = << >> /\ hist'[n].peer = << >>
    <3>1. /\ sock'[n] = [fd |-> fd, type |-> type, isConnect |-> garbage,
                         rcvRing |-> << >>, live |-> TRUE]
          /\ hist'[n] = [peer |-> << >>, got |-> << >>, offered |-> 0, acked |-> {},
                         net |-> << >>]
      BY <1>1, <1>2, <1>3, <1>6, AppendProperties
    <3> QED
      BY <3>1
  <2>2. \A i \in DOMAIN Pend : ~(IsIpd(Pend[i]) /\ Pend[i].sock = n)
    <3>1. \A q : AllFromPeer(q, hist) =>
             \A i \in DOMAIN q : ~(IsIpd(q[i]) /\ q[i].sock = n)
      <4>1. DOMAIN hist = 1 .. Len(sock) /\ n \notin 1 .. Len(sock)
        BY <1>1, <1>6, LenProperties
      <4> QED
        BY <4>1 DEF AllFromPeer, FromPeer
    <3>2. AllFromPeer(uart, hist) /\ AllFromPeer(deal[Rcv].parts, hist)
      BY <1>1 DEF Genuine, Workers
    <3>3. ASSUME NEW i \in DOMAIN Pend
          PROVE  \/ \E j \in DOMAIN deal[Rcv].parts : Pend[i] = deal[Rcv].parts[j]
                 \/ \E j \in DOMAIN uart : Pend[i] = uart[j]
      <4> DEFINE q == deal[Rcv].parts
      <4>1. /\ Len(q) \in Nat /\ Len(uart) \in Nat /\ i \in 1 .. Len(q) + Len(uart)
            /\ DOMAIN q = 1 .. Len(q) /\ DOMAIN uart = 1 .. Len(uart)
            /\ \A j \in DOMAIN q : Pend[j] = q[j]
            /\ \A j \in DOMAIN uart : Pend[Len(q) + j] = uart[j]
        BY <1>1, PendParts
      <4> HIDE DEF q
      <4>2. CASE i <= Len(q)
        <5>1. i \in DOMAIN q
          BY <4>1, <4>2
        <5> QED
          BY <4>1, <5>1 DEF q
      <4>3. CASE ~(i <= Len(q))
        <5>1. i - Len(q) \in DOMAIN uart /\ Len(q) + (i - Len(q)) = i
          BY <4>1, <4>3
        <5>2. Pend[i] = uart[i - Len(q)]
          BY <4>1, <5>1
        <5> QED
          BY <5>1, <5>2
      <4> QED
        BY <4>2, <4>3
    <3> QED
      BY <3>1, <3>2, <3>3
  <2>3. Arriving(n) = << >>
    BY <1>1, <2>2, PendParts, UnitsNone DEF Arriving, Types
  <2>4. Arriving(n)' = << >>
    BY <1>4, <2>3 DEF Arriving
  <2>5. Came(n)' = << >>
    BY <2>1, UnitsOfList DEF Came, Types
  <2>6. << >> \o << >> \o << >> = << >>
    BY ConcatEmptySeq, EmptySeq
  <2> QED
    BY <2>1, <2>4, <2>5, <2>6 DEF Intact
<1>8. ASSUME NEW x \in Fds, sockArray'[x] # 0, sock'[sockArray'[x]].type = "SOCK_STREAM"
      PROVE  Intact(sockArray[x])'
  <2>1. CASE x = fd
    <3>1. sockArray'[x] = n
      BY <1>1, <1>2, <1>6, <2>1
    <3> QED
      BY <1>7, <3>1 DEF Intact, Arriving, Came
  <2>2. CASE x # fd
    <3>1. PICK t : t = sockArray[x]
      OBVIOUS
    <3>2. sockArray'[x] = t /\ t # 0
      BY <1>1, <1>2, <1>8, <2>2, <3>1
    <3>3. t \in 1 .. Len(sock)
      BY <1>1, <3>1, <3>2
    <3>4. sock'[t] = sock[t]
      BY <1>1, <1>2, <3>3, AppendProperties
    <3>5. Intact(t)
      BY <1>8, <3>1, <3>2, <3>4 DEF TableIntact, IsStream
    <3>6. Intact(t)'
      BY <1>5, <3>3, <3>5
    <3> QED
      BY <3>2, <3>6 DEF Intact, Arriving, Came
  <2> QED
    BY <2>1, <2>2
<1> QED
  BY <1>8 DEF TableIntact, IsStream

\* The socket that goes leaves the table.
LEMMA FreeIntact ==
    ASSUME Basics, TableIntact, NEW a \in Apps, Esp8266SockFree(a)
    PROVE  TableIntact'
<1>1. /\ Typed /\ Owners /\ Owns(a) /\ sockArray \in [Fds -> 0 .. Len(sock)]
      /\ Len(sock) \in Nat
  BY LenProperties DEF Basics, Owners, Typed
<1>2. PICK s, y : s = app[a].sock /\ y = MySock(a).fd
  OBVIOUS
<1>3. s # 0 /\ s \in 1 .. Len(sock) /\ y \in Fds /\ sock[s].fd = y
  <2>1. app[a].sock # 0
    BY <1>1 DEF Owns, Esp8266SockFree
  <2> QED
    BY <1>1, <1>2, <2>1, OwnSocket DEF MySock
<1>4. /\ sockArray' = [sockArray EXCEPT ![y] = 0] /\ uart' = uart /\ deal' = deal
      /\ hist' = hist
      /\ sock' = [sock EXCEPT ![s].live = FALSE, ![s].rcvRing = << >>]
  BY <1>2 DEF Esp8266SockFree, modem, history
<1>5. Pend' = Pend
  BY <1>4 DEF Pend
<1>6. ASSUME NEW x \in Fds, sockArray'[x] # 0, sock'[sockArray'[x]].type = "SOCK_STREAM"
      PROVE  Intact(sockArray[x])'
  <2>1. x # y
    BY <1>1, <1>4, <1>6
  <2>2. PICK t : t = sockArray[x]
    OBVIOUS
  <2>3. sockArray'[x] = t /\ t # 0
    BY <1>1, <1>4, <1>6, <2>1, <2>2
  <2>4. t \in 1 .. Len(sock)
    BY <1>1, <2>2, <2>3
  <2>5. sock[t].fd = x
    BY <1>1, <2>2, <2>3 DEF Owners, Entry
  <2>6. t # s
    BY <1>3, <2>1, <2>5
  <2>7. sock'[t] = sock[t]
    BY <1>1, <1>4, <2>4, <2>6, ASocket
  <2>8. Intact(t)
    BY <1>6, <2>2, <2>3, <2>7 DEF TableIntact, IsStream
  <2>9. Intact(t)'
    BY <1>4, <1>5, <2>7, <2>8, SameFlow DEF Same, Arriving
  <2> QED
    BY <2>3, <2>9 DEF Intact, Arriving, Came
<1> QED
  BY <1>6 DEF TableIntact, IsStream

\* What a step of an application leaves with the senders.
LEMMA ItsComplete ==
    ASSUME Basics, Together, InStep', Complete, NEW a \in Apps, ItsStep(a), Standing
    PROVE  Complete'
<1>1. Typed /\ Owns(a) /\ Asked
  BY DEF Basics, Owners, Together
<1>2. Pend' = Pend /\ (AsksNow(a) \/ EndsNow(a) \/ RestsNow(a))
  BY <1>1, Effects
<1>3. NoFrames(at'.resp)
  <2>1. DOMAIN << >> = {}
    OBVIOUS
  <2>2. at'.resp = << >> \/ at' = at
    <3>1. NoCommand.resp = << >>
      BY DEF NoCommand
    <3> QED
      BY <1>2, <3>1 DEF AsksNow, EndsNow, RestsNow
  <2> QED
    BY <2>1, <2>2 DEF NoFrames, Complete
<1>4. ASSUME NEW b \in Apps PROVE deal'[b].parts = << >>
  <2>1. ~HasIpd(at.resp)
    BY DEF Complete, NoFrames, HasIpd
  <2>2. deal' = deal
    BY <1>2, <2>1 DEF AsksNow, EndsNow, RestsNow
  <2> QED
    BY <2>2 DEF Complete
<1>5. TableIntact'
  <2>1. ASSUME NEW t \in 1 .. Len(sock), sock[t].type = "SOCK_STREAM", Intact(t)
        PROVE  Intact(t)'
    <3>1. CASE Esp8266Recv(a)
      BY <1>2, <2>1, <3>1, RecvIntact
    <3>2. CASE AppStep(a) \/ SendStep(a)
      BY <1>1, <1>2, <2>1, <3>2, ItsSame, SameFlow DEF Arriving
    <3> QED
      BY <3>1, <3>2 DEF ItsStep
  <2>2. TableIntact
    BY DEF Complete, TableIntact
  <2> QED
    BY <2>1, <2>2, StandingIntact
<1> QED
  BY <1>3, <1>4, <1>5 DEF Complete, TableIntact

\* A step in Esp8266MsgDeal.
LEMMA DealComplete ==
    ASSUME Basics, Typed', Dealt, Smooth', Complete, NEW w \in Workers, Esp8266MsgDeal(w),
           Standing
    PROVE  Complete'
<1>1. Typed /\ Dealings /\ deal \in [Workers -> DealStates]
  BY DEF Basics, Typed
<1>2. w = Rcv
  <2>1. deal[w].parts # << >>
    BY <1>1 DEF Esp8266MsgDeal, MsgDealSingle, MsgDealWrite, MsgDealRest, Dealings, Dealing
  <2> QED
    BY <2>1 DEF Complete, Workers
<1>3. at' = at /\ \A b \in Apps : deal'[b] = deal[b]
  <2>1. Rcv \notin Apps
    BY Bounds
  <2>2. at' = at
    BY DEF Esp8266MsgDeal, MsgDealSingle, MsgDealWrite, MsgDealRest
  <2>3. \A b \in Apps : deal'[b] = deal[b]
    BY <1>1, <1>2, <2>1
       DEF Esp8266MsgDeal, MsgDealSingle, MsgDealWrite, MsgDealRest, DealStates, Workers
  <2> QED
    BY <2>2, <2>3
<1>4. ASSUME NEW t \in 1 .. Len(sock), sock[t].type = "SOCK_STREAM", Intact(t)
      PROVE  Intact(t)'
  BY <1>2, <1>4, WriteIntact, RestIntact DEF Esp8266MsgDeal
<1>5. TableIntact'
  <2>1. TableIntact
    BY DEF Complete, TableIntact
  <2> QED
    BY <1>4, <2>1, StandingIntact
<1> QED
  BY <1>3, <1>5 DEF Complete, TableIntact

LEMMA StreamsKept ==
    ASSUME Basics, Exchange, Streams, [Next]_vars
    PROVE  Streams'
<1> SUFFICES ASSUME Smooth' PROVE Complete'
  BY DEF Streams
<1>1. /\ Typed /\ Owners /\ Dealings /\ Typed' /\ trouble \subseteq trouble'
  BY TroubleStays, BasicsKept DEF Basics
<1>2. InStep' /\ InStep /\ Smooth
  BY <1>1 DEF Smooth, InStep
<1>3. Together /\ Dealt /\ Complete /\ TableIntact
  BY <1>2 DEF Exchange, Streams, Complete, TableIntact
<1>4. CASE \E a \in Apps, type \in Types, garbage \in BOOLEAN : Esp8266Socket(a, type, garbage)
  <2>1. at' = at /\ deal' = deal
    BY <1>4 DEF Esp8266Socket
  <2>2. TableIntact'
    BY <1>1, <1>3, <1>4, SocketIntact
  <2> QED
    BY <1>3, <2>1, <2>2 DEF Complete, TableIntact
<1>5. CASE \E a \in Apps : Esp8266SockFree(a)
  <2>1. at' = at /\ deal' = deal
    BY <1>5 DEF Esp8266SockFree
  <2>2. TableIntact'
    BY <1>3, <1>5, FreeIntact
  <2> QED
    BY <1>3, <2>1, <2>2 DEF Complete, TableIntact
<1>6. CASE /\ ~\E a \in Apps : Esp8266SockFree(a)
           /\ ~\E a \in Apps, type \in Types, garbage \in BOOLEAN :
                Esp8266Socket(a, type, garbage)
  <2>1. Standing
    BY <1>1, <1>6, Stands
  <2>2. ASSUME NEW a \in Apps, ItsStep(a) PROVE Complete'
    BY <1>2, <1>3, <2>1, <2>2, ItsComplete
  <2>3. ASSUME NEW w \in Workers, Esp8266MsgDeal(w) PROVE Complete'
    BY <1>1, <1>3, <2>1, <2>3, DealComplete
  <2>4. ASSUME NEW n \in 1 .. MaxChunk, rcv_task(n) PROVE Complete'
    <3>1. /\ NoFrames(at'.resp) /\ \A a \in Apps : deal'[a].parts = << >>
          /\ \A t \in 1 .. Len(sock) : Intact(t) => Intact(t)'
      BY <1>1, <1>3, <2>4, ReadIntact
    <3>2. TableIntact'
      BY <1>3, <2>1, <3>1, StandingIntact
    <3> QED
      BY <3>1, <3>2 DEF Complete, TableIntact
  <2>5. CASE \/ modem_data \/ modem_command
             \/ \E fd \in Fds, len \in StreamLens \cup DatagramLens : peer_sends(fd, len)
             \/ UNCHANGED vars
    <3>1. at' = at /\ deal' = deal
      BY <2>5 DEF modem_data, modem_command, peer_sends, vars
    <3>2. ASSUME NEW t \in 1 .. Len(sock), Intact(t) PROVE Intact(t)'
      <4>1. CASE modem_data \/ modem_command
        BY <3>2, <4>1, ModemIntact
      <4>2. CASE \E fd \in Fds, len \in StreamLens \cup DatagramLens : peer_sends(fd, len)
        BY <3>2, <4>2, PeerIntact DEF Lens
      <4>3. CASE UNCHANGED vars
        <5>1. Same(t) /\ Arriving(t)' = Arriving(t)
          BY <4>3 DEF vars, modem, sockets, history, Same, Arriving, Pend
        <5> QED
          BY <3>2, <5>1, SameFlow
      <4> QED
        BY <2>5, <4>1, <4>2, <4>3
    <3>3. TableIntact'
      BY <1>3, <2>1, <3>2, StandingIntact
    <3> QED
      BY <1>3, <3>1, <3>3 DEF Complete, TableIntact
  <2> QED
    BY <1>6, <2>2, <2>3, <2>4, <2>5, Steps
<1> QED
  BY <1>4, <1>5, <1>6

LEMMA StreamsInit ==
    ASSUME Init
    PROVE  Streams
<1>1. at.resp = << >> /\ DOMAIN << >> = {}
  <2>1. at = NoCommand /\ NoCommand.resp = << >>
    BY DEF Init, NoCommand
  <2> QED
    BY <2>1
<1>2. (\A a \in Apps : deal[a].parts = << >>) /\ \A fd \in Fds : sockArray[fd] = 0
  BY DEF Init
<1> QED
  BY <1>1, <1>2 DEF Streams, Complete, NoFrames, IsStream

-----------------------------------------------------------------------------
(* What a ring buffer of datagrams holds *)

\* A list of two cut where the first one ends.
Cuts(r, u, v, n) ==
    /\ SubSeq(r, n + 1, Len(r)) = v
    /\ SubSeq(r, 2, n) = Tail(u)
    /\ Len(r) = n + Len(v) /\ r[1] = u[1]

LEMMA Cut ==
    ASSUME NEW S, NEW u \in Seq(S), NEW v \in Seq(S), NEW n \in Nat, n >= 2, Len(u) = n,
           NEW r, r = Chain(u, v)
    PROVE  Cuts(r, u, v, n)
<1>0. r = u \o v
  BY DEF Chain
<1>1. Len(v) \in Nat /\ r \in Seq(S) /\ Len(r) = n + Len(v)
  BY <1>0, LenProperties, ConcatProperties
<1>2. SubSeq(r, n + 1, Len(r)) = v
  <2>1. CASE Len(v) = 0
    <3>1. v = << >>
      BY <2>1, EmptySeq
    <3>2. SubSeq(r, n + 1, Len(r)) = << >>
      <4>1. n + 1 \in Nat \ {0} /\ ~(n + 1 <= Len(r)) /\ Len(r) \in Nat
        BY <1>1, <2>1
      <4>2. SubSeq(r, n + 1, Len(r)) \in Seq(S) /\ Len(SubSeq(r, n + 1, Len(r))) = 0
        BY <1>1, <4>1, Portion
      <4> QED
        BY <4>2, EmptySeq
    <3> QED
      BY <3>1, <3>2
  <2>2. CASE Len(v) # 0
    <3>1. /\ n + 1 \in Len(u) + 1 .. Len(u) + Len(v) /\ Len(r) \in Len(u) + 1 .. Len(u) + Len(v)
          /\ n + 1 - Len(u) = 1 /\ Len(r) - Len(u) = Len(v)
      BY <1>1, <2>2
    <3>2. SubSeq(u \o v, n + 1, Len(r)) = SubSeq(v, n + 1 - Len(u), Len(r) - Len(u))
      BY <3>1, SubSeqOfConcat2
    <3>3. SubSeq(u \o v, n + 1, Len(r)) = SubSeq(v, 1, Len(v))
      BY <3>1, <3>2
    <3> QED
      BY <1>0, <3>3, SubSeqFull
  <2> QED
    BY <2>1, <2>2
<1>3. SubSeq(r, 2, n) = Tail(u)
  <2>1. 2 \in 1 .. Len(u) /\ n \in 1 .. Len(u) /\ u # << >>
    BY EmptySeq
  <2>2. SubSeq(u \o v, 2, n) = SubSeq(u, 2, n)
    BY <2>1, SubSeqOfConcat1
  <2>3. Tail(u) = SubSeq(u, 2, Len(u))
    BY <2>1, TailIsSubSeq
  <2> QED
    BY <1>0, <2>2, <2>3
<1>4. r[1] = u[1]
  BY <1>0, Concatenated
<1> QED
  BY <1>1, <1>2, <1>3, <1>4 DEF Cuts

\* The ring buffer holds whole datagrams that came for the socket, and whole
\* ones were returned.
CameFor(f, s) == \E k \in DOMAIN hist[s].peer : hist[s].peer[k] = f
Consists(q, s) ==
    /\ \A i \in DOMAIN q : IsIpd(q[i]) /\ q[i].sock = s /\ CameFor(q[i], s)
    /\ sock[s].rcvRing = UnitsIn(q, s, "SOCK_DGRAM")
Returned(x, s) == \E f \in Ipds : CameFor(f, s) /\ x = Tail(Units(f, "SOCK_DGRAM"))
Whole(s) ==
    /\ \E q \in Seq(Parts) : Consists(q, s)
    /\ \A j \in DOMAIN hist[s].got : Returned(hist[s].got[j], s)
Roomy == InStep /\ "tight" \notin trouble
Grams == Roomy => \A s \in 1 .. Len(sock) : sock[s].type = "SOCK_DGRAM" => Whole(s)

LEMMA StillCame ==
    ASSUME HistGrows, NEW t \in 1 .. Len(sock), NEW f, CameFor(f, t)
    PROVE  CameFor(f, t)'
BY DEF HistGrows, CameFor

LEMMA WholeSame ==
    ASSUME HistGrows, NEW t \in 1 .. Len(sock), Whole(t),
           sock'[t].rcvRing = sock[t].rcvRing, hist'[t].got = hist[t].got
    PROVE  Whole(t)'
<1>1. PICK q \in Seq(Parts) : Consists(q, t)
  BY DEF Whole
<1>2. Consists(q, t)'
  BY <1>1, StillCame DEF Consists
<1>3. ASSUME NEW j \in DOMAIN hist'[t].got PROVE Returned(hist[t].got[j], t)'
  <2>1. PICK x : x = hist[t].got[j]
    OBVIOUS
  <2>2. Returned(x, t)
    BY <2>1 DEF Whole
  <2>3. Returned(x, t)'
    BY <2>2, StillCame DEF Returned
  <2>4. hist'[t].got[j] = x
    BY <2>1
  <2> QED
    BY <2>3, <2>4 DEF Returned, CameFor
<1> QED
  BY <1>2, <1>3 DEF Whole

\* A frame that a task writes is one that the peer of the socket sent.
LEMMA ToBeWritten ==
    ASSUME Basics, Dealt, NEW w \in Workers, deal[w].sock # 0
    PROVE  /\ deal[w].parts \in Seq(Parts) /\ deal[w].parts # << >>
           /\ Head(deal[w].parts) \in Ipds /\ Head(deal[w].parts) \in Parts
           /\ IsIpd(Head(deal[w].parts))
           /\ Head(deal[w].parts).sock = deal[w].sock /\ deal[w].sock \in 1 .. Len(sock)
           /\ CameFor(Head(deal[w].parts), deal[w].sock)
<1>1. Typed /\ Dealings /\ Genuine /\ deal[w] \in DealStates
  BY DEF Basics, Typed
<1>2. PICK q : q = deal[w].parts
  OBVIOUS
<1>3. /\ q # << >> /\ IsIpd(Head(q)) /\ deal[w].sock <= Len(sock)
      /\ deal[w].sock = Head(q).sock
  BY <1>1, <1>2 DEF Dealings, Dealing, Dealt
<1>4. q \in Seq(Parts) /\ deal[w].sock \in 1 .. Len(sock)
  <2>1. q \in Seq(Parts) /\ deal[w].sock \in Nat /\ Len(sock) \in Nat
    BY <1>1, <1>2, LenProperties DEF DealStates, Typed
  <2> QED
    BY <1>3, <2>1
<1>5. Head(q) \in Parts /\ Head(q) = q[1] /\ 1 \in DOMAIN q
  BY <1>3, <1>4, Rest
<1>6. Head(q) \in Ipds
  BY <1>3, <1>5, PartKinds
<1>7. CameFor(Head(q), deal[w].sock)
  <2>1. FromPeer(q[1], hist)
    BY <1>1, <1>2, <1>5 DEF Genuine, AllFromPeer
  <2> QED
    BY <1>3, <1>5, <2>1 DEF FromPeer, CameFor
<1> QED
  BY <1>2, <1>3, <1>4, <1>5, <1>6, <1>7

\* A datagram that there is room for is written as a whole.
LEMMA WriteWhole ==
    ASSUME Basics, HistGrows, Dealt, "tight" \notin trouble', NEW w \in Workers,
           MsgDealWrite(w), NEW t \in 1 .. Len(sock), sock[t].type = "SOCK_DGRAM", Whole(t)
    PROVE  Whole(t)'
<1>1. Typed /\ t \in DOMAIN sock /\ sock[t] \in Sockets
  BY ASocket DEF Basics
<1>2. PICK s, f : s = deal[w].sock /\ f = Head(deal[w].parts)
  OBVIOUS
<1>3. /\ f \in Ipds /\ f \in Parts /\ IsIpd(f) /\ f.sock = s /\ s \in 1 .. Len(sock)
      /\ CameFor(f, s)
  BY <1>2, ToBeWritten DEF MsgDealWrite
<1> DEFINE units == Units(f, sock[s].type)
<1>4. /\ sock' = [sock EXCEPT ![s].rcvRing = Written(s, units)] /\ hist' = hist
      /\ Len(units) > Room(s) => "tight" \in trouble'
  BY <1>2 DEF MsgDealWrite
<1>5. CASE s # t
  <2>1. sock'[t] = sock[t]
    BY <1>1, <1>4, <1>5
  <2> QED
    BY <1>4, <2>1, WholeSame
<1>6. CASE s = t
  <2>1. units = Units(f, "SOCK_DGRAM")
    BY <1>6
  <2> HIDE DEF units
  <2>2. units \in Seq(Pieces) /\ Len(units) \in Nat
    BY <1>3, <2>1, UnitsTyped, LenProperties DEF Types
  <2>3. Len(units) <= Room(t)
    <3>1. Room(t) \in Int
      <4>1. Len(sock[t].rcvRing) \in 0 .. RCVCACHE /\ RCVCACHE \in Nat
        BY <1>1, ASocket, Bounds
      <4> QED
        BY <4>1 DEF Room
    <3> QED
      BY <1>4, <1>6, <2>2, <3>1
  <2>4. sock'[t].rcvRing = sock[t].rcvRing \o units
    <3>1. Written(t, units) = sock[t].rcvRing \o units
      BY <1>1, <2>2, <2>3, WrittenTyped
    <3> QED
      BY <1>1, <1>4, <1>6, <3>1 DEF Sockets
  <2>5. PICK q \in Seq(Parts) : Consists(q, t)
    BY DEF Whole
  <2>6. PICK p : p = Append(q, f)
    OBVIOUS
  <2>7. /\ p \in Seq(Parts) /\ DOMAIN p = 1 .. Len(q) + 1 /\ DOMAIN q = 1 .. Len(q)
        /\ Len(q) \in Nat /\ p[Len(q) + 1] = f /\ \A i \in 1 .. Len(q) : p[i] = q[i]
    BY <1>3, <2>6, AppendProperties, LenProperties
  <2>8. UnitsIn(p, t, "SOCK_DGRAM") = sock'[t].rcvRing
    <3>1. UnitsIn(p, t, "SOCK_DGRAM")
            = IF IsIpd(f) /\ f.sock = t
              THEN UnitsIn(q, t, "SOCK_DGRAM") \o Units(f, "SOCK_DGRAM")
              ELSE UnitsIn(q, t, "SOCK_DGRAM")
      BY <1>3, <2>6, UnitsOfList DEF Types
    <3> QED
      BY <1>3, <1>6, <2>1, <2>4, <2>5, <3>1 DEF Consists
  <2>9. ASSUME NEW i \in DOMAIN p PROVE IsIpd(p[i]) /\ p[i].sock = t /\ CameFor(p[i], t)
    <3>1. CASE i = Len(q) + 1
      BY <1>3, <1>6, <2>7, <3>1
    <3>2. CASE i # Len(q) + 1
      <4>1. i \in DOMAIN q /\ p[i] = q[i]
        BY <2>7, <2>9, <3>2
      <4> QED
        BY <2>5, <4>1 DEF Consists
    <3> QED
      BY <3>1, <3>2
  <2>10. Consists(p, t)'
    BY <1>4, <2>8, <2>9 DEF Consists, CameFor
  <2>11. (\A j \in DOMAIN hist[t].got : Returned(hist[t].got[j], t))'
    BY <1>4 DEF Whole, Returned, CameFor
  <2> QED
    BY <2>7, <2>10, <2>11 DEF Whole
<1> QED
  BY <1>5, <1>6

\* Esp8266Recv returns the datagram that is first in the ring buffer.
LEMMA RecvWhole ==
    ASSUME Basics, HistGrows, NEW a \in Apps, Esp8266Recv(a),
           NEW t \in 1 .. Len(sock), sock[t].type = "SOCK_DGRAM", Whole(t)
    PROVE  Whole(t)'
<1>1. /\ Typed /\ Owns(a) /\ sock[t] \in Sockets /\ t \in DOMAIN sock
      /\ hist[t] \in Histories /\ t \in DOMAIN hist
  <2>1. Typed /\ Owns(a)
    BY DEF Basics, Owners
  <2> QED
    BY <2>1, ASocket
<1>2. PICK s, ring : s = app[a].sock /\ ring = sock[s].rcvRing
  OBVIOUS
<1>3. PICK n \in 1 .. Len(ring) :
        /\ sock' = [sock EXCEPT ![s].rcvRing = SubSeq(ring, n + 1, Len(ring))]
        /\ sock[s].type = "SOCK_STREAM" =>
             hist' = [hist EXCEPT ![s].got = hist[s].got \o SubSeq(ring, 1, n)]
        /\ sock[s].type # "SOCK_STREAM" =>
             /\ EndsAt(ring, n)
             /\ hist' = IF n = 1 THEN hist
                        ELSE [hist EXCEPT ![s].got = hist[s].got \o <<SubSeq(ring, 2, n)>>]
  BY <1>2 DEF Esp8266Recv
<1>4. ring # << >>
  BY <1>2 DEF Esp8266Recv
<1>5. CASE s # t
  <2>1. sock'[t] = sock[t] /\ hist'[t] = hist[t]
    BY <1>1, <1>3, <1>5
  <2> QED
    BY <2>1, WholeSame
<1>6. CASE s = t
  <2>1. PICK q \in Seq(Parts) : Consists(q, t)
    BY DEF Whole
  <2>2. ring = UnitsIn(q, t, "SOCK_DGRAM")
    BY <1>2, <1>6, <2>1 DEF Consists
  <2>3. q # << >>
    BY <1>4, <2>2, UnitsOfList DEF Types
  <2>4. PICK f, rest, u, v :
          /\ f = Head(q) /\ rest = Tail(q) /\ u = Units(f, "SOCK_DGRAM")
          /\ v = UnitsIn(rest, t, "SOCK_DGRAM")
    OBVIOUS
  <2>5. /\ f \in Parts /\ f = q[1] /\ 1 \in DOMAIN q /\ rest \in Seq(Parts)
        /\ \A i \in DOMAIN rest : i + 1 \in DOMAIN q /\ rest[i] = q[i + 1]
    BY <2>3, <2>4, Rest
  <2>6. IsIpd(f) /\ f.sock = t /\ CameFor(f, t)
    BY <2>1, <2>5 DEF Consists
  <2>7. f \in Ipds /\ f.len \in Nat \ {0}
    BY <2>5, <2>6, PartKinds
  <2>8. /\ u \in Seq(Pieces) /\ Len(u) = f.len + 1 /\ u[1] = Unit(f, 0)
        /\ v \in Seq(Pieces)
    BY <2>4, <2>5, <2>7, UnitsOfFrame, UnitsOfList DEF Types
  <2>9. ring = u \o v
    <3>1. UnitsIn(<<f>>, t, "SOCK_DGRAM") = u
      BY <2>4, <2>5, <2>6, UnitsOfOne DEF Types
    <3>2. UnitsIn(q, t, "SOCK_DGRAM") = UnitsIn(<<f>>, t, "SOCK_DGRAM") \o v
      BY <2>3, <2>4, UnitsOfOne DEF Types
    <3> QED
      BY <2>2, <3>1, <3>2
  <2>10. PICK m \in Nat : m = f.len + 1 /\ m >= 2
    BY <2>7
  <2>11. /\ SubSeq(ring, m + 1, Len(ring)) = v /\ SubSeq(ring, 2, m) = Tail(u)
         /\ Len(ring) = m + Len(v) /\ ring[1] = Unit(f, 0)
    <3>1. Len(u) = m /\ u \in Seq(Pieces) /\ v \in Seq(Pieces)
      BY <2>8, <2>10
    <3>2. ring = Chain(u, v)
      BY <2>9 DEF Chain
    <3>3. Cuts(ring, u, v, m)
      BY <2>10, <3>1, <3>2, Cut
    <3> QED
      BY <2>8, <3>3 DEF Cuts
  <2>12. n = m
    <3>1. ring[1].i = 0 /\ ring[1].len = f.len
      BY <2>11 DEF Unit
    <3>2. Len(v) \in Nat /\ f.len < Len(ring)
      BY <2>7, <2>8, <2>10, <2>11, LenProperties
    <3>3. EndsAt(ring, n)
      BY <1>3, <1>6
    <3>4. n = 1 + f.len
      BY <3>1, <3>2, <3>3 DEF EndsAt
    <3> QED
      BY <2>7, <2>10, <3>4
  <2>13. sock'[t].rcvRing = v
    BY <1>1, <1>3, <1>6, <2>11, <2>12 DEF Sockets
  <2>14. PICK x : x = Tail(u)
    OBVIOUS
  <2>15. hist'[t].got = hist[t].got \o <<x>>
    <3>1. n # 1
      BY <2>10, <2>12
    <3>2. hist' = [hist EXCEPT ![t].got = hist[t].got \o <<x>>]
      BY <1>3, <1>6, <2>11, <2>12, <2>14, <3>1
    <3> QED
      BY <1>1, <3>2 DEF Histories
  <2>16. Consists(rest, t)'
    <3>1. ASSUME NEW i \in DOMAIN rest
          PROVE  IsIpd(rest[i]) /\ rest[i].sock = t /\ CameFor(rest[i], t)'
      <4>1. IsIpd(rest[i]) /\ rest[i].sock = t /\ CameFor(rest[i], t)
        BY <2>1, <2>5 DEF Consists
      <4> QED
        BY <4>1, StillCame
    <3> QED
      BY <2>4, <2>13, <3>1 DEF Consists
  <2>17. \A y : Returned(y, t) => Returned(y, t)'
    BY StillCame DEF Returned
  <2>18. ASSUME NEW j \in DOMAIN hist'[t].got PROVE Returned(hist[t].got[j], t)'
    <3>1. PICK got : got = hist[t].got
      OBVIOUS
    <3>2. /\ got \in Seq(Mixed) /\ <<x>> \in Seq(Mixed) /\ Len(<<x>>) = 1 /\ <<x>>[1] = x
      <4>1. u # << >>
        BY <2>8, <2>10, EmptySeq
      <4>2. x \in Seq(Pieces)
        BY <2>8, <2>14, <4>1, HeadTailProperties
      <4>3. got \in Seq(Mixed) /\ x \in Mixed
        BY <1>1, <3>1, <4>2, FlowTyped DEF Mixed
      <4> QED
        BY <4>3
    <3>3. PICK h : h = <<x>>
      OBVIOUS
    <3>4. /\ got \o h \in Seq(Mixed) /\ Len(got \o h) = Len(got) + Len(h)
          /\ \A i \in 1 .. Len(got) : (got \o h)[i] = got[i]
          /\ \A i \in 1 .. Len(h) : (got \o h)[Len(got) + i] = h[i]
      BY <3>2, <3>3, Concatenated
    <3>5. PICK g : g = got \o h
      OBVIOUS
    <3>6. /\ DOMAIN g = 1 .. Len(got) + 1 /\ Len(got) \in Nat
          /\ DOMAIN got = 1 .. Len(got)
          /\ \A i \in 1 .. Len(got) : g[i] = got[i]
          /\ g[Len(got) + 1] = x
      BY <3>2, <3>3, <3>4, <3>5, LenProperties
    <3>7. hist'[t].got = g
      BY <2>15, <3>1, <3>3, <3>5
    <3>8. Returned(g[j], t)
      <4>1. CASE j = Len(got) + 1
        BY <2>4, <2>6, <2>7, <2>14, <3>6, <4>1 DEF Returned
      <4>2. CASE j # Len(got) + 1
        <5>1. j \in DOMAIN got /\ g[j] = got[j]
          BY <2>18, <3>6, <3>7, <4>2
        <5> QED
          BY <3>1, <5>1 DEF Whole
      <4> QED
        BY <4>1, <4>2
    <3>9. Returned(g[j], t)'
      BY <2>17, <3>8
    <3> QED
      BY <3>7, <3>9 DEF Returned, CameFor
  <2> QED
    BY <2>5, <2>16, <2>18 DEF Whole
<1> QED
  BY <1>5, <1>6

LEMMA FreeWhole ==
    ASSUME Basics, HistGrows, NEW a \in Apps, Esp8266SockFree(a), NEW t \in 1 .. Len(sock),
           Whole(t)
    PROVE  Whole(t)' /\ sock'[t].type = sock[t].type
<1>1. sock[t] \in Sockets /\ t \in DOMAIN sock
  BY ASocket DEF Basics
<1>2. PICK s : sock' = [sock EXCEPT ![s].live = FALSE, ![s].rcvRing = << >>]
  BY DEF Esp8266SockFree
<1>3. hist' = hist
  BY DEF Esp8266SockFree, history
<1>4. CASE s # t
  <2>1. sock'[t] = sock[t]
    BY <1>1, <1>2, <1>4
  <2> QED
    BY <1>3, <2>1, WholeSame
<1>5. CASE s = t
  <2>1. sock'[t].rcvRing = << >> /\ sock'[t].type = sock[t].type
    BY <1>1, <1>2, <1>5 DEF Sockets
  <2>2. (\A j \in DOMAIN hist[t].got : Returned(hist[t].got[j], t))'
    BY <1>3 DEF Whole, Returned, CameFor
  <2>3. PICK q \in Seq(Parts) : q = << >>
    <3>1. << >> \in Seq(Parts)
      BY EmptySeq
    <3> QED
      BY <3>1
  <2>4. UnitsIn(q, t, "SOCK_DGRAM") = << >> /\ DOMAIN q = {}
    BY <2>3, UnitsOfList DEF Types
  <2>5. Consists(q, t)'
    BY <2>1, <2>4 DEF Consists
  <2> QED
    BY <2>1, <2>2, <2>5 DEF Whole
<1> QED
  BY <1>4, <1>5

LEMMA SocketWhole ==
    ASSUME Basics, HistGrows, NEW a \in Apps, NEW type \in Types, NEW garbage \in BOOLEAN,
           Esp8266Socket(a, type, garbage)
    PROVE  /\ \A t \in 1 .. Len(sock) : sock'[t] = sock[t] /\ (Whole(t) => Whole(t)')
           /\ \A t \in 1 .. Len(sock') : t \notin 1 .. Len(sock) => Whole(t)'
<1>1. /\ sock \in Seq(Sockets) /\ hist \in Seq(Histories) /\ Len(sock) \in Nat
      /\ Len(hist) = Len(sock)
  BY LenProperties DEF Basics, Typed
<1>2. PICK x, h : /\ sock' = Append(sock, x) /\ hist' = Append(hist, h)
                  /\ x.rcvRing = << >> /\ h.got = << >>
  BY DEF Esp8266Socket
<1>3. ASSUME NEW t \in 1 .. Len(sock) PROVE sock'[t] = sock[t] /\ (Whole(t) => Whole(t)')
  <2>1. sock'[t] = sock[t] /\ hist'[t] = hist[t]
    BY <1>1, <1>2, AppendProperties
  <2> QED
    BY <2>1, WholeSame
<1>4. ASSUME NEW t \in 1 .. Len(sock'), t \notin 1 .. Len(sock) PROVE Whole(t)'
  <2>1. Len(sock') = Len(sock) + 1
    BY <1>1, <1>2
  <2>2. t = Len(sock) + 1
    BY <1>1, <1>4, <2>1
  <2>3. sock'[t].rcvRing = << >> /\ hist'[t].got = << >>
    BY <1>1, <1>2, <2>2
  <2>4. (\A j \in DOMAIN hist[t].got : Returned(hist[t].got[j], t))'
    <3>1. DOMAIN hist'[t].got = {}
      BY <2>3
    <3> QED
      BY <3>1
  <2>5. PICK q \in Seq(Parts) : q = << >>
    <3>1. << >> \in Seq(Parts)
      BY EmptySeq
    <3> QED
      BY <3>1
  <2>6. UnitsIn(q, t, "SOCK_DGRAM") = << >> /\ DOMAIN q = {}
    BY <2>5, UnitsOfList DEF Types
  <2>7. Consists(q, t)'
    BY <2>3, <2>6 DEF Consists
  <2> QED
    BY <2>4, <2>7 DEF Whole
<1> QED
  BY <1>3, <1>4

\* The steps that move nothing of any socket.
LEMMA RestSame ==
    ASSUME Basics, NEW t \in 1 .. Len(sock),
           \/ \E w \in Workers : MsgDealSingle(w) \/ MsgDealRest(w)
           \/ \E n \in 1 .. MaxChunk : rcv_task(n)
           \/ modem_data \/ modem_command
           \/ \E fd \in Fds, len \in StreamLens \cup DatagramLens : peer_sends(fd, len)
           \/ UNCHANGED vars
    PROVE  sock'[t].rcvRing = sock[t].rcvRing /\ hist'[t].got = hist[t].got
<1>1. Typed
  BY DEF Basics
<1>2. sock' = sock
  BY DEF MsgDealSingle, MsgDealRest, rcv_task, modem_data, modem_command, peer_sends, vars,
         sockets
<1>3. hist'[t].got = hist[t].got
  <2>1. CASE modem_data
    <3>1. \E s, v : hist' = [hist EXCEPT ![s].net = v]
      BY <2>1 DEF modem_data
    <3> QED
      BY <1>1, <3>1, Recorded
  <2>2. CASE \E fd \in Fds, len \in StreamLens \cup DatagramLens : peer_sends(fd, len)
    <3>1. \E s, v : hist' = [hist EXCEPT ![s].peer = v]
      BY <2>2 DEF peer_sends
    <3> QED
      BY <1>1, <3>1, Recorded
  <2>3. CASE \/ \E w \in Workers : MsgDealSingle(w) \/ MsgDealRest(w)
             \/ \E n \in 1 .. MaxChunk : rcv_task(n)
             \/ modem_command \/ UNCHANGED vars
    BY <2>3 DEF MsgDealSingle, MsgDealRest, rcv_task, modem_command, vars, history
  <2> QED
    BY <2>1, <2>2, <2>3
<1> QED
  BY <1>2, <1>3

LEMMA GramsKept ==
    ASSUME Basics, Exchange, Grams, [Next]_vars
    PROVE  Grams'
<1> SUFFICES ASSUME Roomy', NEW t \in 1 .. Len(sock'), sock'[t].type = "SOCK_DGRAM"
             PROVE  Whole(t)'
  BY DEF Grams
<1>1. /\ Typed /\ Owners /\ Dealings /\ trouble \subseteq trouble' /\ HistGrows
  BY TroubleStays, HistGrown DEF Basics
<1>2. InStep /\ Roomy /\ "tight" \notin trouble'
  BY <1>1 DEF Roomy, InStep
<1>3. Dealt /\ \A s \in 1 .. Len(sock) : sock[s].type = "SOCK_DGRAM" => Whole(s)
  BY <1>2 DEF Exchange, Grams
<1>4. CASE \E a \in Apps, type \in Types, garbage \in BOOLEAN : Esp8266Socket(a, type, garbage)
  <2>1. CASE t \in 1 .. Len(sock)
    <3>1. sock'[t] = sock[t]
      BY <1>1, <1>4, <2>1, SocketWhole
    <3> QED
      BY <1>1, <1>3, <1>4, <2>1, <3>1, SocketWhole
  <2>2. CASE t \notin 1 .. Len(sock)
    BY <1>1, <1>4, <2>2, SocketWhole
  <2> QED
    BY <2>1, <2>2
<1>5. CASE \E a \in Apps : Esp8266SockFree(a)
  <2>1. PICK a \in Apps : Esp8266SockFree(a)
    BY <1>5
  <2>2. t \in 1 .. Len(sock)
    <3>1. PICK s : sock' = [sock EXCEPT ![s].live = FALSE, ![s].rcvRing = << >>]
      BY <2>1 DEF Esp8266SockFree
    <3>2. Len(sock') = Len(sock)
      BY <1>1, <3>1 DEF Typed
    <3> QED
      BY <3>2
  <2>3. sock'[t].type = sock[t].type
    <3>1. PICK s : sock' = [sock EXCEPT ![s].live = FALSE, ![s].rcvRing = << >>]
      BY <2>1 DEF Esp8266SockFree
    <3>2. sock[t] \in Sockets /\ t \in DOMAIN sock
      BY <1>1, <2>2, ASocket
    <3> QED
      BY <3>1, <3>2 DEF Sockets
  <2> QED
    BY <1>1, <1>3, <2>1, <2>2, <2>3, FreeWhole
<1>6. CASE /\ ~\E a \in Apps : Esp8266SockFree(a)
           /\ ~\E a \in Apps, type \in Types, garbage \in BOOLEAN :
                Esp8266Socket(a, type, garbage)
  <2>1. Standing
    BY <1>1, <1>6, Stands
  <2>2. t \in 1 .. Len(sock) /\ sock[t].type = "SOCK_DGRAM"
    BY <2>1 DEF Standing
  <2>3. Whole(t)
    BY <1>3, <2>2
  <2>4. ASSUME NEW a \in Apps, ItsStep(a) PROVE Whole(t)'
    <3>1. CASE Esp8266Recv(a)
      BY <1>1, <2>2, <2>3, <3>1, RecvWhole
    <3>2. CASE AppStep(a) \/ SendStep(a)
      BY <1>1, <2>2, <2>3, <3>2, ItsSame, WholeSame DEF Same
    <3> QED
      BY <2>4, <3>1, <3>2 DEF ItsStep
  <2>5. ASSUME NEW w \in Workers, MsgDealWrite(w) PROVE Whole(t)'
    BY <1>1, <1>2, <1>3, <2>2, <2>3, <2>5, WriteWhole
  <2>6. CASE \/ \E w \in Workers : MsgDealSingle(w) \/ MsgDealRest(w)
             \/ \E n \in 1 .. MaxChunk : rcv_task(n)
             \/ modem_data \/ modem_command
             \/ \E fd \in Fds, len \in StreamLens \cup DatagramLens : peer_sends(fd, len)
             \/ UNCHANGED vars
    <3>1. sock'[t].rcvRing = sock[t].rcvRing /\ hist'[t].got = hist[t].got
      BY <2>2, <2>6, RestSame
    <3> QED
      BY <1>1, <2>2, <2>3, <3>1, WholeSame
  <2> QED
    BY <1>6, <2>4, <2>5, <2>6, Steps DEF Esp8266MsgDeal
<1> QED
  BY <1>4, <1>5, <1>6

LEMMA GramsInit ==
    ASSUME Init
    PROVE  Grams
<1>1. 1 .. Len(sock) = {}
  BY EmptySeq, LenProperties DEF Init
<1> QED
  BY <1>1 DEF Grams

-----------------------------------------------------------------------------
(* The theorems *)

\* The inductive invariant: whatever goes wrong, the variables keep their
\* types, each socket its owner and its entry, the locks their holders and the
\* frames their peers.  As long as commands and answers belong together, each
\* is where the task that asked for it expects it, the modem sends what the tasks
\* gave it, no unit of a stream is lost as long as nothing was dropped, and a ring
\* buffer of datagrams holds whole ones as long as each found the room it needs.
EspInv == Basics /\ Exchange /\ Sequence /\ Streams /\ Grams

\* Every operation of the tasks, the receiving task, the modem and the peers keeps
\* the inductive invariant.
THEOREM Invariant == Spec => []EspInv
<1>1. Init => EspInv
  BY BasicsInit, ExchangeInit, SequenceInit, StreamsInit, GramsInit DEF EspInv
<1>2. EspInv /\ [Next]_vars => EspInv'
  BY BasicsKept, ExchangeKept, SequenceKept, StreamsKept, GramsKept DEF EspInv
<1> QED
  BY <1>1, <1>2, PTL DEF Spec

\* No task writes what came for a socket into one that has been freed.
THEOREM WritesToLiveSockets == Spec => []DealsWithLiveSockets
<1>1. EspInv => DealsWithLiveSockets
  <2> SUFFICES ASSUME EspInv PROVE DealsWithLiveSockets
    OBVIOUS
  <2>1. Typed /\ Owners /\ Dealings /\ Basics
    BY DEF EspInv, Basics
  <2>2. TypeOK
    <3>1. \A a \in Apps : app[a].pc \in Pcs /\ app[a].next \in Pcs /\ app[a].sock \in 0 .. Len(sock)
      <4>1. \A a \in Apps : app[a] \in AppStates /\ app[a].sock <= Len(sock)
        BY <2>1 DEF Typed, Owners, Owns
      <4> QED
        BY <2>1, <4>1, LenProperties DEF AppStates, Pcs, Typed
    <3>2. \A s \in DOMAIN sock : Len(sock[s].rcvRing) <= RCVCACHE
      <4>1. DOMAIN sock = 1 .. Len(sock)
        BY <2>1, LenProperties DEF Typed
      <4>2. \A s \in 1 .. Len(sock) : Len(sock[s].rcvRing) \in 0 .. RCVCACHE
        BY <2>1, ASocket
      <4>3. RCVCACHE \in Nat
        BY Bounds
      <4> QED
        BY <4>1, <4>2, <4>3
    <3> QED
      BY <2>1, <3>1, <3>2 DEF TypeOK, Typed, Workers
  <2>3. ASSUME InStep, NEW w \in Workers, deal[w].sock # 0 PROVE sock[deal[w].sock].live
    <3> DEFINE f == Head(deal[w].parts)
    <3>1. Together /\ Dealt
      BY <2>3 DEF EspInv, Exchange
    <3>2. deal[w].parts # << >> /\ IsIpd(f) /\ deal[w].sock = f.sock
      BY <2>1, <2>3, <3>1 DEF Dealings, Dealing, Dealt
    <3>3. Known(f) /\ f.fd \in Fds
      BY <2>1, <3>1, <3>2, HeadKnown
    <3> HIDE DEF f
    <3>4. sockArray[f.fd] = deal[w].sock
      BY <3>2, <3>3 DEF Known
    <3>5. Entry(f.fd)
      BY <2>1, <3>3 DEF Owners
    <3> QED
      BY <2>3, <3>4, <3>5 DEF Entry
  <2>4. DOMAIN deal = Workers
    BY <2>1 DEF Typed
  <2> QED
    BY <2>2, <2>3, <2>4 DEF DealsWithLiveSockets
<1>2. Spec => []EspInv
  BY Invariant
<1> QED
  BY <1>1, <1>2, PTL

\* The two commands of Esp8266Send go to the modem in sequence: it sends the
\* data of Esp8266Send and nothing else, over the connection of the socket, and
\* has sent them when Esp8266Send returns their length.
THEOREM SendsInSequence == Spec => []SendInSequence
<1>1. EspInv => SendInSequence
  <2> SUFFICES ASSUME EspInv, InStep, "between" \notin trouble, NEW s \in DOMAIN hist
               PROVE  /\ Net(s) \subseteq {Payload(s, n) : n \in 1 .. hist[s].offered}
                      /\ {Payload(s, n) : n \in hist[s].acked} \subseteq Net(s)
    BY DEF SendInSequence, Net
  <2>1. s \in 1 .. Len(sock)
    BY LenProperties DEF EspInv, Basics, Typed
  <2> QED
    BY <2>1 DEF EspInv, Sequence, Sent, Told
<1>2. Spec => []EspInv
  BY Invariant
<1> QED
  BY <1>1, <1>2, PTL

\* A stream arrives: what Esp8266Recv returned, what is in the ring buffer and
\* what is under way are together what the peer sent, in order.
THEOREM StreamsArrive == Spec => []StreamIntact
<1>1. EspInv => StreamIntact
  <2> SUFFICES ASSUME EspInv, Smooth, NEW fd \in Fds, sockArray[fd] # 0,
                      sock[sockArray[fd]].type = "SOCK_STREAM"
               PROVE  LET s == sockArray[fd] IN
                        hist[s].got \o sock[s].rcvRing \o UnitsOf(s, deal[Rcv].parts \o uart)
                          = UnitsOf(s, hist[s].peer)
    BY DEF StreamIntact, Smooth
  <2>1. PICK s : s = sockArray[fd]
    OBVIOUS
  <2>2. Intact(s)
    BY <2>1 DEF EspInv, Streams, Complete, IsStream
  <2>3. \A parts : UnitsOf(s, parts) = UnitsIn(parts, s, "SOCK_STREAM")
    BY <2>1 DEF UnitsOf
  <2>4. hist[s].got \o sock[s].rcvRing \o UnitsOf(s, deal[Rcv].parts \o uart)
          = UnitsOf(s, hist[s].peer)
    BY <2>2, <2>3 DEF Intact, Arriving, Came, Pend
  <2> QED
    BY <2>1, <2>4
<1>2. Spec => []EspInv
  BY Invariant
<1> QED
  BY <1>1, <1>2, PTL

\* Esp8266Recv returns datagrams whole: each is the payload of one that the peer of
\* the socket sent, with nothing cut off and nothing of another one behind it.
THEOREM DatagramsComeWhole == Spec => []DatagramsWhole
<1>1. EspInv => DatagramsWhole
  <2> SUFFICES ASSUME EspInv, Roomy, NEW s \in DOMAIN sock, sock[s].type = "SOCK_DGRAM",
                      NEW j \in DOMAIN hist[s].got
               PROVE  \E k \in DOMAIN hist[s].peer :
                        hist[s].got[j] = Tail(UnitsOf(s, <<hist[s].peer[k]>>))
    BY DEF DatagramsWhole, Roomy
  <2>1. Typed /\ Genuine /\ s \in 1 .. Len(sock) /\ s \in DOMAIN hist
    BY LenProperties DEF EspInv, Basics, Typed
  <2>2. Returned(hist[s].got[j], s)
    BY <2>1 DEF EspInv, Grams, Whole
  <2>3. PICK f \in Ipds : CameFor(f, s) /\ hist[s].got[j] = Tail(Units(f, "SOCK_DGRAM"))
    BY <2>2 DEF Returned
  <2>4. PICK k \in DOMAIN hist[s].peer : hist[s].peer[k] = f
    BY <2>3 DEF CameFor
  <2>5. f \in Parts /\ IsIpd(f) /\ f.sock = s
    BY <2>1, <2>3, <2>4, PartKinds DEF Genuine
  <2>6. UnitsIn(<<f>>, s, "SOCK_DGRAM") = Units(f, "SOCK_DGRAM")
    BY <2>5, UnitsOfOne DEF Types
  <2>7. UnitsOf(s, <<f>>) = UnitsIn(<<f>>, s, "SOCK_DGRAM")
    BY DEF UnitsOf
  <2> QED
    BY <2>3, <2>4, <2>6, <2>7
<1>2. Spec => []EspInv
  BY Invariant
<1> QED
  BY <1>1, <1>2, PTL

=============================================================================
