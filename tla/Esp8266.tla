------------------------------ MODULE Esp8266 -------------------------------
(***************************************************************************)
(* The sockets of tcpip/esp8266/esp8266_tcpip.c: applications open, use    *)
(* and close sockets of a modem by AT commands; the data for the sockets   *)
(* comes in frames "+IPD,fd,len:..." between, before and behind the        *)
(* answers to these commands, and is kept in a ring buffer per socket.     *)
(*                                                                         *)
(* at_command is what AtClient shows it to be: one command at a time,      *)
(* ended by a chunk that contains its index or by the timeout.  The        *)
(* receive task reads chunks of what the modem has written.  What a task   *)
(* does under one of the mutexes is split only where another task can see  *)
(* it.  Data is counted in units of the length header of a datagram.       *)
(*                                                                         *)
(* Definitions named M_... are deliberate faults the runs must detect; the *)
(* specification uses none of them.                                        *)
(***************************************************************************)
EXTENDS Integers, Sequences, SequencesExt

CONSTANTS
    Apps,        \* the tasks of the applications, one socket each at a time
    Rcv,         \* the receive task of the AT channel
    Nobody,
    SOCKMAX,     \* CN_ESP8266_SOCKMAX
    RCVCACHE,    \* CONFIG_ESP8266_RCVCACHE
    StreamLens, DatagramLens, \* the lengths of what the peers send
    MaxChunk,    \* bound: answers and frames that one read returns
    MaxSocks, MaxFrames, MaxSends, MaxLookups, MaxLate \* bounds of the runs

ASSUME Bounds ==
    /\ Rcv \notin Apps /\ Nobody \notin Apps \cup {Rcv}
    /\ StreamLens \cup DatagramLens \subseteq Nat \ {0}
    /\ {SOCKMAX, RCVCACHE, MaxChunk} \subseteq Nat \ {0}
    /\ {MaxSocks, MaxFrames, MaxSends, MaxLookups, MaxLate} \subseteq Nat

VARIABLES
    app,        \* each application: pc, its socket, what follows the connect
    atLock, ioLock,
    sock,       \* the sockets that were ever allocated, in this order
    sockArray,  \* the table; 0 is NULL
    flags,      \* flagSendIndexGetByOOB and flagSendOKGetByOOB
    at,         \* the command of at_command: its task, index and response
    deal,       \* Esp8266MsgDeal in a task: the rest of the chunk, the socket
    cmds,       \* what was written to the modem
    link,       \* the modem: the socket for which each link was opened
    prompted,   \* the link whose data the modem waits for, or -1
    uart,       \* what the modem has written
    hist,       \* what was sent and received on each socket (history)
    lookups, lates, trouble

tasks == <<app, atLock>>
sockets == <<sock, sockArray>>
modem == <<link, prompted, uart>>
history == <<hist, lookups, lates, trouble>>
vars == <<tasks, ioLock, sockets, flags, at, deal, cmds, modem, history>>

Fds == 0 .. SOCKMAX - 1
Types == {"SOCK_STREAM", "SOCK_DGRAM"}
MySock(a) == sock[app[a].sock]

-----------------------------------------------------------------------------
(* What goes over the UART *)

Command(kind, a) == [kind |-> kind, fd |-> MySock(a).fd, sock |-> app[a].sock]
Payload(s, n) == [kind |-> "data", n |-> n, sock |-> s]
CipDomain == [kind |-> "AT+CIPDOMAIN"]

Answer(text) == [kind |-> text]
Ipd(fd, s, k, len) == [kind |-> "+IPD", fd |-> fd, sock |-> s, k |-> k, len |-> len]
IsIpd(part) == part.kind = "+IPD"
HasIpd(parts) == \E i \in DOMAIN parts : IsIpd(parts[i])

\* strstr: the answers to all commands contain OK, "ERROR" does not.
Has(part, index) ==
    \/ part.kind = index
    \/ index = "OK" /\ part.kind \in {">", "SEND OK", "+CIPDOMAIN"}
Finds(parts, index) == \E i \in DOMAIN parts : Has(parts[i], index)

-----------------------------------------------------------------------------
(* at_command, as its callers see it *)

NoCommand == [task |-> Nobody, index |-> "", resp |-> << >>]

Late == lates < MaxLate /\ lates' = lates + 1 /\ trouble' = trouble \cup {"late"}

\* The command is written when no other task is in at_command, or never, when
\* the other one stays there until CONFIG_ESP8266_CMDTIMEOUT.
at_command(a, text, index) ==
    \/ /\ at.task = Nobody
       /\ at' = [task |-> a, index |-> index, resp |-> << >>]
       /\ cmds' = Append(cmds, text)
       /\ UNCHANGED <<lates, trouble>>
    \/ at.task # Nobody /\ Late /\ UNCHANGED <<at, cmds>>

at_response(a) ==
    /\ at.task = a /\ at.resp # << >> /\ at' = NoCommand
    /\ UNCHANGED <<lates, trouble>>

\* No answer is on its way, so none comes after the timeout either.
Quiet == cmds = << >> /\ uart = << >> /\ deal[Rcv].parts = << >>
at_timeout(a) ==
    \/ at.task # a /\ UNCHANGED <<at, lates, trouble>>
    \/ /\ at.task = a /\ at.resp = << >> /\ at' = NoCommand
       /\ IF Quiet THEN UNCHANGED <<lates, trouble>> ELSE Late

M_LockIgnored(a) == atLock' = a
Lock(a) == atLock = Nobody /\ atLock' = a
Unlock(a) == atLock = a /\ atLock' = Nobody

-----------------------------------------------------------------------------
(* Esp8266Socket and Esp8266Close *)

\* Esp8266SockMalloc takes the first free entry.  osal_malloc does not clear
\* the socket: isConnect is whatever the memory held.
Unused == {fd \in Fds : sockArray[fd] = 0}
Esp8266Socket(a, type, garbage) ==
    /\ app[a].pc = "idle" /\ app[a].sock = 0 /\ Len(sock) < MaxSocks
    /\ atLock = Nobody
    /\ \E fd \in Unused :
         /\ \A other \in Unused : fd <= other
         /\ sock' = Append(sock, [fd |-> fd, type |-> type, isConnect |-> garbage,
                                  rcvRing |-> << >>, live |-> TRUE])
         /\ sockArray' = [sockArray EXCEPT ![fd] = Len(sock) + 1]
    /\ app' = [app EXCEPT ![a].sock = Len(sock) + 1]
    /\ hist' = Append(hist, [peer |-> << >>, got |-> << >>, offered |-> 0,
                             acked |-> {}, net |-> << >>])
    /\ UNCHANGED <<atLock, ioLock, flags, at, deal, cmds, modem, lookups, lates,
                   trouble>>

Esp8266Close(a) ==
    /\ app[a].pc = "idle" /\ app[a].sock # 0 /\ Lock(a)
    /\ at_command(a, Command("AT+CIPCLOSE", a), "OK")
    /\ app' = [app EXCEPT ![a].pc = "close"]
    /\ UNCHANGED <<ioLock, sockets, flags, deal, modem, hist, lookups>>

M_CloseUnanswered(a) ==
    /\ app[a].pc = "close" /\ at.task = a
    /\ at' = NoCommand /\ Unlock(a) /\ app' = [app EXCEPT ![a].pc = "free"]
    /\ UNCHANGED <<ioLock, sockets, flags, deal, cmds, modem, history>>
\* The socket goes, whatever the modem said.
close_return(a) ==
    /\ app[a].pc = "close" /\ (at_response(a) \/ at_timeout(a))
    /\ Unlock(a) /\ app' = [app EXCEPT ![a].pc = "free"]
    /\ UNCHANGED <<ioLock, sockets, flags, deal, cmds, modem, hist, lookups>>

\* And osal_free: a task that has no pointer to the socket yet gets none.
Esp8266SockFree(a) ==
    /\ app[a].pc = "free" /\ atLock = Nobody
    /\ sockArray' = [sockArray EXCEPT ![MySock(a).fd] = 0]
    /\ sock' = [sock EXCEPT ![app[a].sock].live = FALSE,
                            ![app[a].sock].rcvRing = << >>]
    /\ app' = [app EXCEPT ![a].pc = "idle", ![a].sock = 0]
    /\ UNCHANGED <<atLock, ioLock, flags, at, deal, cmds, modem, history>>

-----------------------------------------------------------------------------
(* Esp8266Connect, Esp8266Send and Esp8266Sendto *)

Offered == FoldLeft(LAMBDA n, h : n + h.offered, 0, hist)

\* Esp8266Sendto connects a socket that is not connected and then sends,
\* whatever Esp8266Connect returned.
Esp8266Connect(a, next) ==
    /\ app[a].pc = "idle" /\ app[a].sock # 0
    /\ next = "send" => ~MySock(a).isConnect /\ Offered < MaxSends
    /\ Lock(a) /\ at_command(a, Command("AT+CIPSTART", a), "OK")
    /\ app' = [app EXCEPT ![a].pc = "connect", ![a].next = next]
    /\ UNCHANGED <<ioLock, sockets, flags, deal, modem, hist, lookups>>

connect_return(a) ==
    /\ app[a].pc = "connect"
    /\ \/ /\ at_response(a)
          /\ sock' = [sock EXCEPT ![app[a].sock].isConnect = TRUE]
       \/ at_timeout(a) /\ UNCHANGED sock
    /\ Unlock(a)
    /\ app' = [app EXCEPT ![a].pc = app[a].next, ![a].next = "idle"]
    /\ UNCHANGED <<ioLock, sockArray, flags, deal, cmds, modem, hist, lookups>>

Esp8266Send(a) ==
    /\ \/ app[a].pc = "send"
       \/ app[a].pc = "idle" /\ app[a].sock # 0 /\ Offered < MaxSends
    /\ Lock(a) /\ at_command(a, Command("AT+CIPSEND", a), ">")
    /\ app' = [app EXCEPT ![a].pc = "cipsend"]
    /\ flags' = [flags EXCEPT !.sendIndex = FALSE]
    /\ hist' = [hist EXCEPT ![app[a].sock].offered = @ + 1]
    /\ UNCHANGED <<ioLock, sockets, deal, modem, lookups>>

send_fails(a) ==
    /\ sock' = [sock EXCEPT ![app[a].sock].isConnect = FALSE]
    /\ Unlock(a) /\ app' = [app EXCEPT ![a].pc = "idle"]

send_succeeds(a) ==
    /\ hist' = [hist EXCEPT ![app[a].sock].acked = @ \cup {hist[app[a].sock].offered}]
    /\ Unlock(a) /\ app' = [app EXCEPT ![a].pc = "idle"]

\* The prompt was the answer, or the receive task saw it behind a frame.
cipsend_return(a) ==
    /\ app[a].pc = "cipsend"
    /\ \/ at_response(a) \/ at_timeout(a)
    /\ IF (at.task = a /\ at.resp # << >>) \/ flags.sendIndex
       THEN /\ app' = [app EXCEPT ![a].pc = "data"]
            /\ flags' = [flags EXCEPT !.sendOK = FALSE]
            /\ UNCHANGED <<atLock, sock>>
       ELSE send_fails(a) /\ UNCHANGED flags
    /\ UNCHANGED <<ioLock, sockArray, deal, cmds, modem, hist, lookups>>

\* Until here another task may get into at_command that needs no atLock.
data_command(a) ==
    /\ app[a].pc = "data"
    /\ at_command(a, Payload(app[a].sock, hist[app[a].sock].offered), "SEND OK")
    /\ app' = [app EXCEPT ![a].pc = "sending"]
    /\ UNCHANGED <<atLock, ioLock, sockets, flags, deal, modem, hist, lookups>>

\* "in some cases, +IPD is not at the beginning of one frame": the frames
\* behind SEND OK are dealt with by the sender.
FromIpd(parts) ==
    LET first == CHOOSE i \in DOMAIN parts :
                   IsIpd(parts[i]) /\ \A j \in 1 .. i - 1 : ~IsIpd(parts[j])
    IN  SubSeq(parts, first, Len(parts))
data_return(a) ==
    /\ app[a].pc = "sending"
    /\ \/ /\ at_response(a)
          /\ IF HasIpd(at.resp)
             THEN /\ deal' = [deal EXCEPT ![a].parts = FromIpd(at.resp)]
                  /\ app' = [app EXCEPT ![a].pc = "tail"]
                  /\ UNCHANGED <<atLock, hist>>
             ELSE send_succeeds(a) /\ UNCHANGED deal
          /\ UNCHANGED sock
       \/ /\ at_timeout(a)
          /\ IF flags.sendOK
             THEN send_succeeds(a) /\ UNCHANGED sock
             ELSE send_fails(a) /\ UNCHANGED hist
          /\ UNCHANGED deal
    /\ UNCHANGED <<ioLock, sockArray, flags, cmds, modem, lookups>>

send_return(a) ==
    /\ app[a].pc = "tail" /\ deal[a].parts = << >>
    /\ send_succeeds(a)
    /\ UNCHANGED <<ioLock, sockets, flags, at, deal, cmds, modem, lookups, lates,
                   trouble>>

-----------------------------------------------------------------------------
(* Esp8266GetHostByName, which takes no lock *)

Esp8266GetHostByName(a) ==
    /\ app[a].pc = "idle" /\ lookups < MaxLookups /\ lookups' = lookups + 1
    /\ at.task = Nobody /\ at' = [task |-> a, index |-> "+CIPDOMAIN", resp |-> << >>]
    /\ cmds' = Append(cmds, CipDomain)
    /\ app' = [app EXCEPT ![a].pc = "lookup"]
    /\ trouble' = trouble \cup
         (IF \E b \in Apps : app[b].pc = "data" THEN {"between"} ELSE {})
    /\ UNCHANGED <<atLock, ioLock, sockets, flags, deal, modem, hist, lates>>

lookup_return(a) ==
    /\ app[a].pc = "lookup" /\ (at_response(a) \/ at_timeout(a))
    /\ app' = [app EXCEPT ![a].pc = "idle"]
    /\ UNCHANGED <<atLock, ioLock, sockets, flags, deal, cmds, modem, hist, lookups>>

-----------------------------------------------------------------------------
(* Esp8266MsgDeal, in the receive task or in a sender *)

Room(s) == RCVCACHE - Len(sock[s].rcvRing)
M_FitsAlways(f, s) == TRUE
Fits(f, s) == f.len <= Room(s)

\* Esp8266MsgDealSingle up to the test of the room.  A frame that finds no
\* socket, or no room, ends the chunk.
MsgDealSingle(w) ==
    /\ deal[w].parts # << >> /\ IsIpd(Head(deal[w].parts)) /\ deal[w].sock = 0
    /\ ioLock = Nobody
    /\ LET f == Head(deal[w].parts)
           s == sockArray[f.fd]
       IN  IF s = 0 \/ ~Fits(f, s)
           THEN /\ deal' = [deal EXCEPT ![w].parts = << >>]
                /\ trouble' = trouble \cup {"full"} \cup
                     (IF Finds(deal[w].parts, ">") THEN {"lost_prompt"} ELSE {})
                /\ UNCHANGED ioLock
           ELSE /\ deal' = [deal EXCEPT ![w].sock = s]
                /\ ioLock' = w /\ UNCHANGED trouble
    /\ UNCHANGED <<tasks, sockets, flags, at, cmds, modem, hist, lookups, lates>>

\* What ring_buffer_write does with more than it has room for.
Unit(f, i) == [sock |-> f.sock, k |-> f.k, i |-> i, len |-> f.len]
Units(f, type) ==
    (IF type = "SOCK_DGRAM" THEN <<Unit(f, 0)>> ELSE << >>)
      \o [i \in 1 .. f.len |-> Unit(f, i)]
Written(s, units) ==
    sock[s].rcvRing \o SubSeq(units, 1, IF Len(units) > Room(s) THEN Room(s) ELSE Len(units))

MsgDealWrite(w) ==
    /\ deal[w].sock # 0
    /\ LET s == deal[w].sock
           units == Units(Head(deal[w].parts), sock[s].type)
       IN  /\ sock' = [sock EXCEPT ![s].rcvRing = Written(s, units)]
           /\ trouble' = trouble \cup (IF Len(units) > Room(s) THEN {"tight"} ELSE {})
    /\ deal' = [deal EXCEPT ![w].parts = Tail(@), ![w].sock = 0]
    /\ ioLock' = Nobody
    /\ UNCHANGED <<tasks, sockArray, flags, at, cmds, modem, hist, lookups, lates>>

\* What follows the frames is searched for the two answers to a send.
MsgDealRest(w) ==
    /\ deal[w].parts # << >> /\ ~IsIpd(Head(deal[w].parts))
    /\ flags' = [sendIndex |-> flags.sendIndex \/ Finds(deal[w].parts, ">"),
                 sendOK |-> flags.sendOK \/ Finds(deal[w].parts, "SEND OK")]
    /\ deal' = [deal EXCEPT ![w].parts = << >>]
    /\ trouble' = trouble \cup (IF HasIpd(deal[w].parts) THEN {"swallowed"} ELSE {})
    /\ UNCHANGED <<tasks, ioLock, sockets, at, cmds, modem, hist, lookups, lates>>

Esp8266MsgDeal(w) == MsgDealSingle(w) \/ MsgDealWrite(w) \/ MsgDealRest(w)

\* The receive task reads a chunk: a frame at its beginning goes to
\* Esp8266MsgDeal, anything else to the command whose index it contains.
rcv_task(n) ==
    /\ deal[Rcv].parts = << >> /\ n <= Len(uart)
    /\ LET chunk == SubSeq(uart, 1, n)
           matches == at.task # Nobody /\ Finds(chunk, at.index)
       IN  IF IsIpd(chunk[1])
           THEN /\ deal' = [deal EXCEPT ![Rcv].parts = chunk]
                /\ UNCHANGED <<at, trouble>>
           ELSE /\ at' = IF matches THEN [at EXCEPT !.resp = chunk] ELSE at
                /\ trouble' = trouble \cup
                     (IF ~HasIpd(chunk) THEN {}
                      ELSE IF matches /\ at.index = "SEND OK" THEN {"appended"}
                      ELSE {"swallowed"})
                /\ UNCHANGED deal
    /\ uart' = SubSeq(uart, n + 1, Len(uart))
    /\ UNCHANGED <<tasks, ioLock, sockets, flags, cmds, link, prompted, hist,
                   lookups, lates>>

-----------------------------------------------------------------------------
(* Esp8266Recv *)

\* A datagram is as long as its header says; what is read in the place of a
\* header says anything.
M_AllThereIs(ring, n) == n = Len(ring)
EndsAt(ring, n) ==
    ring[1].i = 0 => n = 1 + (IF ring[1].len < Len(ring) THEN ring[1].len
                              ELSE Len(ring) - 1)

\* A call that finds nothing changes nothing.  The buffer of the caller takes
\* any datagram.
Esp8266Recv(a) ==
    LET s == app[a].sock
        ring == sock[s].rcvRing
        returned(x) == [hist EXCEPT ![s].got = @ \o x]
    IN  /\ app[a].pc = "idle" /\ s # 0 /\ ioLock = Nobody /\ ring # << >>
        /\ \E n \in 1 .. Len(ring) :
             /\ sock' = [sock EXCEPT ![s].rcvRing = SubSeq(ring, n + 1, Len(ring))]
             /\ IF sock[s].type = "SOCK_STREAM"
                THEN hist' = returned(SubSeq(ring, 1, n))
                ELSE /\ EndsAt(ring, n)
                     /\ hist' = IF n = 1 THEN hist ELSE returned(<<SubSeq(ring, 2, n)>>)
        /\ UNCHANGED <<tasks, ioLock, sockArray, flags, at, deal, cmds, modem,
                       lookups, lates, trouble>>

-----------------------------------------------------------------------------
(* The modem and the peers *)

\* After the prompt whatever comes is the data.
modem_data ==
    /\ cmds # << >> /\ prompted # -1
    /\ hist' = [hist EXCEPT ![link[prompted]].net = Append(@, Head(cmds))]
    /\ uart' = Append(uart, Answer("SEND OK"))
    /\ prompted' = -1 /\ cmds' = Tail(cmds)
    /\ UNCHANGED <<tasks, ioLock, sockets, flags, at, deal, link, lookups, lates,
                   trouble>>

modem_command ==
    /\ cmds # << >> /\ prompted = -1
    /\ LET c == Head(cmds)
           answers(text) == uart' = Append(uart, Answer(text))
       IN  \/ /\ c.kind = "AT+CIPSTART" /\ link[c.fd] = 0
              /\ link' = [link EXCEPT ![c.fd] = c.sock]
              /\ answers("OK") /\ UNCHANGED prompted
           \/ /\ c.kind = "AT+CIPSEND" /\ link[c.fd] # 0
              /\ prompted' = c.fd /\ answers(">") /\ UNCHANGED link
           \/ /\ c.kind = "AT+CIPCLOSE" /\ link[c.fd] # 0
              /\ link' = [link EXCEPT ![c.fd] = 0]
              /\ answers("OK") /\ UNCHANGED prompted
           \/ /\ c.kind = "AT+CIPDOMAIN"
              /\ answers("+CIPDOMAIN") /\ UNCHANGED <<link, prompted>>
           \/ /\ \/ c.kind = "data"
                 \/ c.kind = "AT+CIPSTART" /\ link[c.fd] # 0
                 \/ c.kind \in {"AT+CIPSEND", "AT+CIPCLOSE"} /\ link[c.fd] = 0
              /\ answers("ERROR") /\ UNCHANGED <<link, prompted>>
    /\ cmds' = Tail(cmds)
    /\ UNCHANGED <<tasks, ioLock, sockets, flags, at, deal, history>>

Frames == FoldLeft(LAMBDA n, h : n + Len(h.peer), 0, hist)
peer_sends(fd, len) ==
    /\ link[fd] # 0 /\ Frames < MaxFrames
    /\ len \in IF sock[link[fd]].type = "SOCK_STREAM" THEN StreamLens ELSE DatagramLens
    /\ LET s == link[fd]
           f == Ipd(fd, s, Len(hist[s].peer) + 1, len)
       IN  /\ uart' = Append(uart, f)
           /\ hist' = [hist EXCEPT ![s].peer = Append(@, f)]
    /\ UNCHANGED <<tasks, ioLock, sockets, flags, at, deal, cmds, link, prompted,
                   lookups, lates, trouble>>

-----------------------------------------------------------------------------
Init ==
    /\ app = [a \in Apps |-> [pc |-> "idle", sock |-> 0, next |-> "idle"]]
    /\ atLock = Nobody /\ ioLock = Nobody
    /\ sock = << >> /\ sockArray = [fd \in Fds |-> 0]
    /\ flags = [sendIndex |-> FALSE, sendOK |-> FALSE]
    /\ at = NoCommand
    /\ deal = [w \in Apps \cup {Rcv} |-> [parts |-> << >>, sock |-> 0]]
    /\ cmds = << >> /\ link = [fd \in Fds |-> 0] /\ prompted = -1 /\ uart = << >>
    /\ hist = << >> /\ lookups = 0 /\ lates = 0 /\ trouble = {}

Close(a) ==
    \/ Esp8266Close(a) \/ close_return(a) \/ Esp8266SockFree(a)
Connect(a) ==
    \/ \E next \in {"idle", "send"} : Esp8266Connect(a, next) 
    \/ connect_return(a)
Send(a) ==
    \/ Esp8266Send(a) \/ cipsend_return(a)
    \/ data_command(a) \/ data_return(a) \/ send_return(a)
GetHostByName(a) ==
    Esp8266GetHostByName(a) \/ lookup_return(a)

Next ==
    \/ \E a \in Apps :
         \/ \E type \in Types, garbage \in BOOLEAN : Esp8266Socket(a, type, garbage)
         \/ Close(a) \/ Connect(a) \/ Send(a) \/ Esp8266Recv(a) \/ GetHostByName(a)
    \/ \E w \in Apps \cup {Rcv} : Esp8266MsgDeal(w)
    \/ \E n \in 1 .. MaxChunk : rcv_task(n)
    \/ modem_data \/ modem_command
    \/ \E fd \in Fds, len \in StreamLens \cup DatagramLens : peer_sends(fd, len)

Spec == Init /\ [][Next]_vars

-----------------------------------------------------------------------------
(* Properties *)

Pcs == {"idle", "connect", "send", "cipsend", "data", "sending", "tail", "close",
        "free", "lookup"}

TypeOK ==
    /\ {app[a].pc : a \in Apps} \cup {app[a].next : a \in Apps} \subseteq Pcs
    /\ {app[a].sock : a \in Apps} \subseteq 0 .. Len(sock)
    /\ atLock \in Apps \cup {Nobody} /\ ioLock \in Apps \cup {Rcv, Nobody}
    /\ sockArray \in [Fds -> 0 .. Len(sock)] /\ link \in [Fds -> 0 .. Len(sock)]
    /\ prompted \in Fds \cup {-1} /\ Len(hist) = Len(sock)
    /\ \A s \in DOMAIN sock : Len(sock[s].rcvRing) <= RCVCACHE

\* What goes wrong by itself, as the code is:
\*   late         an answer came after CONFIG_ESP8266_CMDTIMEOUT,
\*   lost_prompt  a frame for which there was no room made Esp8266MsgDeal drop
\*                the prompt behind it: the modem waits for data that no one
\*                sends, and takes the next command for them,
\*   between      Esp8266GetHostByName, which takes no atLock, came between the
\*                prompt of the modem and the data: the modem sends its command,
\*   full         a frame found no room: it is dropped with the rest of the
\*                chunk, which may be for other sockets,
\*   swallowed    a frame came behind an answer other than SEND OK,
\*   appended     a frame came behind SEND OK: the sender deals with it, and
\*                the receive task may be faster with a later one,
\*   tight        there was room for a datagram, but not for its header.
\* After the first two commands and answers no longer belong together.
InStep == trouble \cap {"late", "lost_prompt"} = {}

\* The units of the frames of a socket among parts of what the modem wrote.
UnitsIn(parts, s, type) ==
    FoldLeft(LAMBDA all, part : IF IsIpd(part) /\ part.sock = s
                                THEN all \o Units(part, type) ELSE all, << >>, parts)
UnitsOf(s, parts) == UnitsIn(parts, s, sock[s].type)

\* A stream arrives: what Esp8266Recv returned, what is in the ring buffer and
\* what is still on the way are together what the peer sent on this connection,
\* in order and nothing else.  Neither the frames of other sockets, the answers
\* in between, a close nor a socket that gets an entry of the table after
\* another one disturb it.
StreamIntact ==
    InStep /\ trouble \cap {"full", "swallowed", "appended"} = {} =>
      \A fd \in Fds : LET s == sockArray[fd] IN
        s # 0 /\ sock[s].type = "SOCK_STREAM" =>
          hist[s].got \o sock[s].rcvRing \o UnitsOf(s, deal[Rcv].parts \o uart)
            = UnitsOf(s, hist[s].peer)

\* Esp8266Recv returns a datagram as a whole and never two in one, although the
\* ring buffer knows no datagrams and the test of the room forgets the header.
DatagramsWhole ==
    InStep /\ "tight" \notin trouble =>
      \A s \in DOMAIN sock : sock[s].type = "SOCK_DGRAM" =>
        \A j \in DOMAIN hist[s].got : \E k \in DOMAIN hist[s].peer :
          hist[s].got[j] = Tail(UnitsOf(s, <<hist[s].peer[k]>>))

\* Esp8266Close frees the socket without ioLock.  Still no task is just then
\* dealing with a frame for it: the answer to AT+CIPCLOSE comes behind the last
\* of its frames.
DealsWithLiveSockets ==
    /\ TypeOK
    /\ InStep => \A w \in DOMAIN deal : deal[w].sock # 0 => sock[deal[w].sock].live

\* "this two at command must be executed in sequence in lock": the modem sends
\* the data of Esp8266Send and nothing else, over the connection of the socket,
\* and when Esp8266Send returns len it has sent them.
SendInSequence ==
    InStep /\ "between" \notin trouble =>
      \A s \in DOMAIN hist :
        LET net == {hist[s].net[i] : i \in DOMAIN hist[s].net}
        IN  /\ net \subseteq {Payload(s, n) : n \in 1 .. hist[s].offered}
            /\ {Payload(s, n) : n \in hist[s].acked} \subseteq net
=============================================================================
