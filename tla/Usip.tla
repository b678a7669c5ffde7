-------------------------------- MODULE Usip --------------------------------
(***************************************************************************)
(* USIP, the serial protocol of usip/usip.c: two stations, an MCU and a    *)
(* WIFI module, send each other messages over a UART.  A message is cut    *)
(* into packages; each package is a frame that usip_send_tlv sends again   *)
(* until an acknowledgement comes or USIP_MAX_ARQ_TIMES timeouts passed.   *)
(*                                                                         *)
(* Each station has a task that sends, a task of higher priority that      *)
(* receives, acknowledges and delivers, and the interrupt that puts the    *)
(* bytes of the line into frames.  The receive task is one step per frame: *)
(* only interrupts run meanwhile, and they touch slots it does not read.   *)
(* On the line a transmission is a sequence of items: the END marks and    *)
(* what is between two of them.  Payload bytes, the escape codec and the   *)
(* CRC are left out: a damaged frame is Noise, which the CRC detects.      *)
(*                                                                         *)
(* Definitions named M_... are deliberate faults the runs must detect; the *)
(* specification uses none of them.                                        *)
(***************************************************************************)
EXTENDS Integers, Sequences, SequencesExt

CONSTANTS
    Stations,          \* the two ends of the line
    Sizes,             \* the packages of a message; 0 is a message of no bytes
    USIP_UART_SKB_NUM, \* slots of g_skb (16 in the code)
    USIP_MAX_ARQ_TIMES,
    USIP_SEQ_MAX,      \* 0x7F in the code
    MaxSent,           \* bound: the calls of usip_send_data
    MaxFaults,         \* bound: transmissions that the line damages
    MaxLate            \* bound: timeouts before the answer had its chance

ASSUME TwoEnds == \E a, b \in Stations : a # b /\ Stations = {a, b}
ASSUME Bounds ==
    /\ Sizes \subseteq Nat /\ MaxSent \in Nat
    /\ USIP_UART_SKB_NUM \in Nat \ {0} /\ USIP_MAX_ARQ_TIMES \in Nat
    /\ USIP_SEQ_MAX \in Nat /\ MaxFaults \in Nat /\ MaxLate \in Nat

VARIABLES
    snd,        \* the sending task: pc, size and package of its message,
                \* loop_cnt, and whether an ack broke into what it was doing
    g_seq,      \* the next sequence number
    g_wait_seq, \* the sequence number whose ack is awaited
    send_buf,   \* g_usip_send_buf, which data frames and acks share
    ack_sem,    \* the count of usip_wait_ack_sem
    line,       \* the transmissions on their way to each station
    uart,       \* is_receive_frame_head, the bytes since, g_skb, its indexes
    rx_sem,     \* the count of usip_uart_rx_sem
    list,       \* the list of usip_rec_task
    last_rcvd,  \* g_last_pkgnum_received
    sent, result, got, taken, trouble, faults, lates

sender == <<snd, g_seq, g_wait_seq>>
receiver == <<list, last_rcvd, got, taken>>
\* What only the properties read: the sizes of the messages that each station
\* sent and what usip_send_data returned, the messages its callback got, the
\* packages its receive task took, and what has gone wrong so far.
history == <<sent, result>>
vars == <<sender, send_buf, ack_sem, line, uart, rx_sem, receiver, history,
          trouble, faults, lates>>

Peer(s) == CHOOSE p \in Stations : p # s

-----------------------------------------------------------------------------
(* What the line carries *)

None == [kind |-> "none"]
Noise == [kind |-> "noise"]
End == [kind |-> "end"]
\* ESC followed by neither ESC_END nor ESC_ESC.
BadEsc == [kind |-> "badesc"]
Ack(seq) == [kind |-> "ack", seq |-> seq]
Data(seq, msg, pkg, last, bytes) ==
    [kind |-> "data", seq |-> seq, msg |-> msg, pkg |-> pkg, last |-> last,
     bytes |-> bytes]
Frame(body) == <<End, body, End>>

M_OnePackageLess(size) == IF size < 2 THEN 0 ELSE size - 2
LastPackage(size) == IF size = 0 THEN 0 ELSE size - 1

\* The frame that convert_tlv_to_usip_frame builds for the sending task.
Package(s) ==
    Data(g_wait_seq[s], Len(sent[s]), snd[s].pkg,
         snd[s].pkg = LastPackage(snd[s].size), snd[s].size > 0)

\* What goes over the line from send_one_frame, or what is left of it after an
\* ack broke in.  An ack in the buffer has another length than the frame that
\* the sending task believes is there: no END comes where the frame ends.
Transmission(s) ==
    IF send_buf[s].kind = "ack"
    THEN IF snd[s].broken THEN <<Noise>> ELSE <<End, Noise>>
    ELSE Frame(send_buf[s])

-----------------------------------------------------------------------------
(* The sending task *)

get_seq(s) ==
    g_seq' = [g_seq EXCEPT ![s] = IF @ = USIP_SEQ_MAX THEN 0 ELSE @ + 1]

\* A message of too many packages is refused before this.
usip_send_data(s, size) ==
    /\ snd[s].pc = "idle" /\ Len(sent[s]) + Len(sent[Peer(s)]) < MaxSent
    /\ get_seq(s)
    /\ g_wait_seq' = [g_wait_seq EXCEPT ![s] = g_seq[s]]
    /\ snd' = [snd EXCEPT ![s] = [pc |-> "convert", size |-> size, pkg |-> 0,
                                  loop_cnt |-> 0, broken |-> FALSE]]
    /\ sent' = [sent EXCEPT ![s] = Append(@, size)]
    /\ trouble' = trouble \cup (IF size = 0 THEN {"empty"} ELSE {})
    /\ UNCHANGED <<send_buf, ack_sem, line, uart, rx_sem, receiver, result,
                   faults, lates>>

\* An ack may have been built in the midst of it, in the same buffer.
convert_tlv_to_usip_frame(s) ==
    /\ snd[s].pc = "convert"
    /\ send_buf' = [send_buf EXCEPT
                       ![s] = IF snd[s].broken THEN Noise ELSE Package(s)]
    /\ snd' = [snd EXCEPT ![s].pc = "send", ![s].broken = FALSE]
    /\ UNCHANGED <<g_seq, g_wait_seq, ack_sem, line, uart, rx_sem, receiver,
                   history, trouble, faults, lates>>

send_one_frame(s) ==
    /\ snd[s].pc = "send"
    /\ snd' = [snd EXCEPT ![s].pc = "sending", ![s].broken = FALSE]
    /\ UNCHANGED <<g_seq, g_wait_seq, send_buf, ack_sem, line, uart, rx_sem,
                   receiver, history, trouble, faults, lates>>

Return(s, code) ==
    /\ snd' = [snd EXCEPT ![s] = [pc |-> "idle", size |-> 0, pkg |-> 0,
                                  loop_cnt |-> 0, broken |-> FALSE]]
    /\ result' = [result EXCEPT ![s] = Append(@, code)]

\* After the last of the retransmissions the task does not wait any more.
LastTry(s) == snd[s].loop_cnt = USIP_MAX_ARQ_TIMES
frame_sent(s) ==
    /\ snd[s].pc = "sending"
    /\ line' = [line EXCEPT ![Peer(s)] = Append(@, Transmission(s))]
    /\ IF LastTry(s)
       THEN Return(s, "error")
       ELSE snd' = [snd EXCEPT ![s].pc = "wait"] /\ UNCHANGED result
    /\ trouble' = trouble
         \cup (IF LastTry(s) THEN {"gave_up"} ELSE {})
         \cup (IF send_buf[s].kind = "data" THEN {} ELSE {"shared"})
    /\ UNCHANGED <<g_seq, g_wait_seq, send_buf, ack_sem, uart, rx_sem,
                   receiver, sent, faults, lates>>

\* LOS_SemPend returns LOS_OK: the next package, or the message is through.
wait_ack(s) ==
    /\ snd[s].pc = "wait" /\ ack_sem[s] = 1
    /\ ack_sem' = [ack_sem EXCEPT ![s] = 0]
    /\ IF snd[s].pkg = LastPackage(snd[s].size)
       THEN Return(s, "ok")
       ELSE /\ snd' = [snd EXCEPT ![s].pc = "convert", ![s].pkg = @ + 1,
                                  ![s].loop_cnt = 0]
            /\ UNCHANGED result
    /\ UNCHANGED <<g_seq, g_wait_seq, send_buf, line, uart, rx_sem, receiver,
                   sent, trouble, faults, lates>>

\* Nothing is on its way and both receive tasks have run: no answer will come.
Quiet == \A s \in Stations : line[s] = << >> /\ rx_sem[s] = 0

\* LOS_SemPend returns after USIP_WAIT_ACK_TIMEOUT; the answer may still come.
wait_timeout(s) ==
    /\ snd[s].pc = "wait" /\ ack_sem[s] = 0
    /\ snd' = [snd EXCEPT ![s].pc = "send", ![s].loop_cnt = @ + 1]
    /\ IF Quiet
       THEN UNCHANGED <<trouble, lates>>
       ELSE /\ lates < MaxLate /\ lates' = lates + 1
            /\ trouble' = trouble \cup {"late"}
    /\ UNCHANGED <<g_seq, g_wait_seq, send_buf, ack_sem, line, uart, rx_sem,
                   receiver, history, faults>>

-----------------------------------------------------------------------------
(* The interrupt, receive_one_byte *)

M_HeadKept(u) ==
    IF ~u.head THEN [u EXCEPT !.head = TRUE]
    ELSE IF u.bytes = None THEN u
    ELSE [u EXCEPT !.bytes = None, !.skb[u.w] = u.bytes,
                   !.w = (@ + 1) % USIP_UART_SKB_NUM,
                   !.unread = @ + 1, !.posts = @ + 1]

\* An END that ends nothing, or that has nothing to end, only changes whether
\* the next one is taken for the head of a frame.
OnEnd(u) ==
    IF ~u.head
    THEN [u EXCEPT !.head = TRUE,
                   !.skb[u.w] = IF @ = None THEN None ELSE Noise]
    ELSE IF u.bytes = None
    THEN [u EXCEPT !.head = FALSE]
    ELSE [u EXCEPT !.head = FALSE, !.bytes = None, !.skb[u.w] = u.bytes,
                   !.w = (@ + 1) % USIP_UART_SKB_NUM,
                   !.unread = @ + 1, !.posts = @ + 1]

receive_item(u, x) ==
    IF x = End THEN OnEnd(u)
    ELSE IF ~u.head THEN u
    ELSE IF x = BadEsc
    THEN [u EXCEPT !.head = FALSE, !.bytes = None, !.skb[u.w] = None]
    ELSE [u EXCEPT !.bytes = IF @ = None THEN x ELSE Noise]

receive_transmission(s, t, what) ==
    LET u == FoldLeft(receive_item, uart[s], t)
        posts == u.posts + rx_sem[s]
    IN  /\ line' = [line EXCEPT ![s] = Tail(@)]
        /\ uart' = [uart EXCEPT ![s] = [u EXCEPT !.posts = 0]]
        /\ rx_sem' = [rx_sem EXCEPT ![s] = IF posts = 0 THEN 0 ELSE 1]
        /\ trouble' = trouble \cup (IF posts > 1 THEN {"token"} ELSE {}) \cup what
        /\ UNCHANGED <<sender, send_buf, ack_sem, receiver, history, lates>>

receive_one_byte(s) ==
    /\ line[s] # << >>
    /\ receive_transmission(s, Head(line[s]), {})
    /\ UNCHANGED faults

\* The line damages what is between two ENDs: the CRC detects it, or it
\* becomes a wrong escape sequence.  Or an END is lost.
Damaged(t, x) ==
    IF x = End THEN IF Last(t) = End THEN Front(t) ELSE Tail(t)
    ELSE [i \in DOMAIN t |-> IF t[i] = End THEN End ELSE x]
line_fault(s, x) ==
    /\ line[s] # << >> /\ faults < MaxFaults
    /\ receive_transmission(s, Damaged(Head(line[s]), x),
         IF x # Noise THEN {"framing"}
         ELSE IF \E i \in DOMAIN Head(line[s]) : Head(line[s])[i].kind = "ack"
         THEN {"ack"} ELSE {"data"})
    /\ faults' = faults + 1

-----------------------------------------------------------------------------
(* The receive task, usip_rec_task *)

\* usip_send_ack uses the buffer of the sending task.  When the task was just
\* sending a byte, the UART is busy and takes none of the ack; otherwise the
\* ack is put between two bytes of the frame.
usip_send_ack(s, seq) ==
    LET out(t) == line' = [line EXCEPT ![Peer(s)] = Append(@, t)]
        break == snd' = [snd EXCEPT ![s].broken = TRUE]
        part == IF snd[s].broken THEN <<Noise>> ELSE <<End, Noise>>
    IN  /\ send_buf' = [send_buf EXCEPT ![s] = Ack(seq)]
        /\ \/ snd[s].pc # "sending" /\ out(Frame(Ack(seq))) /\ UNCHANGED snd
           \/ snd[s].pc = "convert" /\ out(Frame(Ack(seq))) /\ break
           \/ snd[s].pc = "sending" /\ UNCHANGED <<line, snd>>
           \/ snd[s].pc = "sending" /\ out(part \o Frame(Ack(seq))) /\ break

\* usip_send_ack(seq, cmd, pkg_num): the ack carries the sequence number.
M_AcksPackage(d) == d.pkg
AckSeq(d) == d.seq

\* The node of the frame that was read is listed; when the last package has
\* been seen, the callback gets what is listed, with the cmd of this node.
Blank == [msg |-> 0, pkg |-> 0]
\* The data of the nodes one after the other.
get_data_frame_list(nodes) ==
    FoldLeft(LAMBDA data, n : IF n = Blank THEN data ELSE Append(data, n),
             << >>, nodes)
M_ListKept(s, node, flag) ==
    LET nodes == Append(list[s], node)
    IN  /\ list' = [list EXCEPT ![s] = nodes]
        /\ last_rcvd' = [last_rcvd EXCEPT ![s] = FALSE]
        /\ got' = IF flag THEN [got EXCEPT ![s] = Append(@, nodes)] ELSE got
Listed(s, node, flag) ==
    LET nodes == Append(list[s], node)
    IN  IF flag
        THEN /\ got' = [got EXCEPT ![s] = Append(@, get_data_frame_list(nodes))]
             /\ list' = [list EXCEPT ![s] = << >>]
             /\ last_rcvd' = [last_rcvd EXCEPT ![s] = FALSE]
        ELSE /\ list' = [list EXCEPT ![s] = nodes]
             /\ last_rcvd' = [last_rcvd EXCEPT ![s] = flag]
             /\ UNCHANGED got

Slot(s) == uart[s].skb[uart[s].r]
M_IndexKept(s, slot) ==
    [uart EXCEPT ![s].skb[uart[s].r] = slot]
Consumed(s, slot) ==
    [uart EXCEPT ![s].skb[uart[s].r] = slot,
                 ![s].r = (@ + 1) % USIP_UART_SKB_NUM, ![s].unread = @ - 1]

TakeToken(s) == rx_sem[s] = 1 /\ rx_sem' = [rx_sem EXCEPT ![s] = 0]

\* USIP_ERROR, 0xFF, comes back as an UINT8 above USIP_OK: an empty node for
\* a frame that is ignored is listed as if it held data.
read_bad_frame(s) ==
    /\ Slot(s) \in {None, Noise}
    /\ TakeToken(s)
    /\ uart' = Consumed(s, None)
    /\ Listed(s, Blank, last_rcvd[s])
    /\ UNCHANGED <<sender, send_buf, ack_sem, line, taken, history, trouble,
                   faults, lates>>

\* The ack of another sequence number stays in its slot.
read_ack(s) ==
    /\ Slot(s).kind = "ack"
    /\ TakeToken(s)
    /\ IF Slot(s).seq = g_wait_seq[s]
       THEN /\ ack_sem' = [ack_sem EXCEPT ![s] = 1]
            /\ uart' = Consumed(s, None)
            /\ last_rcvd' = [last_rcvd EXCEPT ![s] = FALSE]
            /\ UNCHANGED <<list, got>>
       ELSE /\ Listed(s, Blank, FALSE)
            /\ UNCHANGED <<ack_sem, uart>>
    /\ UNCHANGED <<sender, send_buf, line, taken, history, trouble, faults,
                   lates>>

\* A package without data returns 0, like an ack: its node is not listed.
read_data(s) ==
    /\ Slot(s).kind = "data"
    /\ TakeToken(s)
    /\ usip_send_ack(s, AckSeq(Slot(s)))
    /\ uart' = Consumed(s, Slot(s))
    /\ LET d == Slot(s)
           flag == d.last \/ last_rcvd[s]
           node == [msg |-> d.msg, pkg |-> d.pkg]
       IN  /\ taken' = [taken EXCEPT ![s] = @ \cup {node}]
           /\ IF d.bytes
              THEN Listed(s, node, flag)
              ELSE /\ last_rcvd' = [last_rcvd EXCEPT ![s] = flag]
                   /\ UNCHANGED <<list, got>>
    /\ trouble' = trouble \cup
         (IF snd[s].pc \in {"convert", "sending"} THEN {"shared"} ELSE {})
    /\ UNCHANGED <<g_seq, g_wait_seq, ack_sem, history, faults, lates>>

-----------------------------------------------------------------------------
\* usip_init, and both tasks are there with a callback registered.
Init ==
    /\ snd = [s \in Stations |-> [pc |-> "idle", size |-> 0, pkg |-> 0,
                                  loop_cnt |-> 0, broken |-> FALSE]]
    /\ g_seq = [s \in Stations |-> 0] /\ g_wait_seq = [s \in Stations |-> 0]
    /\ send_buf = [s \in Stations |-> None]
    /\ ack_sem = [s \in Stations |-> 0] /\ rx_sem = [s \in Stations |-> 0]
    /\ line = [s \in Stations |-> << >>]
    /\ uart = [s \in Stations |->
                 [head |-> FALSE, bytes |-> None, posts |-> 0,
                  skb |-> [i \in 0 .. USIP_UART_SKB_NUM - 1 |-> None],
                  w |-> 0, r |-> 0, unread |-> 0]]
    /\ list = [s \in Stations |-> << >>]
    /\ last_rcvd = [s \in Stations |-> FALSE]
    /\ sent = [s \in Stations |-> << >>] /\ result = [s \in Stations |-> << >>]
    /\ got = [s \in Stations |-> << >>] /\ taken = [s \in Stations |-> {}]
    /\ trouble = {} /\ faults = 0 /\ lates = 0

usip_send_tlv(s) ==
    \/ convert_tlv_to_usip_frame(s) \/ send_one_frame(s) \/ frame_sent(s)
    \/ wait_ack(s) \/ wait_timeout(s)

usip_rec_task(s) == read_bad_frame(s) \/ read_ack(s) \/ read_data(s)

Next ==
    \E s \in Stations :
        \/ \E size \in Sizes : usip_send_data(s, size)
        \/ usip_send_tlv(s)
        \/ receive_one_byte(s)
        \/ \E x \in {Noise, BadEsc, End} : line_fault(s, x)
        \/ usip_rec_task(s)

Spec == Init /\ [][Next]_vars

-----------------------------------------------------------------------------
(* Properties *)

Codes == {"ok", "error"}
Bodies ==
    {None, Noise} \cup {Ack(q) : q \in 0 .. USIP_SEQ_MAX} \cup
    {Data(q, m, p, l, b) : q \in 0 .. USIP_SEQ_MAX, m \in 1 .. MaxSent,
         p \in UNION {0 .. LastPackage(n) : n \in Sizes}, l, b \in BOOLEAN}

\* Every variable keeps the type of the code's field; the semaphores are
\* binary and the indexes stay within g_skb.
TypeOK ==
    /\ {g_seq, g_wait_seq} \subseteq [Stations -> 0 .. USIP_SEQ_MAX]
    /\ {ack_sem, rx_sem} \subseteq [Stations -> 0 .. 1]
    /\ send_buf \in [Stations -> Bodies]
    /\ last_rcvd \in [Stations -> BOOLEAN]
    /\ \A s \in Stations :
         /\ snd[s].pc \in {"idle", "convert", "send", "sending", "wait"}
         /\ snd[s].loop_cnt \in 0 .. USIP_MAX_ARQ_TIMES
         /\ snd[s].pkg \in 0 .. LastPackage(snd[s].size)
         /\ uart[s].skb \in [0 .. USIP_UART_SKB_NUM - 1 -> Bodies]
         /\ {uart[s].w, uart[s].r} \subseteq 0 .. USIP_UART_SKB_NUM - 1
         /\ uart[s].bytes \in Bodies /\ (uart[s].bytes # None => uart[s].head)
         /\ result[s] \in Seq(Codes)

Message(s, m) == [i \in 1 .. sent[s][m] |-> [msg |-> m, pkg |-> i - 1]]
Packages(s, m) ==
    {[msg |-> m, pkg |-> p] : p \in 0 .. IF sent[s][m] = 0 THEN 0 ELSE sent[s][m] - 1}

\* Where retransmission does its work: while the line damages nothing but
\* frames with data, and never one package so often that usip_send_tlv gives
\* up, the callback gets each message once, whole and in order.  Every other
\* trouble loses, repeats or joins messages: the receiver compares no sequence
\* or package number.
ExactlyOnce ==
    trouble \subseteq {"data"} =>
      \A s \in Stations :
        got[Peer(s)] \in {[m \in 1 .. k |-> Message(s, m)] : k \in 0 .. Len(sent[s])}

\* "return 0 means success": every package of the message was taken by the
\* receive task of the peer.
OkMeansReceived ==
    \A s \in Stations : \A m \in DOMAIN result[s] :
        result[s][m] = "ok" => Packages(s, m) \subseteq taken[Peer(s)]

\* Every ack found the sending task waiting for it: no timeout came before the
\* answer, no answer to the last retransmission (for which nobody waits) was
\* left over, and none was held up in a slot or for want of its END.
Awaited == trouble \cap {"late", "gave_up", "token", "framing"} = {}

\* Then a return of 0 does mean success, also when frames and acks are damaged
\* and both stations send at a time.
AwaitedOkMeansReceived == Awaited => OkMeansReceived

\* An ack of an earlier sequence number is never taken out of g_skb: the read
\* index stays where it is and all that comes later waits behind it.  This does
\* not happen while every ack is awaited.
StaleAck(s) == Slot(s).kind = "ack" /\ Slot(s).seq # g_wait_seq[s]
NeverStuck == Awaited => \A s \in Stations : ~StaleAck(s)

\* Every variable has its type, and between two transmissions the interrupt
\* waits for the head of a frame.  An END too few turns heads and ends round,
\* and nothing turns them back: it must come from the line, or from the two
\* tasks meeting in g_usip_send_buf.
InStep ==
    /\ TypeOK
    /\ trouble \cap {"framing", "shared"} = {} => \A s \in Stations : ~uart[s].head

\* A frame in g_skb has a token in the semaphore: "if a frame has been written
\* to the receive buffer, then active it".  So no frame waits for the next one
\* to be read, unless two came before the receive task ran ("token") or an ack
\* blocks the read index.
NoFrameForgotten ==
    Awaited => \A s \in Stations : uart[s].unread = rx_sem[s]
=============================================================================
