----------------------------- MODULE RingBuffer -----------------------------
(***************************************************************************)
(* The ring buffer of link_misc/link_ring_buffer.c, the cache between an   *)
(* AT modem and its sockets.  A call moves its bytes with at most two      *)
(* memcpy, one up to the end of the buffer and one from its start; which   *)
(* of them happen, where and how long is the whole difficulty.  Calls are  *)
(* atomic: the sockets of the modems make them under a lock.               *)
(*                                                                         *)
(* Definitions named M_... are deliberate faults the runs must detect; the *)
(* specification uses none of them.                                        *)
(***************************************************************************)
EXTENDS Integers, Sequences

CONSTANTS
    Bytes,   \* the byte values told apart
    RingLen,  \* length of the buffer given to ring_buffer_init
    MaxLen   \* bound on the length of one write or read

ASSUME RingLengths == RingLen \in Nat \ {0} /\ MaxLen \in Nat

VARIABLES
    mem,      \* ring->buf, the bytes at its RingLen places
    buflen,   \* ring->buflen, 0 before ring_buffer_init and after deinit
    datalen,  \* ring->datalen
    dataoff,  \* ring->dataoff
    ring_ret,      \* what the last call returned
    out,      \* the bytes the last ring_buffer_read stored
    moves     \* the (at most) two memcpy of the last call

ring == <<buflen, datalen, dataoff>>
ring_vars == <<mem, ring, ring_ret, out, moves>>

Places == 0 .. RingLen - 1

\* A memcpy of n bytes that starts at place `at` of the ring; one of no bytes
\* stands for a memcpy the code skips.
Move(at, n) == [at |-> at, n |-> n]
Skip == Move(0, 0)
Idle == <<Skip, Skip>>

ring_buffer_init ==
    /\ buflen' = RingLen /\ datalen' = 0 /\ dataoff' = 0
    /\ ring_ret' = 0 /\ out' = << >> /\ moves' = Idle
    /\ UNCHANGED mem

-----------------------------------------------------------------------------
\* ring_buffer_write of n bytes, n no more than the free space.  If the data
\* wraps already, all goes behind its end; if it will wrap, a first part fills
\* the buffer up to its end.
M_WriteNeverSplits(n) ==
    IF dataoff + datalen > buflen THEN Move((dataoff + datalen) % buflen, n)
    ELSE Skip
WriteFirst(n) ==
    LET tail == dataoff + datalen
    IN  IF tail > buflen THEN Move(tail % buflen, n)
        ELSE IF tail + n > buflen THEN Move(tail, buflen - tail)
        ELSE Skip

\* What is left then goes to the place behind what the first part wrote.
WriteRest(n, first) == Move((dataoff + datalen + first.n) % buflen, n - first.n)

\* Place i receives the byte that the memcpy covering it brings there.
Stored(data, first, rest) ==
    [i \in Places |->
        IF rest.at <= i /\ i < rest.at + rest.n
        THEN data[first.n + i - rest.at + 1]
        ELSE IF first.at <= i /\ i < first.at + first.n
        THEN data[i - first.at + 1]
        ELSE mem[i]]

WriteCount(len) == IF len > buflen - datalen THEN buflen - datalen ELSE len

ring_buffer_write(data) ==
    LET n == WriteCount(Len(data))
        first == WriteFirst(n)
        rest == WriteRest(n, first)
    IN  /\ out' = << >>
        /\ IF Len(data) = 0
           THEN ring_ret' = -1 /\ moves' = Idle /\ UNCHANGED <<mem, ring>>
           ELSE IF datalen = buflen \/ buflen <= 0
           THEN ring_ret' = 0 /\ moves' = Idle /\ UNCHANGED <<mem, ring>>
           ELSE /\ ring_ret' = n
                /\ moves' = <<first, rest>>
                /\ mem' = Stored(data, first, rest)
                /\ datalen' = datalen + n
                /\ UNCHANGED <<buflen, dataoff>>

-----------------------------------------------------------------------------
\* ring_buffer_read of n bytes, n no more than the data.  If the data reaches
\* the end of the buffer, a first part is taken from there.
M_ReadFirstStrict(n) ==
    IF dataoff > buflen - n THEN Move(dataoff, buflen - dataoff) ELSE Skip
ReadFirst(n) ==
    IF dataoff >= buflen - n THEN Move(dataoff, buflen - dataoff) ELSE Skip

ReadRest(n, first) ==
    Move(IF first.n > 0 THEN (dataoff + first.n) % buflen ELSE dataoff,
         n - first.n)

Fetched(n, first, rest) ==
    [j \in 1 .. n |-> IF j <= first.n THEN mem[first.at + j - 1]
                      ELSE mem[rest.at + j - 1 - first.n]]

M_ReadCountIgnoresData(len) == IF len > buflen THEN buflen ELSE len
ReadCount(len) == IF len > datalen THEN datalen ELSE len

ring_buffer_read(len) ==
    LET n == ReadCount(len)
        first == ReadFirst(n)
        rest == ReadRest(n, first)
    IN  /\ UNCHANGED <<mem, buflen>>
        /\ IF len = 0
           THEN /\ ring_ret' = -1 /\ out' = << >> /\ moves' = Idle
                /\ UNCHANGED <<datalen, dataoff>>
           ELSE IF datalen = 0 \/ buflen <= 0
           THEN /\ ring_ret' = 0 /\ out' = << >> /\ moves' = Idle
                /\ UNCHANGED <<datalen, dataoff>>
           ELSE /\ ring_ret' = n
                /\ out' = Fetched(n, first, rest)
                /\ moves' = <<first, rest>>
                /\ datalen' = datalen - n
                /\ dataoff' = rest.at + rest.n

-----------------------------------------------------------------------------
ring_buffer_reset ==
    /\ datalen' = 0 /\ dataoff' = 0
    /\ ring_ret' = 0 /\ out' = << >> /\ moves' = Idle
    /\ UNCHANGED <<mem, buflen>>

ring_buffer_deinit ==
    /\ buflen' = 0 /\ datalen' = 0 /\ dataoff' = 0
    /\ ring_ret' = 0 /\ out' = << >> /\ moves' = Idle
    /\ UNCHANGED mem

RingInit ==
    /\ mem \in [Places -> Bytes]
    /\ buflen = 0 /\ datalen = 0 /\ dataoff = 0
    /\ ring_ret = 0 /\ out = << >> /\ moves = Idle

RingNext ==
    \/ ring_buffer_init
    \/ \E n \in 0 .. MaxLen :
          \/ \E data \in [1 .. n -> Bytes] : ring_buffer_write(data)
          \/ ring_buffer_read(n)
    \/ ring_buffer_reset
    \/ ring_buffer_deinit

RingSpec == RingInit /\ [][RingNext]_ring_vars

-----------------------------------------------------------------------------
\* The types; the data never outgrows the buffer and its offset stays inside,
\* although the last memcpy of a read moves it without a modulo.
RingTypeOK ==
    /\ mem \in [Places -> Bytes]
    /\ buflen \in {0, RingLen}
    /\ datalen \in 0 .. buflen
    /\ dataoff \in 0 .. RingLen - 1
    /\ buflen = 0 => dataoff = 0
    /\ ring_ret \in -1 .. RingLen

\* No memcpy of a write or a read starts or ends outside the ring, and
\* together they move exactly the bytes the call reports.
NoOverrun ==
    /\ \A k \in {1, 2} : /\ moves[k].n >= 0 /\ moves[k].at >= 0
                         /\ moves[k].at + moves[k].n <= RingLen
    /\ ring_ret > 0 => moves[1].n + moves[2].n = ring_ret
    /\ ring_ret <= 0 => moves = Idle

\* The i-th oldest byte lies i - 1 places behind dataoff, with wrap-around.
PlaceOf(i) == IF dataoff + i - 1 < RingLen THEN dataoff + i - 1
              ELSE dataoff + i - 1 - RingLen

Content == [i \in 1 .. datalen |-> mem[PlaceOf(i)]]

Stream == INSTANCE ByteFifo WITH
              Cap <- RingLen, stream <- Content, ready <- buflen > 0,
              ret <- ring_ret

\* The ring is a byte stream: whatever the offset, the lengths and the
\* wrap-arounds, reads deliver the bytes written, in order, once each.
StreamRefinement == Stream!ByteSpec
=============================================================================
