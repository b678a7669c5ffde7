------------------------------ MODULE ByteFifo ------------------------------
(***************************************************************************)
(* What a ring buffer of link_misc promises: a byte stream of at most Cap  *)
(* bytes, of which a write appends as much as fits and a read removes as   *)
(* much as there is; both report how much that was.                        *)
(***************************************************************************)
EXTENDS Integers, Sequences

CONSTANTS Bytes, Cap, MaxLen

VARIABLES
    stream,   \* the bytes written and not yet read, oldest first
    ready,    \* the ring has a buffer
    ret,      \* what the last call returned
    out       \* the bytes the last read delivered

byteVars == <<stream, ready, ret, out>>

ByteInit == stream = << >> /\ ready = FALSE /\ ret = 0 /\ out = << >>

\* At most n of the available bytes are moved.
Moved(n, available) == IF n > available THEN available ELSE n

Write(data) ==
    LET room == IF ready THEN Cap - Len(stream) ELSE 0
        n == Moved(Len(data), room)
    IN  /\ stream' = stream \o SubSeq(data, 1, n)
        /\ ret' = IF data = << >> THEN -1 ELSE n
        /\ out' = << >>
        /\ UNCHANGED ready

Read(len) ==
    LET n == Moved(len, Len(stream))
    IN  /\ out' = SubSeq(stream, 1, n)
        /\ stream' = SubSeq(stream, n + 1, Len(stream))
        /\ ret' = IF len = 0 THEN -1 ELSE n
        /\ UNCHANGED ready

\* Initialising, resetting and releasing the ring drop its content.
Restart == stream' = << >> /\ ready' \in BOOLEAN /\ ret' = 0 /\ out' = << >>

ByteNext ==
    \/ \E n \in 0 .. MaxLen : \/ \E data \in [1 .. n -> Bytes] : Write(data)
                              \/ Read(n)
    \/ Restart

ByteSpec == ByteInit /\ [][ByteNext]_byteVars
=============================================================================
