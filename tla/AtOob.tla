------------------------------- MODULE AtOob --------------------------------
(***************************************************************************)
(* The table of out of band dealers of at/at.c.  at_oobregister fills a    *)
(* free slot field by field, without a lock, while the receiver task walks *)
(* the table in __oob_match for every frame.                               *)
(*                                                                         *)
(* Each task registers one dealer, named after the task; its index, its    *)
(* function and its arguments are named after it too.  Frames start with   *)
(* the index of a dealer.                                                  *)
(*                                                                         *)
(* The fields become visible in the order the code writes them, as they do *)
(* on one core when the compiler keeps that order.                         *)
(*                                                                         *)
(* Definitions named M_... are deliberate faults the runs must detect; the *)
(* specification uses none of them.                                        *)
(***************************************************************************)
EXTENDS Integers, Sequences

CONSTANTS
    Dealers,  \* the dealers, and the tasks that register them
    Null,     \* a field that at_init has zeroed
    Slots     \* CONFIG_AT_OOBTABLEN

ASSUME NullIsNothing == Null \notin Dealers /\ Null \notin {0, -1}
ASSUME SlotCount == Slots \in Nat \ {0}

VARIABLES
    oob,     \* g_at_cb.oob
    reg_pc,  \* the next field each task writes, or where else it is
    slot,    \* i of each at_oobregister
    reg_ret, \* what each at_oobregister returned
    rcv      \* the receiver: the frame it has, its i, and the call it makes

oob_vars == <<oob, reg_pc, slot, reg_ret, rcv>>

Blank == [index |-> Null, len |-> Null, func |-> Null, args |-> Null]
NoCall == [frame |-> Null, i |-> 1, func |-> Null, args |-> Null]

\* The field written after f; the name is not read by anybody.
M_FuncFirst(f) == [scan |-> "func", func |-> "index", index |-> "len",
                   len |-> "args", args |-> "done"][f]
FieldAfter(f) == [scan |-> "index", index |-> "len", len |-> "func",
                  func |-> "args", args |-> "done"][f]

at_oobregister(d) ==
    /\ reg_pc[d] = "idle"
    /\ reg_pc' = [reg_pc EXCEPT ![d] = "scan"]
    /\ slot' = [slot EXCEPT ![d] = 1]
    /\ UNCHANGED <<oob, reg_ret, rcv>>

\* One turn of its loop: the slot is free and will be filled, or the next one
\* is looked at; a full table fails.
M_TakesAny(i) == TRUE
Free(i) == oob[i].func = Null /\ oob[i].index = Null

register_scan(d) ==
    /\ reg_pc[d] = "scan"
    /\ IF slot[d] > Slots
       THEN /\ reg_ret' = [reg_ret EXCEPT ![d] = -1]
            /\ reg_pc' = [reg_pc EXCEPT ![d] = "returned"]
            /\ UNCHANGED slot
       ELSE IF Free(slot[d])
       THEN /\ reg_pc' = [reg_pc EXCEPT ![d] = FieldAfter("scan")]
            /\ UNCHANGED <<slot, reg_ret>>
       ELSE slot' = [slot EXCEPT ![d] = @ + 1] /\ UNCHANGED <<reg_pc, reg_ret>>
    /\ UNCHANGED <<oob, rcv>>

register_write(d) ==
    /\ reg_pc[d] \in {"index", "len", "func", "args"}
    /\ oob' = [oob EXCEPT ![slot[d]][reg_pc[d]] = d]
    /\ reg_pc' = [reg_pc EXCEPT ![d] = FieldAfter(@)]
    /\ UNCHANGED <<slot, reg_ret, rcv>>

register_return(d) ==
    /\ reg_pc[d] = "done"
    /\ reg_ret' = [reg_ret EXCEPT ![d] = 0]
    /\ reg_pc' = [reg_pc EXCEPT ![d] = "returned"]
    /\ UNCHANGED <<oob, slot, rcv>>

-----------------------------------------------------------------------------
\* A frame arrives and __oob_match starts.
oob_frame(d) ==
    /\ rcv.frame = Null
    /\ rcv' = [NoCall EXCEPT !.frame = d]
    /\ UNCHANGED <<oob, reg_pc, slot, reg_ret>>

\* One turn of its loop.  A dealer is called if the frame starts with the len
\* bytes of its index; with a length of 0 every frame does.
Matches(i) ==
    /\ oob[i].func # Null /\ oob[i].index # Null
    /\ oob[i].len = Null \/ oob[i].index = rcv.frame

oob_match ==
    /\ rcv.frame # Null /\ rcv.func = Null
    /\ rcv' = IF rcv.i > Slots THEN NoCall
              ELSE IF Matches(rcv.i)
              THEN [rcv EXCEPT !.func = oob[rcv.i].func, !.args = oob[rcv.i].args]
              ELSE [rcv EXCEPT !.i = @ + 1]
    /\ UNCHANGED <<oob, reg_pc, slot, reg_ret>>

\* The dealer returns.
oob_return ==
    /\ rcv.func # Null
    /\ rcv' = NoCall
    /\ UNCHANGED <<oob, reg_pc, slot, reg_ret>>

OobInit ==
    /\ oob = [i \in 1 .. Slots |-> Blank]
    /\ reg_pc = [d \in Dealers |-> "idle"] /\ slot = [d \in Dealers |-> 1]
    /\ reg_ret = [d \in Dealers |-> Null]
    /\ rcv = NoCall

Register(d) ==
    \/ at_oobregister(d) \/ register_scan(d) \/ register_write(d)
    \/ register_return(d)

OobNext ==
    \/ \E d \in Dealers : Register(d) \/ oob_frame(d)
    \/ oob_match \/ oob_return

OobSpec == OobInit /\ [][OobNext]_oob_vars

\* The application registers its dealers one after the other, as one task does.
OneAtATime ==
    \A d, e \in Dealers : d # e => reg_pc[d] \in {"idle", "returned"}
                                   \/ reg_pc[e] \in {"idle", "returned"}

NextInTurn == OobNext /\ OneAtATime'

SequentialSpec == OobInit /\ [][NextInTurn]_oob_vars

-----------------------------------------------------------------------------
\* The types.
OobTypeOK ==
    /\ oob \in [1 .. Slots -> [index : Dealers \cup {Null}, len : Dealers \cup {Null},
                               func : Dealers \cup {Null}, args : Dealers \cup {Null}]]
    /\ reg_pc \in [Dealers -> {"idle", "scan", "index", "len", "func", "args", "done",
                               "returned"}]
    /\ slot \in [Dealers -> 1 .. Slots + 1]
    /\ reg_ret \in [Dealers -> {Null, 0, -1}]
    /\ rcv.i \in 1 .. Slots + 1

\* Every variable has its type, and a dealer is called only for a frame that
\* starts with its index, however far its registration has come when the
\* receiver reads the slot.
DealerGetsItsFrame ==
    /\ OobTypeOK
    /\ rcv.func # Null => rcv.func = rcv.frame

\* A registration that returned 0 is in the table, complete, and stays.
RegistrationKept ==
    \A d \in Dealers : reg_ret[d] = 0 =>
        \E i \in 1 .. Slots : oob[i] = [index |-> d, len |-> d, func |-> d, args |-> d]
=============================================================================
