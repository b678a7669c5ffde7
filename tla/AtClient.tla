------------------------------ MODULE AtClient ------------------------------
(***************************************************************************)
(* The AT command channel of at/at.c.  Tasks call at_command; the receiver *)
(* task __rcv_task_entry reads what the modem sends, gives it to an out of *)
(* band dealer or compares it with the command in g_at_cb.cmd.  Both sides *)
(* meet in that one record, under cmdlock, and in the semaphores cmdsync   *)
(* (one command at a time) and respsync (a response is there).             *)
(*                                                                         *)
(* A critical section of cmdlock is one step.  A frame is its length and   *)
(* the text that an index may be found in.  The table of out of band       *)
(* dealers is in AtOob.                                                    *)
(*                                                                         *)
(* Definitions named M_... are deliberate faults the runs must detect; the *)
(* specification uses none of them.                                        *)
(***************************************************************************)
EXTENDS Integers, Sequences, SequencesExt, FiniteSetsExt

CONSTANTS
    Tasks,       \* the tasks that call at_command
    Nobody,      \* no task
    Indexes,     \* the index strings that commands wait for
    BufLens,     \* the lengths of response buffers; 0 stands for a NULL respbuf
    FrameLens,   \* the lengths of frames
    SempLimit,   \* 1 where the port honours the limit of osal_semp_create,
                 \* larger where it counts on (Linux)
    MaxCalls,    \* bound on the calls of at_command
    MaxReplies,  \* bound on the frames the modem sends for one command
    MaxUrcs      \* bound on the unsolicited frames

ASSUME NobodyIsNoTask == Nobody \notin Tasks
ASSUME AtBounds == /\ SempLimit \in Nat \ {0} /\ MaxCalls \in Nat
                   /\ MaxReplies \in Nat /\ MaxUrcs \in Nat
                   /\ BufLens \subseteq Nat /\ FrameLens \subseteq Nat \ {0}

VARIABLES
    pc,          \* where each task is in at_command
    arg,         \* the arguments of its call: index and respbuflen, and its number
    ret,         \* its ret
    buf,         \* how many bytes its respbuf holds
    cmd,         \* g_at_cb.cmd: owner, index and respbuflen
    respdatalen, \* g_at_cb.cmd.respdatalen
    cmdsync, respsync,
    opened,      \* g_at_cb.devhandle # NULL
    streammode,  \* g_at_cb.streammode = 1
    rpc,         \* where the receiver is
    branch,      \* the branch of its loop it is in: whether it saw stream mode
    rcvbuf,      \* the frames in g_at_cb.rcvbuf
    rcvlen,      \* how long they are together
    calls,       \* how many calls have been made
    line,        \* the frames on their way from the modem
    owed         \* the answers the modem may still send to each call, and under 0 the
                 \* unsolicited frames

task == <<pc, arg, ret>>
channel == <<cmd, respdatalen, cmdsync, respsync>>
receiver == <<opened, streammode, rpc, branch, rcvbuf, rcvlen>>
modem == <<calls, line, owed>>
vars == <<task, buf, channel, receiver, modem>>

NoCmd == [owner |-> Nobody, index |-> "none", cap |-> 0]
NoArg == [call |-> 0, index |-> "none", cap |-> 0]
Urc == [text |-> "urc", len |-> 1]

M_GivePastLimit(s) == s + 1
Give(s) == IF s < SempLimit THEN s + 1 ELSE s

-----------------------------------------------------------------------------
(* at_command *)

\* A call with an index first asks for the channel.
at_command(t, index, cap) ==
    /\ pc[t] = "idle" /\ calls < MaxCalls
    /\ calls' = calls + 1
    /\ arg' = [arg EXCEPT ![t] = [call |-> calls', index |-> index, cap |-> cap]]
    /\ buf' = [buf EXCEPT ![t] = 0]
    /\ ret' = [ret EXCEPT ![t] = -1]
    /\ pc' = [pc EXCEPT ![t] = "sync"]
    /\ UNCHANGED <<channel, receiver, line, owed>>

\* Without an index the command is only written to the device.
at_command_only_send(t) ==
    /\ pc[t] = "idle" /\ calls < MaxCalls
    /\ calls' = calls + 1
    /\ \/ /\ opened
          /\ owed' = [owed EXCEPT ![calls'] = [text |-> "ok", n |-> MaxReplies]]
          /\ ret' = [ret EXCEPT ![t] = 0]
       \/ ret' = [ret EXCEPT ![t] = -1] /\ UNCHANGED owed
    /\ UNCHANGED <<pc, arg, buf, channel, receiver, line>>

M_SyncIgnored(t) ==
    /\ pc[t] = "sync"
    /\ pc' = [pc EXCEPT ![t] = "create"]
    /\ UNCHANGED <<arg, ret, buf, channel, receiver, modem>>
cmd_sync(t) ==
    /\ pc[t] = "sync" /\ cmdsync > 0
    /\ cmdsync' = cmdsync - 1
    /\ pc' = [pc EXCEPT ![t] = "create"]
    /\ UNCHANGED <<arg, ret, buf, cmd, respdatalen, respsync, receiver, modem>>

cmd_sync_timeout(t) ==
    /\ pc[t] = "sync"
    /\ pc' = [pc EXCEPT ![t] = "idle"]
    /\ UNCHANGED <<arg, ret, buf, channel, receiver, modem>>

\* __cmd_create under cmdlock; it drains respsync by one, if there is one.
M_Undrained == respsync
Drained == IF respsync > 0 THEN respsync - 1 ELSE 0

cmd_create(t) ==
    /\ pc[t] = "create"
    /\ cmd' = [owner |-> t, index |-> arg[t].index, cap |-> arg[t].cap]
    /\ respsync' = Drained
    /\ pc' = [pc EXCEPT ![t] = "send"]
    /\ UNCHANGED <<arg, ret, buf, respdatalen, cmdsync, receiver, modem>>

\* The device takes the command, or the write fails (always, if the receiver
\* has not opened the device).
cmd_send(t) ==
    /\ pc[t] = "send"
    /\ \/ /\ opened
          /\ owed' = [owed EXCEPT ![arg[t].call] =
                         [text |-> arg[t].index, n |-> MaxReplies]]
          /\ pc' = [pc EXCEPT ![t] = "wait"]
          /\ UNCHANGED ret
       \/ /\ ret' = [ret EXCEPT ![t] = -1]
          /\ pc' = [pc EXCEPT ![t] = "clear"]
          /\ UNCHANGED owed
    /\ UNCHANGED <<arg, buf, channel, receiver, calls, line>>

resp_pend(t) ==
    /\ pc[t] = "wait" /\ respsync > 0
    /\ respsync' = respsync - 1
    /\ pc' = [pc EXCEPT ![t] = "read"]
    /\ UNCHANGED <<arg, ret, buf, cmd, respdatalen, cmdsync, receiver, modem>>

resp_timeout(t) ==
    /\ pc[t] = "wait"
    /\ ret' = [ret EXCEPT ![t] = -1]
    /\ pc' = [pc EXCEPT ![t] = "clear"]
    /\ UNCHANGED <<arg, buf, channel, receiver, modem>>

\* respdatalen is read without cmdlock.
resp_read(t) ==
    /\ pc[t] = "read"
    /\ ret' = [ret EXCEPT ![t] = respdatalen]
    /\ pc' = [pc EXCEPT ![t] = "clear"]
    /\ UNCHANGED <<arg, buf, channel, receiver, modem>>

\* __cmd_clear, and the return from at_command.
M_ClearOnlyPosts(t) ==
    /\ pc[t] = "clear"
    /\ respdatalen' = 0 /\ cmdsync' = Give(cmdsync)
    /\ pc' = [pc EXCEPT ![t] = "idle"]
    /\ UNCHANGED <<cmd, arg, ret, buf, respsync, receiver, modem>>
M_ClearForgetsPost(t) ==
    /\ pc[t] = "clear"
    /\ cmd' = NoCmd /\ respdatalen' = 0
    /\ pc' = [pc EXCEPT ![t] = "idle"]
    /\ UNCHANGED <<arg, ret, buf, cmdsync, respsync, receiver, modem>>
cmd_clear(t) ==
    /\ pc[t] = "clear"
    /\ cmd' = NoCmd /\ respdatalen' = 0
    /\ cmdsync' = Give(cmdsync)
    /\ pc' = [pc EXCEPT ![t] = "idle"]
    /\ UNCHANGED <<arg, ret, buf, respsync, receiver, modem>>

-----------------------------------------------------------------------------
(* The receiver, __rcv_task_entry *)

rcv_open ==
    /\ rpc = "start"
    /\ \/ opened' = TRUE /\ rpc' = "loop"
       \/ UNCHANGED opened /\ rpc' = "returned"
    /\ UNCHANGED <<task, buf, channel, streammode, branch, rcvbuf, rcvlen, modem>>

\* The mode is looked at before the receiver blocks; only in stream mode are
\* earlier frames kept.
rcv_loop ==
    /\ rpc = "loop"
    /\ branch' = streammode
    /\ rcvbuf' = IF streammode THEN rcvbuf ELSE << >>
    /\ rcvlen' = IF streammode THEN rcvlen ELSE 0
    /\ rpc' = "read"
    /\ UNCHANGED <<task, buf, channel, opened, streammode, modem>>

rcv_read ==
    /\ rpc = "read" /\ line # << >>
    /\ rcvbuf' = Append(rcvbuf, Head(line))
    /\ rcvlen' = rcvlen + Head(line).len
    /\ line' = Tail(line)
    /\ rpc' = "match"
    /\ UNCHANGED <<task, buf, channel, opened, streammode, branch, calls, owed>>

\* __oob_match looks at the start of the buffer only, __cmd_match anywhere.
OobMatches == rcvbuf[1].text = "urc"
CmdMatches == \E i \in 1 .. Len(rcvbuf) : rcvbuf[i].text = cmd.index

\* __cmd_match stores as much as respbuf takes, and the length.
Copied(cap) == IF cap > 0 /\ rcvlen > cap THEN cap ELSE rcvlen

cmd_match ==
    /\ respdatalen' = Copied(cmd.cap)
    /\ buf' = IF cmd.cap = 0 THEN buf
              ELSE [buf EXCEPT ![cmd.owner] = Copied(cmd.cap)]
    /\ respsync' = Give(respsync)
    /\ UNCHANGED <<cmd, cmdsync>>

\* What was taken leaves rcvbuf in stream mode; the other mode drops it when the
\* loop starts again.
rcv_match ==
    /\ rpc = "match"
    /\ IF ~OobMatches /\ CmdMatches THEN cmd_match ELSE UNCHANGED <<buf, channel>>
    /\ IF branch /\ (OobMatches \/ CmdMatches) THEN rcvbuf' = << >> /\ rcvlen' = 0
       ELSE UNCHANGED <<rcvbuf, rcvlen>>
    /\ rpc' = "loop"
    /\ UNCHANGED <<task, opened, streammode, branch, modem>>

at_streammode_set(mode) ==
    /\ streammode' = mode
    /\ UNCHANGED <<task, buf, channel, opened, rpc, branch, rcvbuf, rcvlen, modem>>

-----------------------------------------------------------------------------
(* The modem (external): it answers a command some time, or more than once, *)
(* or never, and sends unsolicited frames.                                  *)

modem_answers(c, len) ==
    /\ owed[c].n > 0
    /\ owed' = [owed EXCEPT ![c].n = @ - 1]
    /\ line' = Append(line, [text |-> owed[c].text, len |-> len])
    /\ UNCHANGED <<task, buf, channel, receiver, calls>>

modem_urc ==
    /\ owed[0].n > 0
    /\ owed' = [owed EXCEPT ![0].n = @ - 1]
    /\ line' = Append(line, Urc)
    /\ UNCHANGED <<task, buf, channel, receiver, calls>>

\* at_init has succeeded.
Init ==
    /\ pc = [t \in Tasks |-> "idle"] /\ arg = [t \in Tasks |-> NoArg]
    /\ ret = [t \in Tasks |-> 0] /\ buf = [t \in Tasks |-> 0]
    /\ cmd = NoCmd /\ respdatalen = 0 /\ cmdsync = 1 /\ respsync = 0
    /\ opened = FALSE /\ streammode = FALSE
    /\ rpc = "start" /\ branch = FALSE /\ rcvbuf = << >> /\ rcvlen = 0
    /\ calls = 0 /\ line = << >>
    /\ owed = [c \in 0 .. MaxCalls |->
                 [text |-> "none", n |-> IF c = 0 THEN MaxUrcs ELSE 0]]

Granted(t) ==
    \/ cmd_create(t) \/ cmd_send(t) \/ resp_pend(t) \/ resp_timeout(t)
    \/ resp_read(t) \/ cmd_clear(t)

Caller(t) ==
    \/ \E index \in Indexes, cap \in BufLens : at_command(t, index, cap)
    \/ at_command_only_send(t)
    \/ cmd_sync(t) \/ cmd_sync_timeout(t)
    \/ Granted(t)

Receiver == rcv_open \/ rcv_loop \/ rcv_read \/ rcv_match

Modem ==
    \/ \E c \in 1 .. MaxCalls, len \in FrameLens : modem_answers(c, len)
    \/ modem_urc

Next ==
    \/ \E t \in Tasks : Caller(t)
    \/ Receiver
    \/ \E mode \in BOOLEAN : at_streammode_set(mode)
    \/ Modem

Spec == Init /\ [][Next]_vars

\* The scheduler runs every task that can run, and a timeout ends.  Giving up
\* on cmdsync is not assumed: the channel itself must come free.
FairSpec ==
    /\ Spec /\ WF_vars(Receiver)
    /\ \A t \in Tasks : WF_vars(Granted(t)) /\ WF_vars(cmd_sync(t))

-----------------------------------------------------------------------------
\* The types.
TypeOK ==
    /\ pc \in [Tasks -> {"idle", "sync", "create", "send", "wait", "read", "clear"}]
    /\ \A t \in Tasks : ret[t] \in Nat \cup {-1} /\ buf[t] \in Nat
    /\ cmd.owner \in Tasks \cup {Nobody}
    /\ cmd.index \in Indexes \cup {"none"} /\ cmd.cap \in BufLens \cup {0}
    /\ respdatalen \in Nat /\ rcvlen \in Nat
    /\ cmdsync \in 0 .. SempLimit /\ respsync \in 0 .. SempLimit
    /\ opened \in BOOLEAN /\ streammode \in BOOLEAN /\ branch \in BOOLEAN
    /\ rpc \in {"start", "loop", "read", "match", "returned"}
    /\ calls \in 0 .. MaxCalls

Holding(t) == pc[t] \in {"create", "send", "wait", "read", "clear"}

\* Only one command is executed at one time, and the channel is never lost:
\* the token of cmdsync is with one task or in the semaphore.
OneCommand ==
    cmdsync + Cardinality({t \in Tasks : Holding(t)}) = 1

\* The receiver writes only into the response buffer of a call that has not
\* returned, and never more than it holds: the buffer is often on the stack of
\* the caller.
RespBufInUse ==
    /\ cmd.owner # Nobody =>
          pc[cmd.owner] \in {"send", "wait", "read", "clear"}
    /\ \A t \in Tasks : arg[t].cap > 0 => buf[t] <= arg[t].cap

\* A command that respsync has woken has a response: neither a post for an
\* earlier command nor a second match of one wakes it.
WokenByResponse == \A t \in Tasks : pc[t] = "read" => respdatalen > 0

\* Every call of at_command returns, even one that waits for the channel without
\* a timeout: no path keeps cmdsync.
CommandReturns == \A t \in Tasks : pc[t] = "sync" ~> pc[t] = "idle"
=============================================================================
