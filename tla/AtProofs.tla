------------------------------ MODULE AtProofs ------------------------------
(***************************************************************************)
(* One command at a time, no write past or into a response buffer that is  *)
(* not waited for, and no wakeup without a response: for any number of     *)
(* tasks, indexes, buffers and frames.  The invariant has four parts, each *)
(* inductive with the ones before it: the frames are well formed, cmdsync  *)
(* is one token, cmd belongs to the holder of the token, and a token of    *)
(* respsync stands for a response.                                         *)
(*                                                                         *)
(* The table of out of band dealers has no lock.  For any number of        *)
(* dealers and slots the order in which at_oobregister stores the fields   *)
(* is enough: a dealer is called for its own frames only, and what is      *)
(* registered stays, as long as registrations come one after the other.    *)
(***************************************************************************)
EXTENDS AtClient, AtOob, FiniteSetTheorems, SequenceTheorems, TLAPS

Texts == Indexes \cup {"none", "urc", "ok"}
Frame == [text : Texts, len : Nat \ {0}]
Places == {"idle", "sync", "create", "send", "wait", "read", "clear"}

Book == [0 .. MaxCalls -> [text : Texts, n : Nat]]

\* What is on the line and in rcvbuf are frames, none of them empty.
FramesOK ==
    /\ calls \in 0 .. MaxCalls
    /\ arg \in [Tasks -> [call : 0 .. MaxCalls, index : Texts, cap : Nat]]
    /\ owed \in Book
    /\ line \in Seq(Frame) /\ rcvbuf \in Seq(Frame)
    /\ rcvlen \in Nat
    /\ rpc \in {"start", "loop", "read", "match", "returned"}
    /\ rpc = "match" => rcvlen > 0

\* cmdsync is there, or one task has it.
Token ==
    /\ pc \in [Tasks -> Places]
    /\ \/ cmdsync = 1 /\ \A t \in Tasks : ~Holding(t)
       \/ cmdsync = 0 /\ \E t \in Tasks : Holding(t) /\ \A u \in Tasks : Holding(u) => u = t

\* The modem's book of answers: a new entry.
LEMMA OwedSet ==
    ASSUME NEW S, NEW T, NEW f \in [S -> [text : T, n : Nat]], NEW c \in S,
           NEW x \in T, NEW k \in Nat
    PROVE  [f EXCEPT ![c] = [text |-> x, n |-> k]] \in [S -> [text : T, n : Nat]]
  OBVIOUS

\* An answer less.
LEMMA OwedLess ==
    ASSUME NEW S, NEW T, NEW f \in [S -> [text : T, n : Nat]], NEW c \in S,
           f[c].n > 0
    PROVE  /\ [f EXCEPT ![c].n = @ - 1] \in [S -> [text : T, n : Nat]]
           /\ f[c].text \in T
  OBVIOUS

\* At first nothing is on the line, and the unsolicited frames are owed.
LEMMA FramesInit == Init => FramesOK
  BY AtBounds DEF Init, FramesOK, Book, NoArg, Texts, Frame

\* Every step keeps the frames well formed: the modem sends none that is empty,
\* and the receiver only appends frames or drops them.
LEMMA FramesStep == FramesOK /\ [Next]_vars => FramesOK'
<1> SUFFICES ASSUME FramesOK, [Next]_vars PROVE FramesOK'
  OBVIOUS
<1>a. /\ owed \in Book /\ line \in Seq(Frame) /\ rcvbuf \in Seq(Frame)
  BY DEF FramesOK
<1>c. /\ MaxReplies \in Nat /\ MaxCalls \in Nat
      /\ BufLens \subseteq Nat /\ FrameLens \subseteq Nat \ {0}
  BY AtBounds
<1>b. "ok" \in Texts /\ "urc" \in Texts /\ Indexes \subseteq Texts
  BY DEF Texts
<1>1. ASSUME NEW t \in Tasks, NEW index \in Indexes, NEW cap \in BufLens,
             at_command(t, index, cap)
      PROVE  FramesOK'
  BY <1>1, <1>a, <1>c, <1>b DEF at_command, receiver, FramesOK
<1>2. ASSUME NEW t \in Tasks, at_command_only_send(t)
      PROVE  FramesOK'
  <2>1. \/ owed' = owed
        \/ owed' = [owed EXCEPT ![calls'] = [text |-> "ok", n |-> MaxReplies]]
    BY <1>2, Zenon DEF at_command_only_send
  <2>2. calls' \in 0 .. MaxCalls
    BY <1>2, <1>a, <1>c DEF at_command_only_send, FramesOK
  <2>3. owed' \in Book
    <3>1. PICK k : k = calls'
      OBVIOUS
    <3>2. [owed EXCEPT ![k] = [text |-> "ok", n |-> MaxReplies]] \in Book
      BY <2>2, <3>1, <1>a, <1>b, <1>c, OwedSet DEF Book
    <3> QED
      BY <2>1, <3>1, <3>2, <1>a
  <2>4. UNCHANGED <<arg, line, rcvbuf, rcvlen, rpc>>
    BY <1>2, Zenon DEF at_command_only_send, receiver
  <2> QED
    BY <2>2, <2>3, <2>4 DEF FramesOK
<1>3. ASSUME NEW t \in Tasks, cmd_send(t)
      PROVE  FramesOK'
  <2>1. \/ owed' = owed
        \/ owed' = [owed EXCEPT ![arg[t].call] =
                        [text |-> arg[t].index, n |-> MaxReplies]]
    BY <1>3, Zenon DEF cmd_send
  <2>2. arg[t].call \in 0 .. MaxCalls /\ arg[t].index \in Texts
    BY DEF FramesOK
  <2>3. owed' \in Book
    <3>1. [owed EXCEPT ![arg[t].call] = [text |-> arg[t].index, n |-> MaxReplies]]
             \in Book
      BY <2>2, <1>a, <1>c, OwedSet DEF Book
    <3> QED
      BY <2>1, <3>1, <1>a
  <2>4. UNCHANGED <<calls, arg, line, rcvbuf, rcvlen, rpc>>
    BY <1>3, Zenon DEF cmd_send, receiver
  <2> QED
    BY <2>3, <2>4 DEF FramesOK
<1>4. ASSUME NEW t \in Tasks,
             \/ cmd_sync(t) \/ cmd_sync_timeout(t) \/ cmd_create(t) \/ resp_pend(t)
             \/ resp_timeout(t) \/ resp_read(t) \/ cmd_clear(t)
      PROVE  FramesOK'
  BY <1>4 DEF cmd_sync, cmd_sync_timeout, cmd_create, resp_pend, resp_timeout,
              resp_read, cmd_clear, receiver, modem, FramesOK
<1>5. CASE rcv_open
  BY <1>5 DEF rcv_open, task, modem, FramesOK
<1>6. CASE rcv_loop
  BY <1>6 DEF rcv_loop, task, modem, FramesOK
<1>7. CASE rcv_read
  <2>1. Head(line) \in Frame /\ Tail(line) \in Seq(Frame)
    BY <1>7, <1>a, <1>c, HeadTailProperties DEF rcv_read
  <2>2. Append(rcvbuf, Head(line)) \in Seq(Frame)
    BY <2>1, <1>a, <1>c, AppendProperties
  <2>3. Head(line).len \in Nat \ {0}
    BY <2>1 DEF Frame
  <2> QED
    BY <1>7, <2>1, <2>2, <2>3 DEF rcv_read, task, FramesOK
<1>8. CASE rcv_match
  <2>1. \/ rcvbuf' = << >> /\ rcvlen' = 0
        \/ rcvbuf' = rcvbuf /\ rcvlen' = rcvlen
    BY <1>8, Zenon DEF rcv_match
  <2>2. rcvbuf' \in Seq(Frame)
    BY <2>1, <1>a, <1>c, EmptySeq
  <2> QED
    BY <1>8, <2>1, <2>2 DEF rcv_match, task, modem, FramesOK
<1>9. ASSUME NEW mode \in BOOLEAN, at_streammode_set(mode)
      PROVE  FramesOK'
  BY <1>9 DEF at_streammode_set, task, modem, FramesOK
<1>10. ASSUME NEW c \in 1 .. MaxCalls, NEW len \in FrameLens, modem_answers(c, len)
       PROVE  FramesOK'
  <2>1. c \in 0 .. MaxCalls /\ owed[c].n > 0
    BY <1>10, <1>a, <1>c DEF modem_answers
  <2>2. owed' \in Book /\ owed[c].text \in Texts
    <3>1. owed' = [owed EXCEPT ![c].n = @ - 1]
      BY <1>10 DEF modem_answers
    <3> QED
      BY <2>1, <3>1, <1>a, <1>c, OwedLess DEF Book
  <2>3. [text |-> owed[c].text, len |-> len] \in Frame
    BY <2>1, <2>2, <1>a, <1>c DEF Frame
  <2>4. line' \in Seq(Frame)
    BY <1>10, <2>3, <1>a, <1>c, AppendProperties DEF modem_answers
  <2> QED
    BY <1>10, <2>2, <2>4 DEF modem_answers, task, receiver, FramesOK
<1>11. CASE modem_urc
  <2>1. 0 \in 0 .. MaxCalls /\ owed[0].n > 0
    BY <1>11, <1>a, <1>c DEF modem_urc
  <2>2. owed' \in Book
    <3>1. owed' = [owed EXCEPT ![0].n = @ - 1]
      BY <1>11 DEF modem_urc
    <3> QED
      BY <2>1, <3>1, <1>a, <1>c, OwedLess DEF Book
  <2>3. Urc \in Frame
    BY <1>a, <1>c, <1>b DEF Urc, Frame
  <2>4. line' \in Seq(Frame)
    BY <1>11, <2>3, <1>a, <1>c, AppendProperties DEF modem_urc
  <2> QED
    BY <1>11, <2>2, <2>4 DEF modem_urc, task, receiver, FramesOK
<1>12. CASE UNCHANGED vars
  BY <1>12 DEF vars, task, receiver, modem, FramesOK
<1> QED
  BY <1>1, <1>2, <1>3, <1>4, <1>5, <1>6, <1>7, <1>8, <1>9, <1>10, <1>11, <1>12
     DEF Next, Caller, Granted, Receiver, Modem

-----------------------------------------------------------------------------
\* The token is in cmdsync at first.
LEMMA TokenInit == Init => Token
  BY DEF Init, Token, Places, Holding

\* cmd_sync takes the token and cmd_clear gives it back; nobody else moves it.
LEMMA TokenStep == Token /\ [Next]_vars => Token'
<1> SUFFICES ASSUME Token, [Next]_vars PROVE Token'
  OBVIOUS
<1> USE DEF Token, Places, Holding
<1>1. ASSUME NEW t \in Tasks, NEW index \in Indexes, NEW cap \in BufLens,
             at_command(t, index, cap)
      PROVE  Token'
  BY <1>1 DEF at_command, channel
<1>2. ASSUME NEW t \in Tasks, at_command_only_send(t)
      PROVE  Token'
  BY <1>2 DEF at_command_only_send, channel
<1>3. ASSUME NEW t \in Tasks, cmd_sync(t)
      PROVE  Token'
  BY <1>3 DEF cmd_sync
<1>4. ASSUME NEW t \in Tasks, cmd_sync_timeout(t)
      PROVE  Token'
  BY <1>4 DEF cmd_sync_timeout, channel
<1>5. ASSUME NEW t \in Tasks, cmd_create(t)
      PROVE  Token'
  BY <1>5 DEF cmd_create
<1>6. ASSUME NEW t \in Tasks, cmd_send(t)
      PROVE  Token'
  <2>1. /\ pc[t] = "send" /\ cmdsync' = cmdsync
        /\ \/ pc' = [pc EXCEPT ![t] = "wait"]
           \/ pc' = [pc EXCEPT ![t] = "clear"]
    BY <1>6, Zenon DEF cmd_send, channel
  <2> QED
    BY <2>1
<1>7. ASSUME NEW t \in Tasks, resp_pend(t)
      PROVE  Token'
  BY <1>7 DEF resp_pend
<1>8. ASSUME NEW t \in Tasks, resp_timeout(t) \/ resp_read(t)
      PROVE  Token'
  BY <1>8 DEF resp_timeout, resp_read, channel
<1>9. ASSUME NEW t \in Tasks, cmd_clear(t)
      PROVE  Token'
  BY <1>9, AtBounds DEF cmd_clear, Give
<1>10. CASE rcv_open \/ rcv_loop \/ rcv_read
  BY <1>10 DEF rcv_open, rcv_loop, rcv_read, task, channel
<1>11. CASE rcv_match
  <2>1. pc' = pc /\ cmdsync' = cmdsync
    BY <1>11, Zenon DEF rcv_match, cmd_match, task, channel
  <2> QED
    BY <2>1
<1>12. CASE (\E mode \in BOOLEAN : at_streammode_set(mode)) \/ Modem
  BY <1>12 DEF at_streammode_set, Modem, modem_answers, modem_urc, task, channel
<1>13. CASE UNCHANGED vars
  BY <1>13 DEF vars, task, channel
<1> QED
  BY <1>1, <1>2, <1>3, <1>4, <1>5, <1>6, <1>7, <1>8, <1>9, <1>10, <1>11, <1>12, <1>13
     DEF Next, Caller, Granted, Receiver

\* One token means one command at a time.
LEMMA TokenIsOne == Token => OneCommand
<1> SUFFICES ASSUME Token PROVE OneCommand
  OBVIOUS
<1> DEFINE H == {t \in Tasks : Holding(t)}
<1>1. CASE cmdsync = 1 /\ \A t \in Tasks : ~Holding(t)
  <2>1. H = {}
    BY <1>1
  <2> QED
    BY <1>1, <2>1, FS_EmptySet DEF OneCommand
<1>2. CASE cmdsync = 0 /\ \E t \in Tasks : Holding(t) /\ \A u \in Tasks : Holding(u) => u = t
  <2>1. PICK t \in Tasks : Holding(t) /\ \A u \in Tasks : Holding(u) => u = t
    BY <1>2
  <2>2. H = {t}
    BY <2>1
  <2> QED
    BY <1>2, <2>2, FS_Singleton DEF OneCommand
<1> QED
  BY <1>1, <1>2 DEF Token

-----------------------------------------------------------------------------
\* The record cmd is that of the task that holds the token and has filled it
\* in, and no response is longer than its buffer.
OwnerOK ==
    /\ cmd \in [owner : Tasks \cup {Nobody}, index : Texts, cap : Nat]
    /\ cmd.owner = Nobody => cmd.cap = 0
    /\ cmd.owner # Nobody => /\ pc[cmd.owner] \in {"send", "wait", "read", "clear"}
                             /\ cmd.cap = arg[cmd.owner].cap

BufferOK ==
    /\ buf \in [Tasks -> Nat]
    /\ \A t \in Tasks : arg[t].cap > 0 => buf[t] <= arg[t].cap

\* At first cmd is cleared and every buffer is empty.
LEMMA OwnerInit == Init => OwnerOK /\ BufferOK
  BY NobodyIsNoTask, AtBounds
     DEF Init, OwnerOK, BufferOK, NoCmd, NoArg, Texts

\* A task fills in cmd only with the token, and clears it before it gives the
\* token back; meanwhile its arguments stay.
LEMMA OwnerStep ==
    FramesOK /\ Token /\ OwnerOK /\ [Next]_vars => OwnerOK'
<1> SUFFICES ASSUME FramesOK, Token, OwnerOK, [Next]_vars PROVE OwnerOK'
  OBVIOUS
<1>a. /\ pc \in [Tasks -> Places]
      /\ \A t, u \in Tasks : Holding(t) /\ Holding(u) => t = u
      /\ arg \in [Tasks -> [call : 0 .. MaxCalls, index : Texts, cap : Nat]]
      /\ "none" \in Texts
  BY DEF Token, FramesOK, Texts
<1> USE NobodyIsNoTask DEF OwnerOK, Holding, Places
<1>1. ASSUME NEW t \in Tasks, NEW index \in Indexes, NEW cap \in BufLens,
             at_command(t, index, cap)
      PROVE  OwnerOK'
  BY <1>1, <1>a DEF at_command, channel
<1>2. ASSUME NEW t \in Tasks, at_command_only_send(t)
      PROVE  OwnerOK'
  BY <1>2, <1>a DEF at_command_only_send, channel
<1>3. ASSUME NEW t \in Tasks, cmd_sync(t) \/ cmd_sync_timeout(t)
      PROVE  OwnerOK'
  BY <1>3, <1>a DEF cmd_sync, cmd_sync_timeout, channel
<1>4. ASSUME NEW t \in Tasks, cmd_create(t)
      PROVE  OwnerOK'
  BY <1>4, <1>a DEF cmd_create
<1>5. ASSUME NEW t \in Tasks, cmd_send(t)
      PROVE  OwnerOK'
  <2>1. /\ pc[t] = "send" /\ UNCHANGED <<cmd, arg>>
        /\ \/ pc' = [pc EXCEPT ![t] = "wait"]
           \/ pc' = [pc EXCEPT ![t] = "clear"]
    BY <1>5, Zenon DEF cmd_send, channel
  <2> QED
    BY <2>1, <1>a
<1>6. ASSUME NEW t \in Tasks, resp_pend(t) \/ resp_timeout(t) \/ resp_read(t)
      PROVE  OwnerOK'
  BY <1>6, <1>a DEF resp_pend, resp_timeout, resp_read, channel
<1>7. ASSUME NEW t \in Tasks, cmd_clear(t)
      PROVE  OwnerOK'
  BY <1>7, <1>a DEF cmd_clear, NoCmd
<1>8. CASE rcv_open \/ rcv_loop \/ rcv_read
  BY <1>8 DEF rcv_open, rcv_loop, rcv_read, task, channel
<1>9. CASE rcv_match
  <2>1. UNCHANGED <<pc, arg, cmd>>
    BY <1>9, Zenon DEF rcv_match, cmd_match, task, channel
  <2> QED
    BY <2>1
<1>10. CASE (\E mode \in BOOLEAN : at_streammode_set(mode)) \/ Modem
  BY <1>10 DEF at_streammode_set, Modem, modem_answers, modem_urc, task, channel
<1>11. CASE UNCHANGED vars
  BY <1>11 DEF vars, task, channel
<1> QED
  BY <1>1, <1>2, <1>3, <1>4, <1>5, <1>6, <1>7, <1>8, <1>9, <1>10, <1>11
     DEF Next, Caller, Granted, Receiver

\* What __cmd_match stores fits the buffer, and is never empty.
LEMMA CopiedFits ==
    ASSUME rcvlen \in Nat, NEW cap \in Nat
    PROVE  /\ Copied(cap) \in Nat
           /\ cap > 0 => Copied(cap) <= cap
           /\ rcvlen > 0 => Copied(cap) > 0
  BY DEF Copied

\* Only a match writes a buffer, that of the owner of cmd, cut to its length.
LEMMA BufferStep ==
    FramesOK /\ OwnerOK /\ BufferOK /\ [Next]_vars => BufferOK'
<1> SUFFICES ASSUME FramesOK, OwnerOK, BufferOK, [Next]_vars PROVE BufferOK'
  OBVIOUS
<1>a. /\ arg \in [Tasks -> [call : 0 .. MaxCalls, index : Texts, cap : Nat]]
      /\ BufLens \subseteq Nat
  BY AtBounds DEF FramesOK
<1>1. ASSUME NEW t \in Tasks, NEW index \in Indexes, NEW cap \in BufLens,
             at_command(t, index, cap)
      PROVE  BufferOK'
  BY <1>1, <1>a DEF at_command, BufferOK
<1>2. ASSUME NEW t \in Tasks,
             \/ at_command_only_send(t) \/ cmd_sync(t) \/ cmd_sync_timeout(t)
             \/ Granted(t)
      PROVE  BufferOK'
  <2>1. UNCHANGED <<arg, buf>>
    BY <1>2, Zenon DEF at_command_only_send, cmd_sync, cmd_sync_timeout, Granted,
       cmd_create, cmd_send, resp_pend, resp_timeout, resp_read, cmd_clear
  <2> QED
    BY <2>1 DEF BufferOK
<1>3. CASE rcv_open \/ rcv_loop \/ rcv_read
  BY <1>3 DEF rcv_open, rcv_loop, rcv_read, task, BufferOK
<1>4. CASE rcv_match
  <2>1. /\ arg' = arg
        /\ \/ buf' = buf
           \/ cmd.cap # 0 /\ buf' = [buf EXCEPT ![cmd.owner] = Copied(cmd.cap)]
    BY <1>4, Zenon DEF rcv_match, cmd_match, task
  <2>2. CASE buf' = buf
    BY <2>1, <2>2 DEF BufferOK
  <2>3. CASE cmd.cap # 0 /\ buf' = [buf EXCEPT ![cmd.owner] = Copied(cmd.cap)]
    <3>1. /\ cmd.owner \in Tasks /\ cmd.cap \in Nat /\ cmd.cap > 0
          /\ cmd.cap = arg[cmd.owner].cap
      BY <2>3 DEF OwnerOK
    <3>2. Copied(cmd.cap) \in Nat /\ Copied(cmd.cap) <= cmd.cap
      BY <3>1, CopiedFits DEF FramesOK
    <3> QED
      BY <2>1, <2>3, <3>1, <3>2 DEF BufferOK
  <2> QED
    BY <2>1, <2>2, <2>3
<1>5. CASE (\E mode \in BOOLEAN : at_streammode_set(mode)) \/ Modem
  BY <1>5 DEF at_streammode_set, Modem, modem_answers, modem_urc, task, BufferOK
<1>6. CASE UNCHANGED vars
  BY <1>6 DEF vars, task, BufferOK
<1> QED
  BY <1>1, <1>2, <1>3, <1>4, <1>5, <1>6 DEF Next, Caller, Receiver

-----------------------------------------------------------------------------
\* Where respsync is a binary semaphore, a token that a command may take stands
\* for a response to it that is not cleared yet.
WakeOK ==
    /\ respdatalen \in Nat /\ respsync \in 0 .. 1
    /\ \A t \in Tasks : pc[t] \in {"send", "wait"} /\ respsync > 0 => respdatalen > 0
    /\ \A t \in Tasks : pc[t] = "read" => respdatalen > 0

\* No response and no token of respsync at first.
LEMMA WakeInit == Init => WakeOK
  BY DEF Init, WakeOK

\* __cmd_create takes the one token that an earlier command may have left.
LEMMA WakeStep ==
    ASSUME SempLimit = 1, FramesOK, Token, OwnerOK, WakeOK, [Next]_vars
    PROVE  WakeOK'
<1>a. /\ pc \in [Tasks -> Places]
      /\ \A t, u \in Tasks : Holding(t) /\ Holding(u) => t = u
  BY DEF Token
<1> USE DEF WakeOK, Holding, Places
<1>1. ASSUME NEW t \in Tasks, NEW index \in Indexes, NEW cap \in BufLens,
             at_command(t, index, cap)
      PROVE  WakeOK'
  BY <1>1, <1>a DEF at_command, channel
<1>2. ASSUME NEW t \in Tasks, at_command_only_send(t)
      PROVE  WakeOK'
  BY <1>2, <1>a DEF at_command_only_send, channel
<1>3. ASSUME NEW t \in Tasks, cmd_sync(t) \/ cmd_sync_timeout(t)
      PROVE  WakeOK'
  BY <1>3, <1>a DEF cmd_sync, cmd_sync_timeout, channel
<1>4. ASSUME NEW t \in Tasks, cmd_create(t)
      PROVE  WakeOK'
  BY <1>4, <1>a DEF cmd_create, Drained
<1>5. ASSUME NEW t \in Tasks, cmd_send(t)
      PROVE  WakeOK'
  <2>1. /\ pc[t] = "send" /\ UNCHANGED <<respdatalen, respsync>>
        /\ \/ pc' = [pc EXCEPT ![t] = "wait"]
           \/ pc' = [pc EXCEPT ![t] = "clear"]
    BY <1>5, Zenon DEF cmd_send, channel
  <2> QED
    BY <2>1, <1>a
<1>6. ASSUME NEW t \in Tasks, resp_pend(t)
      PROVE  WakeOK'
  BY <1>6, <1>a DEF resp_pend
<1>7. ASSUME NEW t \in Tasks, resp_timeout(t) \/ resp_read(t)
      PROVE  WakeOK'
  BY <1>7, <1>a DEF resp_timeout, resp_read, channel
\* The response is cleared by the only task that may have been woken.
<1>8. ASSUME NEW t \in Tasks, cmd_clear(t)
      PROVE  WakeOK'
  BY <1>8, <1>a DEF cmd_clear
<1>9. CASE rcv_open \/ rcv_loop \/ rcv_read
  BY <1>9 DEF rcv_open, rcv_loop, rcv_read, task, channel
\* A match posts and stores a response that is not empty.
<1>10. CASE rcv_match
  <2>1. /\ pc' = pc
        /\ \/ UNCHANGED <<respdatalen, respsync>>
           \/ respdatalen' = Copied(cmd.cap) /\ respsync' = Give(respsync)
    BY <1>10, Zenon DEF rcv_match, cmd_match, task, channel
  <2>2. Copied(cmd.cap) \in Nat /\ Copied(cmd.cap) > 0
    <3>1. rcvlen \in Nat /\ rcvlen > 0 /\ cmd.cap \in Nat
      BY <1>10 DEF rcv_match, FramesOK, OwnerOK
    <3> QED
      BY <3>1, CopiedFits
  <2> QED
    BY <2>1, <2>2 DEF Give
<1>11. CASE (\E mode \in BOOLEAN : at_streammode_set(mode)) \/ Modem
  BY <1>11 DEF at_streammode_set, Modem, modem_answers, modem_urc, task, channel
<1>12. CASE UNCHANGED vars
  BY <1>12 DEF vars, task, channel
<1> QED
  BY <1>1, <1>2, <1>3, <1>4, <1>5, <1>6, <1>7, <1>8, <1>9, <1>10, <1>11, <1>12
     DEF Next, Caller, Granted, Receiver

-----------------------------------------------------------------------------
(* The types.  What the parts above leave open is in Fields.               *)

Named == Indexes \cup {"none"}
Lengths == BufLens \cup {0}
Fields ==
    /\ ret \in [Tasks -> Nat \cup {-1}]
    /\ \A t \in Tasks : arg[t].index \in Named /\ arg[t].cap \in Lengths
    /\ cmd.index \in Named /\ cmd.cap \in Lengths
    /\ respdatalen \in Nat /\ respsync \in 0 .. SempLimit
    /\ opened \in BOOLEAN /\ streammode \in BOOLEAN /\ branch \in BOOLEAN

\* No call has been made and no command is set.
LEMMA FieldsInit == Init => Fields
<1> SUFFICES ASSUME Init PROVE Fields
  OBVIOUS
<1>1. opened \in BOOLEAN /\ streammode \in BOOLEAN /\ branch \in BOOLEAN
  BY Zenon DEF Init
<1>2. /\ ret \in [Tasks -> Nat \cup {-1}]
      /\ respdatalen \in Nat /\ respsync \in 0 .. SempLimit
  BY AtBounds DEF Init
<1>3. /\ \A t \in Tasks : arg[t].index \in Named /\ arg[t].cap \in Lengths
      /\ cmd.index \in Named /\ cmd.cap \in Lengths
  BY DEF Init, Named, Lengths, NoCmd, NoArg
<1> QED
  BY <1>1, <1>2, <1>3 DEF Fields

\* cmd is a copy of the arguments of a call, and ret a copy of respdatalen.
LEMMA FieldsStep ==
    ASSUME FramesOK, OwnerOK, Fields, [Next]_vars
    PROVE  Fields'
<1>a. /\ arg \in [Tasks -> [call : 0 .. MaxCalls, index : Texts, cap : Nat]]
      /\ rcvlen \in Nat /\ cmd.cap \in Nat /\ SempLimit \in Nat \ {0}
  BY AtBounds DEF FramesOK, OwnerOK
<1> USE DEF Fields
<1>1. ASSUME NEW t \in Tasks, NEW index \in Indexes, NEW cap \in BufLens,
             at_command(t, index, cap)
      PROVE  Fields'
  BY <1>1, <1>a DEF at_command, channel, receiver, Named, Lengths
<1>2. ASSUME NEW t \in Tasks,
             \/ at_command_only_send(t) \/ cmd_sync(t) \/ cmd_sync_timeout(t)
             \/ resp_timeout(t) \/ resp_read(t)
      PROVE  Fields'
  BY <1>2 DEF at_command_only_send, cmd_sync, cmd_sync_timeout, resp_timeout,
              resp_read, channel, receiver
<1>3. ASSUME NEW t \in Tasks, cmd_create(t)
      PROVE  Fields'
  BY <1>3, <1>a DEF cmd_create, Drained, receiver
<1>4. ASSUME NEW t \in Tasks, cmd_send(t)
      PROVE  Fields'
  <2>1. UNCHANGED <<arg, channel, receiver>> /\ (UNCHANGED ret \/ ret' = [ret EXCEPT ![t] = -1])
    BY <1>4, Zenon DEF cmd_send
  <2> QED
    BY <2>1 DEF channel, receiver
<1>5. ASSUME NEW t \in Tasks, resp_pend(t) \/ cmd_clear(t)
      PROVE  Fields'
  BY <1>5, <1>a DEF resp_pend, cmd_clear, receiver, NoCmd, Named, Lengths
<1>6. CASE rcv_open \/ rcv_loop \/ rcv_read
  BY <1>6 DEF rcv_open, rcv_loop, rcv_read, task, channel
<1>7. CASE rcv_match
  <2>1. /\ UNCHANGED <<task, cmd, opened, streammode, branch>>
        /\ \/ UNCHANGED <<respdatalen, respsync>>
           \/ respdatalen' = Copied(cmd.cap) /\ respsync' = Give(respsync)
    BY <1>7, Zenon DEF rcv_match, cmd_match, channel
  <2>2. Copied(cmd.cap) \in Nat
    BY <1>a, CopiedFits
  <2> QED
    BY <2>1, <2>2, <1>a DEF Give, task
<1>8. CASE (\E mode \in BOOLEAN : at_streammode_set(mode)) \/ Modem
  BY <1>8 DEF at_streammode_set, Modem, modem_answers, modem_urc, task, channel, receiver
<1>9. CASE UNCHANGED vars
  BY <1>9 DEF vars, task, channel, receiver
<1> QED
  BY <1>1, <1>2, <1>3, <1>4, <1>5, <1>6, <1>7, <1>8, <1>9
     DEF Next, Caller, Granted, Receiver

\* Every field of g_at_cb keeps its type on every port.
THEOREM TypesAreKept == Spec => []TypeOK
<1> DEFINE Inv == FramesOK /\ Token /\ OwnerOK /\ BufferOK /\ Fields
<1>1. Init => Inv
  BY FramesInit, TokenInit, OwnerInit, FieldsInit
<1>2. Inv /\ [Next]_vars => Inv'
  BY FramesStep, TokenStep, OwnerStep, BufferStep, FieldsStep
<1>3. Inv => TypeOK
  BY AtBounds DEF FramesOK, Token, Places, OwnerOK, BufferOK, Fields, Named, Lengths,
                  TypeOK
<1> QED
  BY <1>1, <1>2, <1>3, PTL DEF Spec

-----------------------------------------------------------------------------
\* at_command: one command is executed at one time and cmdsync is never lost.
THEOREM OneCommandAtATime == Spec => []OneCommand
  BY TokenInit, TokenStep, TokenIsOne, PTL DEF Spec

\* __cmd_match writes only into the buffer of a call that has not returned, and
\* no more than it holds.
THEOREM ResponseFits == Spec => []RespBufInUse
<1> DEFINE Inv == FramesOK /\ Token /\ OwnerOK /\ BufferOK
<1>1. Init => Inv
  BY FramesInit, TokenInit, OwnerInit
<1>2. Inv /\ [Next]_vars => Inv'
  BY FramesStep, TokenStep, OwnerStep, BufferStep
<1>3. Inv => RespBufInUse
  BY DEF OwnerOK, BufferOK, RespBufInUse
<1> QED
  BY <1>1, <1>2, <1>3, PTL DEF Spec

\* On a port that honours the limit of osal_semp_create, at_command is woken only
\* by a response to it.
THEOREM WokenOnlyByResponse == ASSUME SempLimit = 1 PROVE Spec => []WokenByResponse
<1> DEFINE Inv == FramesOK /\ Token /\ OwnerOK /\ WakeOK
<1>1. Init => Inv
  BY FramesInit, TokenInit, OwnerInit, WakeInit
<1>2. Inv /\ [Next]_vars => Inv'
  BY FramesStep, TokenStep, OwnerStep, WakeStep
<1>3. Inv => WokenByResponse
  BY DEF WakeOK, WokenByResponse
<1> QED
  BY <1>1, <1>2, <1>3, PTL DEF Spec

-----------------------------------------------------------------------------
(* The table of out of band dealers *)

Field == Dealers \cup {Null}
Entry == [index : Field, len : Field, func : Field, args : Field]

Types ==
    /\ oob \in [1 .. Slots -> Entry]
    /\ reg_pc \in [Dealers -> {"idle", "scan", "index", "len", "func", "args", "done",
                           "returned"}]
    /\ slot \in [Dealers -> 1 .. Slots + 1]
    /\ reg_ret \in [Dealers -> {Null, 0, -1}]
    /\ rcv \in [frame : Field, i : 1 .. Slots + 1, func : Field, args : Field]

\* An entry with a function is an entry of one dealer: index and len were
\* stored before.
Entries ==
    \A i \in 1 .. Slots :
      /\ oob[i].func # Null => oob[i].index = oob[i].func /\ oob[i].len = oob[i].func

\* How far the entry of a registration in progress is.
Progress ==
    \A d \in Dealers :
      /\ reg_pc[d] \in {"index", "len", "func", "args", "done"} => slot[d] \in 1 .. Slots
      /\ reg_pc[d] \in {"index", "len", "func"} => oob[slot[d]].func = Null
      /\ reg_pc[d] \in {"len", "func", "args", "done"} => oob[slot[d]].index = d
      /\ reg_pc[d] \in {"func", "args", "done"} => oob[slot[d]].len = d
      /\ reg_pc[d] \in {"args", "done"} => oob[slot[d]].func = d
      /\ reg_pc[d] = "done" => oob[slot[d]].args = d
      /\ reg_ret[d] = 0 => reg_pc[d] = "returned"

Called == rcv.func # Null => rcv.func = rcv.frame

OobInv == Types /\ OneAtATime /\ Entries /\ Progress /\ Called /\ RegistrationKept

\* The table is empty at first.
LEMMA InitOob == OobInit => OobInv
  BY NullIsNothing, SlotCount
     DEF OobInit, OobInv, Types, OneAtATime, Entries, Progress, Called,
         RegistrationKept, Blank, NoCall, Entry, Field

\* The receiver reads the table and changes nothing in it.
LEMMA ReceiverStep ==
    ASSUME OobInv, (\E d \in Dealers : oob_frame(d)) \/ oob_match \/ oob_return
    PROVE  OobInv'
<1>1. UNCHANGED <<oob, reg_pc, slot, reg_ret>>
  BY DEF oob_frame, oob_match, oob_return
<1>2. ASSUME \E d \in Dealers : oob_frame(d) PROVE Types' /\ Called'
  BY <1>1, <1>2, NullIsNothing, SlotCount
     DEF OobInv, Types, Called, Field, NoCall, oob_frame
<1>3. ASSUME oob_return PROVE Types' /\ Called'
  BY <1>1, <1>3, NullIsNothing, SlotCount
     DEF OobInv, Types, Called, Field, NoCall, oob_return
<1>4. ASSUME oob_match PROVE Types' /\ Called'
  <2>1. CASE rcv.i > Slots
    BY <1>1, <1>4, <2>1, SlotCount
       DEF OobInv, Types, Called, Field, NoCall, oob_match
  <2>2. CASE rcv.i <= Slots /\ Matches(rcv.i)
    <3>1. rcv.i \in 1 .. Slots /\ oob[rcv.i] \in Entry
      BY <2>2, SlotCount DEF OobInv, Types
    <3>2. rcv' = [rcv EXCEPT !.func = oob[rcv.i].func, !.args = oob[rcv.i].args]
      BY <1>4, <2>2, <3>1, SlotCount DEF oob_match
    <3>3. oob[rcv.i].func = rcv.frame
      BY <2>2, <3>1, NullIsNothing DEF OobInv, Entries, Matches
    <3>4. oob[rcv.i].func \in Field /\ oob[rcv.i].args \in Field
      BY <3>1 DEF Entry
    <3> QED
      BY <1>1, <3>2, <3>3, <3>4 DEF OobInv, Types, Called
  <2>3. CASE rcv.i <= Slots /\ ~Matches(rcv.i)
    <3>1. rcv' = [rcv EXCEPT !.i = @ + 1] /\ rcv.func = Null
      BY <1>4, <2>3, SlotCount DEF oob_match, OobInv, Types
    <3>2. rcv.i + 1 \in 1 .. Slots + 1
      BY <2>3, SlotCount DEF OobInv, Types
    <3>3. /\ rcv'.frame = rcv.frame /\ rcv'.func = Null
          /\ rcv' \in [frame : Field, i : 1 .. Slots + 1, func : Field, args : Field]
      BY <3>1, <3>2 DEF OobInv, Types
    <3> QED
      BY <1>1, <3>3 DEF OobInv, Types, Called
  <2> QED
    BY <2>1, <2>2, <2>3, SlotCount DEF OobInv, Types
<1>5. Types' /\ Called'
  BY <1>1, <1>2, <1>3, <1>4 DEF OobInv, Types
<1> QED
  BY <1>1, <1>5 DEF OobInv, OneAtATime, Entries, Progress, RegistrationKept

\* A field that a registration stores goes to an entry that is nobody else's.
LEMMA WriteStep ==
    ASSUME OobInv, NEW d \in Dealers, register_write(d), OneAtATime'
    PROVE  OobInv'
<1> DEFINE s == slot[d]
<1>1. /\ s \in 1 .. Slots /\ oob[s] \in Entry
      /\ reg_pc[d] \in {"index", "len", "func", "args"}
      /\ oob' = [oob EXCEPT ![s][reg_pc[d]] = d]
      /\ reg_pc' = [reg_pc EXCEPT ![d] = FieldAfter(@)]
      /\ UNCHANGED <<slot, reg_ret, rcv>>
  BY DEF OobInv, Types, Progress, register_write
<1>2. \A e \in Dealers : e # d => reg_pc[e] \in {"idle", "returned"}
  BY <1>1 DEF OobInv, OneAtATime, Types
<1>3. /\ oob' = [oob EXCEPT ![s] = oob'[s]]
      /\ oob'[s] = [oob[s] EXCEPT ![reg_pc[d]] = d]
  BY <1>1 DEF OobInv, Types
\* What is in the entry before and after each of the four stores.
<1>4. /\ oob'[s] \in Entry
      /\ \/ /\ reg_pc[d] = "index" /\ reg_pc'[d] = "len"
            /\ oob'[s].index = d /\ oob'[s].func = Null
         \/ /\ reg_pc[d] = "len" /\ reg_pc'[d] = "func"
            /\ oob'[s].index = d /\ oob'[s].len = d /\ oob'[s].func = Null
         \/ /\ reg_pc[d] = "func" /\ reg_pc'[d] = "args"
            /\ oob'[s].index = d /\ oob'[s].len = d /\ oob'[s].func = d
         \/ /\ reg_pc[d] = "args" /\ reg_pc'[d] = "done"
            /\ oob'[s].index = d /\ oob'[s].len = d /\ oob'[s].func = d
            /\ oob'[s].args = d
  <2>a. /\ d \in Field /\ oob[s] \in Entry
        /\ reg_pc[d] \in {"index", "len", "func"} => oob[s].func = Null
        /\ reg_pc[d] \in {"len", "func", "args"} => oob[s].index = d
        /\ reg_pc[d] \in {"func", "args"} => oob[s].len = d
        /\ reg_pc[d] = "args" => oob[s].func = d
    BY <1>1 DEF OobInv, Progress, Field
  <2>b. reg_pc'[d] = FieldAfter(reg_pc[d])
    BY <1>1 DEF OobInv, Types
  <2>1. CASE reg_pc[d] = "index"
    <3>1. oob'[s] = [oob[s] EXCEPT !.index = d]
      BY <1>3, <2>1
    <3>2. reg_pc'[d] = "len"
      BY <2>b, <2>1 DEF FieldAfter
    <3> QED
      BY <2>a, <2>1, <3>1, <3>2 DEF Entry
  <2>2. CASE reg_pc[d] = "len"
    <3>1. oob'[s] = [oob[s] EXCEPT !.len = d]
      BY <1>3, <2>2
    <3>2. reg_pc'[d] = "func"
      BY <2>b, <2>2 DEF FieldAfter
    <3> QED
      BY <2>a, <2>2, <3>1, <3>2 DEF Entry
  <2>3. CASE reg_pc[d] = "func"
    <3>1. oob'[s] = [oob[s] EXCEPT !.func = d]
      BY <1>3, <2>3
    <3>2. reg_pc'[d] = "args"
      BY <2>b, <2>3 DEF FieldAfter
    <3> QED
      BY <2>a, <2>3, <3>1, <3>2 DEF Entry
  <2>4. CASE reg_pc[d] = "args"
    <3>1. oob'[s] = [oob[s] EXCEPT !.args = d]
      BY <1>3, <2>4
    <3>2. reg_pc'[d] = "done"
      BY <2>b, <2>4 DEF FieldAfter
    <3> QED
      BY <2>a, <2>4, <3>1, <3>2 DEF Entry
  <2> QED
    BY <1>1, <2>1, <2>2, <2>3, <2>4
<1>5. Types' /\ Called'
  <2>1. oob' \in [1 .. Slots -> Entry]
    BY <1>1, <1>3, <1>4 DEF OobInv, Types
  <2>2. reg_pc' \in [Dealers -> {"idle", "scan", "index", "len", "func", "args", "done",
                             "returned"}]
    BY <1>1, <1>4 DEF OobInv, Types
  <2> QED
    BY <1>1, <2>1, <2>2 DEF OobInv, Types, Called
<1>6. \A i \in 1 .. Slots : i # s => oob'[i] = oob[i]
  BY <1>1, <1>3 DEF OobInv, Types
<1>7. Entries'
  BY <1>1, <1>4, <1>6, NullIsNothing DEF OobInv, Entries
<1>8. \A e \in Dealers : e # d => reg_pc'[e] = reg_pc[e]
  BY <1>1 DEF OobInv, Types
<1>9. Progress'
  <2>1. ASSUME NEW e \in Dealers, e # d
        PROVE  reg_pc'[e] \in {"idle", "returned"} /\ (reg_ret'[e] = 0 => reg_pc'[e] = "returned")
    BY <1>1, <1>2, <1>8, <2>1 DEF OobInv, Progress
  <2>2. reg_ret'[d] # 0
    BY <1>1 DEF OobInv, Progress
  <2> QED
    BY <1>1, <1>4, <2>1, <2>2 DEF Progress
\* The entry of a finished registration has a function, and another one's.
<1>10. RegistrationKept'
  <2>1. ASSUME NEW e \in Dealers, reg_ret'[e] = 0
        PROVE  \E i \in 1 .. Slots :
                 oob'[i] = [index |-> e, len |-> e, func |-> e, args |-> e]
    <3>1. reg_ret[e] = 0 /\ e # d
      BY <1>1, <2>1 DEF OobInv, Progress
    <3>2. PICK i \in 1 .. Slots :
            oob[i] = [index |-> e, len |-> e, func |-> e, args |-> e]
      BY <3>1 DEF OobInv, RegistrationKept
    <3>3. oob[s].func = Null \/ oob[s].func = d
      BY <1>1 DEF OobInv, Progress
    <3>4. i # s
      BY <3>1, <3>2, <3>3, NullIsNothing
    <3> QED
      BY <1>6, <3>2, <3>4
  <2> QED
    BY <2>1 DEF RegistrationKept
<1> QED
  BY <1>5, <1>7, <1>9, <1>10 DEF OobInv

\* The other steps of a registration store nothing in the table.
LEMMA RegisterStep ==
    ASSUME OobInv, NEW d \in Dealers, Register(d), OneAtATime'
    PROVE  OobInv'
<1>1. CASE at_oobregister(d)
  BY <1>1, SlotCount DEF at_oobregister, OobInv, Types, Entries, Progress, Called,
                         RegistrationKept
<1>2. CASE register_scan(d)
  <2>1. CASE slot[d] > Slots
    <3>1. /\ reg_pc[d] = "scan" /\ reg_pc' = [reg_pc EXCEPT ![d] = "returned"]
          /\ reg_ret' = [reg_ret EXCEPT ![d] = -1] /\ UNCHANGED <<oob, slot, rcv>>
      BY <1>2, <2>1 DEF register_scan
    <3>2. Types' /\ Entries' /\ Called'
      BY <3>1 DEF OobInv, Types, Entries, Called
    <3>3. reg_pc'[d] = "returned" /\ reg_ret'[d] = -1
          /\ \A e \in Dealers : e # d => reg_pc'[e] = reg_pc[e] /\ reg_ret'[e] = reg_ret[e]
      BY <3>1 DEF OobInv, Types
    <3>4. Progress'
      BY <3>1, <3>3 DEF OobInv, Progress
    <3>5. RegistrationKept'
      <4>1. \A e \in Dealers : reg_ret'[e] = 0 => reg_ret[e] = 0
        BY <3>3
      <4> QED
        BY <3>1, <4>1 DEF OobInv, RegistrationKept
    <3> QED
      BY <3>2, <3>4, <3>5 DEF OobInv
  <2>2. CASE slot[d] <= Slots /\ Free(slot[d])
    <3>1. /\ reg_pc[d] = "scan" /\ reg_pc' = [reg_pc EXCEPT ![d] = "index"]
          /\ UNCHANGED <<oob, slot, reg_ret, rcv>>
      BY <1>2, <2>2, SlotCount DEF register_scan, FieldAfter, OobInv, Types
    <3>2. slot[d] \in 1 .. Slots /\ oob[slot[d]].func = Null
      BY <2>2, SlotCount DEF Free, OobInv, Types
    <3>3. reg_pc'[d] = "index" /\ \A e \in Dealers : e # d => reg_pc'[e] = reg_pc[e]
      BY <3>1 DEF OobInv, Types
    <3>4. reg_ret[d] # 0
      BY <3>1 DEF OobInv, Progress
    <3>5. Progress'
      BY <3>1, <3>2, <3>3, <3>4 DEF OobInv, Progress
    <3> QED
      BY <3>1, <3>5 DEF OobInv, Types, Entries, Called, RegistrationKept
  <2>3. CASE slot[d] <= Slots /\ ~Free(slot[d])
    <3>1. /\ reg_pc[d] = "scan" /\ slot' = [slot EXCEPT ![d] = @ + 1]
          /\ UNCHANGED <<oob, reg_pc, reg_ret, rcv>>
      BY <1>2, <2>3, SlotCount DEF register_scan, OobInv, Types
    <3>2. slot' \in [Dealers -> 1 .. Slots + 1]
      BY <2>3, <3>1, SlotCount DEF OobInv, Types
    <3>3. \A e \in Dealers : e # d => slot'[e] = slot[e]
      BY <3>1 DEF OobInv, Types
    <3>4. Progress'
      BY <3>1, <3>3 DEF OobInv, Progress
    <3> QED
      BY <3>1, <3>2, <3>4 DEF OobInv, Types, Entries, Called, RegistrationKept
  <2> QED
    BY <2>1, <2>2, <2>3, SlotCount DEF OobInv, Types
<1>3. CASE register_write(d)
  BY <1>3, WriteStep
<1>4. CASE register_return(d)
  <2>1. reg_pc[d] = "done" /\ reg_ret' = [reg_ret EXCEPT ![d] = 0]
        /\ reg_pc' = [reg_pc EXCEPT ![d] = "returned"] /\ UNCHANGED <<oob, slot, rcv>>
    BY <1>4 DEF register_return
  <2>2. /\ slot[d] \in 1 .. Slots
        /\ oob[slot[d]] = [index |-> d, len |-> d, func |-> d, args |-> d]
    BY <2>1 DEF OobInv, Types, Entry, Progress
  <2>3. RegistrationKept'
    BY <2>1, <2>2 DEF OobInv, Types, RegistrationKept
  <2> QED
    BY <2>1, <2>3 DEF OobInv, Types, Entries, Progress, Called
<1> QED
  BY <1>1, <1>2, <1>3, <1>4 DEF Register

\* Every step keeps the invariant, registrations one after the other.
LEMMA NextOob == OobInv /\ [NextInTurn]_oob_vars => OobInv'
<1> SUFFICES ASSUME OobInv, [NextInTurn]_oob_vars PROVE OobInv'
  OBVIOUS
<1>1. CASE NextInTurn
  BY <1>1, ReceiverStep, RegisterStep DEF NextInTurn, OobNext
<1>2. CASE UNCHANGED oob_vars
  BY <1>2 DEF oob_vars, OobInv, Types, OneAtATime, Entries, Progress, Called,
              RegistrationKept
<1> QED
  BY <1>1, <1>2

\* So it holds of every state.
LEMMA OobInvariant == SequentialSpec => []OobInv
  BY InitOob, NextOob, PTL DEF SequentialSpec

\* A dealer is called only for a frame that starts with its index, however far
\* its registration has come: at_oobregister stores func after index and len.
THEOREM DealersGetTheirFrames == SequentialSpec => []DealerGetsItsFrame
<1>1. OobInv => DealerGetsItsFrame
  BY DEF OobInv, Types, Called, DealerGetsItsFrame, OobTypeOK, Entry, Field
<1> QED
  BY <1>1, OobInvariant, PTL

\* An entry for which at_oobregister returned 0 is complete and stays.
THEOREM RegistrationsStay == SequentialSpec => []RegistrationKept
<1>1. OobInv => RegistrationKept
  BY DEF OobInv
<1> QED
  BY <1>1, OobInvariant, PTL
=============================================================================
