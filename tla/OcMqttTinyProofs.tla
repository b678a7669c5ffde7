-------------------------- MODULE OcMqttTinyProofs --------------------------
(***************************************************************************)
(* The agent is safe for any number of applications, topics and outages.   *)
(* The argument follows the daemon: which task's command it has where, who *)
(* owns the session, and what is left to subscribe after a reconnect.      *)
(***************************************************************************)
EXTENDS OcMqttTiny, ListLemmas, FiniteSetTheorems

\* The places of the daemon in hub_step and bs_step.
Busy == {"gernerate", "dmp_connect", "dmp_subscribe", "bs_publish", "bs_wait",
         "exit_err"}

Types ==
    /\ queue \in Seq(Apps) /\ Len(queue) <= QueueLen
    /\ cmd \in [Apps -> Commands \cup {None}]
    /\ reply \in [Apps -> Codes \cup {None}]
    /\ pc \in Pcs /\ cur \in Apps \cup {None} /\ ret \in Codes
    /\ status \in {"idle", "bs_getaddr", "dmp_connecting", "hub_keep"}
    /\ outages \in 0 .. MaxOutage

\* Which command the daemon has, and where.
Control ==
    /\ pc \in {"run", "connect_end"} => cur \in Apps
    /\ pc \in {"pop", "check"} => cur = None
    /\ pc \in Busy => \/ status = "hub_keep" /\ cur = None
                      \/ status \in {"bs_getaddr", "dmp_connecting"} /\ cur \in Apps
    /\ pc \in {"pop", "check", "run"} => status \in {"idle", "hub_keep"}
    /\ pc = "connect_end" => \/ status = "idle" /\ ret # "ok"
                             \/ status \in {"bs_getaddr", "dmp_connecting"}

Ctl == Types /\ Control

\* The daemon waits for a command at first.
LEMMA InitCtl == Init => Ctl
  BY Sizes, NoneIsNothing, EmptySeq
     DEF Init, Ctl, Types, Control, Busy, Pcs, Codes

\* The steps of applications and of the network.
LEMMA OutsideCtl ==
    ASSUME Ctl,
           \/ \E a \in Apps, c \in Commands : daemon_cmd_post(a, c)
           \/ \E a \in Apps : cmd_done(a)
           \/ link_lost
           \/ \E copied \in BOOLEAN : bs_msg_default_deal(copied)
    PROVE  Ctl'
<1> USE DEF Ctl, Types, Control, Busy, callers, daemon
<1>1. ASSUME NEW a \in Apps, NEW c \in Commands, daemon_cmd_post(a, c) PROVE Ctl'
  BY <1>1, Sizes DEF daemon_cmd_post
<1>2. ASSUME NEW a \in Apps, cmd_done(a) PROVE Ctl'
  BY <1>2 DEF cmd_done
<1>3. CASE link_lost
  BY <1>3, Sizes DEF link_lost
<1>4. ASSUME NEW copied \in BOOLEAN, bs_msg_default_deal(copied) PROVE Ctl'
  BY <1>4 DEF bs_msg_default_deal
<1> QED
  BY <1>1, <1>2, <1>3, <1>4

\* The steps of a connection.
LEMMA ConnectionCtl ==
    ASSUME Ctl, connection
    PROVE  Ctl'
<1> USE DEF Ctl, Types, Control, Busy, Pcs, Codes, callers, daemon, Running, Answer
<1>1. CASE connect_refused
  BY <1>1 DEF connect_refused
<1>2. ASSUME NEW f \in {"ok", "parafmt", "sysmem"}, config_parameter_clone(f)
      PROVE  Ctl'
  BY <1>2 DEF config_parameter_clone
<1>3. ASSUME NEW mem \in BOOLEAN, oc_mqtt_para_gernerate(mem) PROVE Ctl'
  BY <1>3 DEF oc_mqtt_para_gernerate
<1>4. ASSUME NEW ok \in BOOLEAN, dmp_connect(ok) PROVE Ctl'
  BY <1>4 DEF dmp_connect
<1>5. ASSUME NEW ok \in BOOLEAN, bs_publish(ok) PROVE Ctl'
  BY <1>5 DEF bs_publish
<1>6. ASSUME NEW o \in Outcomes, dmp_subscribe(o) PROVE Ctl'
  BY <1>6 DEF dmp_subscribe
<1>7. CASE subscribed
  BY <1>7 DEF subscribed, Stepped
<1>8. CASE bs_wait
  BY <1>8 DEF bs_wait
<1>9. CASE exit_err
  BY <1>9 DEF exit_err, Stepped
<1>10. CASE connect_end
  BY <1>10 DEF connect_end, config_parameter_release
<1> QED
  BY <1>1, <1>2, <1>3, <1>4, <1>5, <1>6, <1>7, <1>8, <1>9, <1>10 DEF connection

\* The other steps of the daemon.
LEMMA DaemonCtl ==
    ASSUME Ctl, queue_pop \/ pop_timeout \/ other_commands \/ check_link
    PROVE  Ctl'
<1> USE DEF Ctl, Types, Control, Busy, Pcs, Codes, callers, daemon, Running, Answer
<1>1. CASE queue_pop
  <2>1. /\ Head(queue) \in Apps /\ Tail(queue) \in Seq(Apps)
        /\ Len(Tail(queue)) = Len(queue) - 1 /\ Len(queue) \in Nat
    BY <1>1, HeadTailProperties, LenProperties DEF queue_pop
  <2> QED
    BY <1>1, <2>1, Sizes, NoneIsNothing DEF queue_pop
<1>2. CASE pop_timeout
  BY <1>2 DEF pop_timeout
<1>3. CASE command_refused
  BY <1>3 DEF command_refused
<1>4. CASE disconnect
  BY <1>4 DEF disconnect, config_parameter_release
<1>5. ASSUME NEW ok \in BOOLEAN, publish(ok) PROVE Ctl'
  BY <1>5 DEF publish
<1>6. ASSUME NEW o \in Outcomes \cup {"sysmem"}, deal_api_subscribe(o) PROVE Ctl'
  BY <1>6 DEF deal_api_subscribe
<1>7. ASSUME NEW o \in Outcomes, deal_api_unsubscribe(o) PROVE Ctl'
  BY <1>7 DEF deal_api_unsubscribe
<1>8. CASE check_link
  BY <1>8 DEF check_link, LinkDown
<1> QED
  BY <1>1, <1>2, <1>3, <1>4, <1>5, <1>6, <1>7, <1>8 DEF other_commands

\* Together they are what can happen.
LEMMA NextCtl == Ctl /\ [Next]_vars => Ctl'
<1> SUFFICES ASSUME Ctl, [Next]_vars PROVE Ctl'
  OBVIOUS
<1>1. CASE UNCHANGED vars
  BY <1>1 DEF vars, callers, daemon, Ctl, Types, Control, Busy
<1> QED
  BY <1>1, OutsideCtl, ConnectionCtl, DaemonCtl DEF Next, daemon_entry

-----------------------------------------------------------------------------
\* Where the commands are.
InQueue(a) == \E i \in 1 .. Len(queue) : queue[i] = a

Places ==
    /\ \A i, j \in 1 .. Len(queue) : queue[i] = queue[j] => i = j
    /\ \A a \in Apps :
         /\ InQueue(a) => cmd[a] # None /\ reply[a] = None /\ cur # a
         /\ cur = a => cmd[a] # None /\ reply[a] = None
         /\ reply[a] # None => cmd[a] # None
         /\ cmd[a] # None => InQueue(a) \/ cur = a \/ reply[a] # None

\* There is none at first.
LEMMA InitPlaces == Init => Places
  BY NoneIsNothing, EmptySeq DEF Init, Places, InQueue

\* The daemon answers a command once and gives it back with that.
LEMMA AnswerPlaces ==
    ASSUME Ctl, Places, NEW code \in Codes, cur \in Apps, Answer(code)
    PROVE  Places'
<1>1. /\ cur' = None /\ UNCHANGED <<queue, cmd>>
      /\ reply' = [reply EXCEPT ![cur] = code]
  BY DEF Answer
<1>2. \A a \in Apps : InQueue(a)' <=> InQueue(a)
  BY <1>1 DEF InQueue
<1>3. /\ reply'[cur] = code /\ code # None
      /\ \A a \in Apps : a # cur => reply'[a] = reply[a]
  BY <1>1, NoneIsNothing DEF Ctl, Types
<1> QED
  BY <1>1, <1>2, <1>3, NoneIsNothing DEF Places

\* A new command goes behind the others.
LEMMA PostPlaces ==
    ASSUME Ctl, Places, NEW a \in Apps, NEW c \in Commands, daemon_cmd_post(a, c)
    PROVE  Places'
<1>1. /\ cmd[a] = None /\ cmd' = [cmd EXCEPT ![a] = c] /\ queue' = Append(queue, a)
      /\ UNCHANGED <<reply, cur>>
  BY DEF daemon_cmd_post, daemon
<1>2. /\ cmd'[a] = c /\ c # None /\ \A b \in Apps : b # a => cmd'[b] = cmd[b]
  BY <1>1, NoneIsNothing DEF Ctl, Types
<1>3. /\ Len(queue) \in Nat /\ Len(queue') = Len(queue) + 1
      /\ queue'[Len(queue) + 1] = a
      /\ \A i \in 1 .. Len(queue) : queue'[i] = queue[i]
  BY <1>1, AppendProperties, LenProperties DEF Ctl, Types
<1>4. ~InQueue(a)
  BY <1>1 DEF Places
<1>5. \A i, j \in 1 .. Len(queue') : queue'[i] = queue'[j] => i = j
  BY <1>3, <1>4 DEF Places, InQueue
<1>6. \A b \in Apps : InQueue(b)' <=> InQueue(b) \/ b = a
  BY <1>3 DEF InQueue
<1> QED
  BY <1>1, <1>2, <1>4, <1>5, <1>6 DEF Places

\* The daemon takes the first command.
LEMMA PopPlaces == ASSUME Ctl, Places, queue_pop PROVE Places'
<1>1. /\ queue # << >> /\ cur = None /\ cur' = Head(queue) /\ queue' = Tail(queue)
      /\ UNCHANGED <<cmd, reply>>
  BY DEF queue_pop, Ctl, Control
<1>2. /\ Len(queue) \in Nat \ {0} /\ Len(queue') = Len(queue) - 1
      /\ cur' = queue[1] /\ cur' \in Apps
      /\ \A i \in 1 .. Len(queue) - 1 : queue'[i] = queue[i + 1]
  BY <1>1, HeadTailProperties, LenProperties, EmptySeq DEF Ctl, Types
<1> DEFINE n == Len(queue)
<1> HIDE DEF n
<1>3. \A i, j \in 1 .. n : queue[i] = queue[j] => i = j
  BY DEF Places, n
<1>4. \A i \in 1 .. n - 1 : i + 1 \in 1 .. n /\ queue'[i] = queue[i + 1] /\ i + 1 # 1
  BY <1>2 DEF n
<1>5. \A i \in 1 .. n : i # 1 => i - 1 \in 1 .. n - 1 /\ queue'[i - 1] = queue[i]
  <2> TAKE i \in 1 .. n
  <2>1. CASE i # 1
    <3>0. n \in Nat
      BY <1>2 DEF n
    <3>1. i - 1 \in 1 .. n - 1 /\ (i - 1) + 1 = i
      BY <2>1, <3>0
    <3> QED
      BY <1>4, <3>1
  <2> QED
    BY <2>1
<1>6. ASSUME NEW i \in 1 .. n - 1, NEW j \in 1 .. n - 1, queue'[i] = queue'[j]
      PROVE  i = j
  <2>1. i + 1 = j + 1
    BY <1>3, <1>4, <1>6
  <2> QED
    BY <1>2, <2>1 DEF n
<1>7. \A i, j \in 1 .. Len(queue') : queue'[i] = queue'[j] => i = j
  BY <1>2, <1>6 DEF n
<1>8. ASSUME NEW a \in Apps PROVE InQueue(a)' <=> InQueue(a) /\ a # cur'
  <2>1. InQueue(a)' <=> \E i \in 1 .. n - 1 : queue'[i] = a
    BY <1>2 DEF InQueue, n
  <2>2. InQueue(a) <=> \E i \in 1 .. n : queue[i] = a
    BY DEF InQueue, n
  <2>3. 1 \in 1 .. n /\ cur' = queue[1]
    BY <1>2 DEF n
  <2>4. ASSUME NEW i \in 1 .. n - 1, queue'[i] = a
        PROVE  a # cur' /\ \E j \in 1 .. n : queue[j] = a
    BY <1>3, <1>4, <2>3, <2>4
  <2>5. ASSUME NEW j \in 1 .. n, queue[j] = a, a # cur'
        PROVE  \E i \in 1 .. n - 1 : queue'[i] = a
    BY <1>5, <2>3, <2>5
  <2> QED
    BY <2>1, <2>2, <2>4, <2>5
<1>9. InQueue(cur')
  BY <1>2 DEF InQueue
<1>10. ASSUME NEW a \in Apps
       PROVE  /\ InQueue(a)' => cmd[a] # None /\ reply[a] = None /\ cur' # a
              /\ cur' = a => cmd[a] # None /\ reply[a] = None
              /\ reply[a] # None => cmd[a] # None
              /\ cmd[a] # None => InQueue(a)' \/ cur' = a \/ reply[a] # None
  <2>1. cur # a
    BY <1>1, NoneIsNothing
  <2> QED
    BY <1>8, <1>9, <2>1 DEF Places
<1> QED
  BY <1>1, <1>7, <1>10 DEF Places

\* No other step moves a command.
LEMMA NextPlaces == Ctl /\ Places /\ [Next]_vars => Places'
<1> SUFFICES ASSUME Ctl, Places, [Next]_vars PROVE Places'
  OBVIOUS
<1>0. ASSUME UNCHANGED <<queue, cmd, reply, cur>> PROVE Places'
  BY <1>0 DEF Places, InQueue
<1>1. CASE UNCHANGED vars
  BY <1>0, <1>1 DEF vars, callers, daemon
<1>2. ASSUME NEW a \in Apps, NEW c \in Commands, daemon_cmd_post(a, c) PROVE Places'
  BY <1>2, PostPlaces
<1>3. ASSUME NEW a \in Apps, cmd_done(a) PROVE Places'
  <2>1. /\ reply[a] # None /\ UNCHANGED <<queue, cur>>
        /\ cmd' = [cmd EXCEPT ![a] = None] /\ reply' = [reply EXCEPT ![a] = None]
    BY <1>3 DEF cmd_done, Signalled, daemon
  <2>2. /\ cmd'[a] = None /\ reply'[a] = None
        /\ \A b \in Apps : b # a => cmd'[b] = cmd[b] /\ reply'[b] = reply[b]
    BY <2>1 DEF Ctl, Types
  <2>3. \A b : InQueue(b)' <=> InQueue(b)
    BY <2>1 DEF InQueue
  <2> QED
    BY <2>1, <2>2, <2>3 DEF Places
<1>4. CASE link_lost \/ \E copied \in BOOLEAN : bs_msg_default_deal(copied)
  BY <1>0, <1>4 DEF link_lost, bs_msg_default_deal, callers, daemon
<1>5. CASE queue_pop
  BY <1>5, PopPlaces
<1>6. CASE pop_timeout \/ check_link
  BY <1>0, <1>6 DEF pop_timeout, check_link, callers
<1>7. CASE connection
  <2>1. CASE connect_refused
    BY <2>1, AnswerPlaces DEF connect_refused, Running, Codes, Ctl, Control
  <2>2. ASSUME NEW f \in {"ok", "parafmt", "sysmem"}, config_parameter_clone(f)
        PROVE  Places'
    BY <1>0, <2>2 DEF config_parameter_clone, callers
  <2>3. ASSUME NEW b \in BOOLEAN,
               oc_mqtt_para_gernerate(b) \/ dmp_connect(b) \/ bs_publish(b)
        PROVE  Places'
    BY <1>0, <2>3 DEF oc_mqtt_para_gernerate, dmp_connect, bs_publish, callers
  <2>4. ASSUME NEW o \in Outcomes, dmp_subscribe(o) PROVE Places'
    BY <1>0, <2>4 DEF dmp_subscribe, callers
  <2>5. CASE subscribed \/ bs_wait \/ exit_err
    BY <1>0, <2>5 DEF subscribed, bs_wait, exit_err, callers
  <2>6. CASE connect_end
    BY <2>6, AnswerPlaces DEF connect_end, Ctl, Types, Control
  <2> QED
    BY <1>7, <2>1, <2>2, <2>3, <2>4, <2>5, <2>6 DEF connection
<1>8. CASE other_commands
  <2> USE DEF Running, Codes, Ctl, Control
  <2>1. CASE command_refused
    BY <2>1, AnswerPlaces DEF command_refused
  <2>2. CASE disconnect
    BY <2>2, AnswerPlaces DEF disconnect
  <2>3. ASSUME NEW ok \in BOOLEAN, publish(ok) PROVE Places'
    BY <2>3, AnswerPlaces DEF publish
  <2>4. ASSUME NEW o \in Outcomes \cup {"sysmem"}, deal_api_subscribe(o) PROVE Places'
    BY <2>4, AnswerPlaces DEF deal_api_subscribe
  <2>5. ASSUME NEW o \in Outcomes, deal_api_unsubscribe(o) PROVE Places'
    BY <2>5, AnswerPlaces DEF deal_api_unsubscribe
  <2> QED
    BY <1>8, <2>1, <2>2, <2>3, <2>4, <2>5 DEF other_commands
<1> QED
  BY <1>1, <1>2, <1>3, <1>4, <1>5, <1>6, <1>7, <1>8 DEF Next, daemon_entry

\* Counted, the places are what CommandAlive says.
LEMMA PlacesCount == Ctl /\ Places => CommandAlive
<1> SUFFICES ASSUME Ctl, Places, NEW a \in Apps
             PROVE  Cardinality({i \in DOMAIN queue : queue[i] = a})
                      + (IF cur = a THEN 1 ELSE 0)
                      + (IF reply[a] # None THEN 1 ELSE 0)
                        = IF cmd[a] = None THEN 0 ELSE 1
  BY DEF CommandAlive
<1> DEFINE at == {i \in DOMAIN queue : queue[i] = a}
<1>1. DOMAIN queue = 1 .. Len(queue)
  BY LenProperties DEF Ctl, Types
<1>2. CASE InQueue(a)
  <2>1. PICK i \in 1 .. Len(queue) : queue[i] = a
    BY <1>2 DEF InQueue
  <2>2. at = {i}
    BY <1>1, <2>1 DEF Places
  <2>3. Cardinality(at) = 1
    BY <2>2, FS_Singleton
  <2> QED
    BY <1>2, <2>3 DEF Places
<1>3. CASE ~InQueue(a)
  <2>1. at = {}
    BY <1>1, <1>3 DEF InQueue
  <2>2. Cardinality(at) = 0
    BY <2>1, FS_EmptySet
  <2> QED
    BY <1>3, <2>2 DEF Places
<1> QED
  BY <1>2, <1>3

-----------------------------------------------------------------------------
\* The session, the address of the hub and the report of an outage.
Flags ==
    /\ bs_enable \in BOOLEAN /\ log_dealer \in BOOLEAN /\ get_hubaddr \in BOOLEAN
    /\ reported \in BOOLEAN /\ hubserver \in BOOLEAN /\ up \in BOOLEAN

Session ==
    /\ server \in {"config", "hub", None} /\ handle \in {"config", "hub", None}
    /\ sessions = IF handle = None THEN 0 ELSE 1
    /\ up => handle # None
    /\ pc = "dmp_connect" => handle = None /\ server # None
    /\ pc = "dmp_connect" /\ bs_enable /\ status # "bs_getaddr" =>
          server = "hub" /\ hubserver
    /\ status = "idle" => handle = None /\ ~hubserver
    /\ status # "hub_keep" => subscribe_lst = << >>

Reports ==
    /\ told = IF reported THEN 1 ELSE 0
    /\ log_dealer /\ status = "hub_keep" /\ pc \in Busy => reported

\* Nothing of this is there at first.
LEMMA InitSession == Init => Flags /\ Session /\ Reports
  BY NoneIsNothing DEF Init, Flags, Session, Reports

\* Each step keeps it.
LEMMA NextSession ==
    Ctl /\ Session /\ Reports /\ [Next]_vars => Session' /\ Reports'
<1> SUFFICES ASSUME Ctl, Session, Reports, [Next]_vars
             PROVE  Session' /\ Reports'
  OBVIOUS
<1> DEFINE Goal == Session' /\ Reports'
<1> USE NoneIsNothing
    DEF Ctl, Types, Control, Busy, Pcs, Session, Reports, Running, Answer,
        LinkOk, daemon, config, link, ghost
<1>1. CASE UNCHANGED vars
  BY <1>1 DEF vars
<1>2. ASSUME NEW a \in Apps, NEW c \in Commands, daemon_cmd_post(a, c) PROVE Goal
  BY <1>2 DEF daemon_cmd_post
<1>3. ASSUME NEW a \in Apps, cmd_done(a) PROVE Goal
  BY <1>3 DEF cmd_done
<1>4. CASE link_lost
  BY <1>4 DEF link_lost
<1>5. ASSUME NEW copied \in BOOLEAN, bs_msg_default_deal(copied) PROVE Goal
  BY <1>5 DEF bs_msg_default_deal
<1>6. CASE queue_pop \/ pop_timeout
  BY <1>6 DEF queue_pop, pop_timeout
<1>7. CASE check_link
  <2>1. /\ UNCHANGED <<status, handle, up, sessions, bs_enable, log_dealer, hubserver,
                       subscribe_lst, server>>
        /\ pc' \in {"gernerate", "pop"}
        /\ (pc' = "gernerate" /\ log_dealer => reported')
    BY <1>7 DEF check_link, DueReport
  <2>2. CASE LinkDown /\ DueReport
    BY <1>7, <2>1, <2>2 DEF check_link, DueReport
  <2>3. CASE ~(LinkDown /\ DueReport)
    <3>1. told' = told /\ (reported' <=> reported)
      BY <1>7, <2>3 DEF check_link
    <3> QED
      BY <2>1, <3>1
  <2> QED
    BY <2>2, <2>3
<1>8. CASE connection
  <2>1. CASE connect_refused
    BY <2>1 DEF connect_refused
  <2>2. ASSUME NEW f \in {"ok", "parafmt", "sysmem"}, config_parameter_clone(f)
        PROVE  Goal
    <3>1. Session'
      BY <2>2 DEF config_parameter_clone
    <3>2. Reports'
      BY <2>2 DEF config_parameter_clone
    <3> QED
      BY <3>1, <3>2
  <2>3. ASSUME NEW mem \in BOOLEAN, oc_mqtt_para_gernerate(mem) PROVE Goal
    <3>1. Session'
      BY <2>3 DEF oc_mqtt_para_gernerate, Gernerated, ServerAddr
    <3>2. Reports'
      BY <2>3 DEF oc_mqtt_para_gernerate, Gernerated, ServerAddr
    <3> QED
      BY <3>1, <3>2
  <2>4. ASSUME NEW ok \in BOOLEAN, dmp_connect(ok) PROVE Goal
    <3>1. Session'
      BY <2>4 DEF dmp_connect
    <3>2. Reports'
      BY <2>4 DEF dmp_connect
    <3> QED
      BY <3>1, <3>2
  <2>5. ASSUME NEW ok \in BOOLEAN, bs_publish(ok) PROVE Goal
    <3>1. Session'
      BY <2>5 DEF bs_publish
    <3>2. Reports'
      BY <2>5 DEF bs_publish
    <3> QED
      BY <3>1, <3>2
  <2>6. ASSUME NEW o \in Outcomes, dmp_subscribe(o) PROVE Goal
    BY <2>6 DEF dmp_subscribe
  <2>7. CASE subscribed
    <3>1. Session'
      BY <2>7 DEF subscribed, Stepped, ReportCleared
    <3>2. Reports'
      BY <2>7 DEF subscribed, Stepped, ReportCleared
    <3> QED
      BY <3>1, <3>2
  <2>8. CASE bs_wait
    <3>1. Session'
      BY <2>8 DEF bs_wait
    <3>2. Reports'
      BY <2>8 DEF bs_wait
    <3> QED
      BY <3>1, <3>2
  <2>9. CASE exit_err
    <3>1. Session'
      BY <2>9 DEF exit_err, Stepped, oc_mqtt_para_release
    <3>2. Reports'
      BY <2>9 DEF exit_err, Stepped, oc_mqtt_para_release
    <3> QED
      BY <3>1, <3>2
  <2>10. CASE connect_end
    <3>1. Session'
      BY <2>10 DEF connect_end, oc_mqtt_para_release, config_parameter_release
    <3>2. Reports'
      BY <2>10 DEF connect_end, oc_mqtt_para_release, config_parameter_release
    <3> QED
      BY <3>1, <3>2
  <2> QED
    BY <1>8, <2>1, <2>2, <2>3, <2>4, <2>5, <2>6, <2>7, <2>8, <2>9, <2>10
       DEF connection
<1>9. CASE other_commands
  <2>1. CASE command_refused
    BY <2>1 DEF command_refused
  <2>2. CASE disconnect
    <3>1. Session'
      BY <2>2 DEF disconnect, oc_mqtt_para_release, config_parameter_release
    <3>2. Reports'
      BY <2>2 DEF disconnect, oc_mqtt_para_release, config_parameter_release
    <3> QED
      BY <3>1, <3>2
  <2>3. ASSUME NEW ok \in BOOLEAN, publish(ok) PROVE Goal
    BY <2>3 DEF publish
  <2>4. ASSUME NEW o \in Outcomes \cup {"sysmem"}, deal_api_subscribe(o) PROVE Goal
    BY <2>4 DEF deal_api_subscribe, Ready
  <2>5. ASSUME NEW o \in Outcomes, deal_api_unsubscribe(o) PROVE Goal
    BY <2>5 DEF deal_api_unsubscribe, Ready
  <2> QED
    BY <1>9, <2>1, <2>2, <2>3, <2>4, <2>5 DEF other_commands
<1> QED
  BY <1>1, <1>2, <1>3, <1>4, <1>5, <1>6, <1>7, <1>8, <1>9 DEF Next, daemon_entry

\* The kinds of commands have different names.
LEMMA CommandKinds ==
    ASSUME NEW c \in Commands
    PROVE  /\ c.op = "connect" => c.bs \in BOOLEAN /\ c.dealer \in BOOLEAN
           /\ c.op = "subscribe" => [topic |-> c.topic, qos |-> c.qos] \in Subs
<1>1. CASE c \in [op : {"connect"}, bs : Modes, dealer : Dealers]
  BY <1>1, Kinds
<1>2. CASE c \in [op : {"disconnect", "publish"}]
  <2>1. c.op \in {"disconnect", "publish"}
    BY <1>2
  <2> QED
    BY <2>1
<1>3. CASE c \in [op : {"subscribe"}, topic : UserTopics, qos : Qos]
  BY <1>3 DEF Subs
<1>4. CASE c \in [op : {"unsubscribe"}, topic : UserTopics]
  <2>1. c.op \in {"unsubscribe"}
    BY <1>4
  <2> QED
    BY <2>1
<1> QED
  BY <1>1, <1>2, <1>3, <1>4 DEF Commands

\* The flags are Boolean.
LEMMA NextFlags == Ctl /\ Places /\ Flags /\ [Next]_vars => Flags'
<1> SUFFICES ASSUME Ctl, Places, Flags, [Next]_vars PROVE Flags'
  OBVIOUS
<1> DEFINE Same == UNCHANGED <<bs_enable, log_dealer, get_hubaddr, reported, hubserver, up>>
<1>0. ASSUME Same PROVE Flags'
  BY <1>0 DEF Flags
<1> USE DEF config, link, ghost
<1>1. ASSUME \/ UNCHANGED vars
             \/ \E a \in Apps, c \in Commands : daemon_cmd_post(a, c)
             \/ \E a \in Apps : cmd_done(a)
             \/ queue_pop \/ pop_timeout \/ connect_refused \/ bs_wait \/ command_refused
             \/ \E ok \in BOOLEAN : bs_publish(ok) \/ publish(ok)
             \/ \E o \in Outcomes : dmp_subscribe(o) \/ deal_api_unsubscribe(o)
             \/ \E o \in Outcomes \cup {"sysmem"} : deal_api_subscribe(o)
      PROVE  Same
  BY <1>1 DEF vars, daemon_cmd_post, cmd_done, queue_pop, pop_timeout, connect_refused,
              bs_wait, command_refused, bs_publish, publish, dmp_subscribe,
              deal_api_unsubscribe, deal_api_subscribe
<1>2. CASE link_lost
  BY <1>2 DEF Flags, link_lost
<1>3. ASSUME NEW copied \in BOOLEAN, bs_msg_default_deal(copied) PROVE Flags'
  BY <1>3 DEF Flags, bs_msg_default_deal
<1>4. CASE check_link
  BY <1>4 DEF Flags, check_link
<1>5. ASSUME NEW f \in {"ok", "parafmt", "sysmem"}, config_parameter_clone(f)
      PROVE  Flags'
  <2>1. CASE f = "ok"
    <3>1. /\ cur \in Apps /\ cmd[cur] \in Commands /\ cmd[cur].op = "connect"
          /\ bs_enable' = cmd[cur].bs /\ log_dealer' = cmd[cur].dealer
          /\ get_hubaddr' = (get_hubaddr /\ ~cmd[cur].bs)
          /\ UNCHANGED <<reported, hubserver, up>>
      BY <1>5, <2>1, NoneIsNothing
         DEF config_parameter_clone, Running, Ctl, Types, Control, Places
    <3>2. cmd[cur].bs \in BOOLEAN /\ cmd[cur].dealer \in BOOLEAN
      BY <3>1, CommandKinds
    <3> QED
      BY <3>1, <3>2 DEF Flags
  <2>2. CASE f # "ok"
    BY <1>0, <1>5, <2>2 DEF config_parameter_clone
  <2> QED
    BY <2>1, <2>2
<1>6. ASSUME NEW b \in BOOLEAN, oc_mqtt_para_gernerate(b) \/ dmp_connect(b)
      PROVE  Flags'
  BY <1>6 DEF Flags, oc_mqtt_para_gernerate, dmp_connect
<1>7. CASE subscribed
  BY <1>7 DEF Flags, subscribed, ReportCleared
<1>8. CASE exit_err
  BY <1>8 DEF Flags, exit_err, oc_mqtt_para_release
<1>9. CASE connect_end \/ disconnect
  BY <1>9 DEF Flags, connect_end, disconnect, oc_mqtt_para_release,
              config_parameter_release
<1> QED
  BY <1>0, <1>1, <1>2, <1>3, <1>4, <1>5, <1>6, <1>7, <1>8, <1>9
     DEF Next, daemon_entry, connection, other_commands

-----------------------------------------------------------------------------
\* The topics. While dmp_subscribe runs, the topics of applications that are
\* still to come are the end of todo, in the order of subscribe_lst, and the
\* others are subscribed; or it ends with a failure.
TopicNames == UserTopics \cup Range(Builtin) \cup {DefaultTopic, BsTopic}
Wishes == [kind : {"default", "builtin", "user"}, topic : TopicNames, qos : Nat]

Ahead == Len(todo) - Len(subscribe_lst)

Renewing ==
    /\ \A i \in 1 .. Len(subscribe_lst) :
         IF Ahead + i >= 1 THEN todo[Ahead + i] = Topic("user", subscribe_lst[i].topic, 1)
         ELSE subscribe_lst[i].topic \in TopicsOf(subs)
    /\ \A k \in 1 .. Ahead : todo[k].kind \in {"default", "builtin"}

ToRenew ==
    /\ todo \in Seq(Wishes)
    /\ pc = "dmp_subscribe" /\ status = "bs_getaddr" => \A k \in 1 .. Len(todo) :
          todo[k].kind = "default"
    /\ pc = "dmp_subscribe" /\ status # "bs_getaddr" =>
          Renewing \/ (ret # "ok" /\ todo = << >>)

Topics ==
    /\ subscribe_lst \in Seq(Subs) /\ wanted \subseteq Subs
    /\ \A i, j \in 1 .. Len(subscribe_lst) :
          subscribe_lst[i].topic = subscribe_lst[j].topic => i = j
    /\ \A w \in wanted : Listed(w.topic)
    /\ status # "hub_keep" => wanted = {}
    /\ pc \in {"pop", "run", "check"} /\ handle # None =>
          \A w \in wanted : w.topic \in TopicsOf(subs)
    /\ ToRenew

\* There are none at first.
LEMMA InitTopics == Init => Topics
<1> SUFFICES ASSUME Init PROVE Topics
  OBVIOUS
<1>1. << >> \in Seq(Subs) /\ << >> \in Seq(Wishes) /\ Len(<< >>) = 0
  BY EmptySeq
<1>2. ToRenew
  BY <1>1 DEF Init, ToRenew
<1> QED
  BY <1>1, <1>2 DEF Init, Topics

\* A subscription adds its topic and removes no other.
LEMMA SubscribedTopics ==
    ASSUME NEW t, NEW q
    PROVE  TopicsOf(Subscribed(t, q)) = TopicsOf(subs) \cup {t}
<1>1. ASSUME NEW x, x \in TopicsOf(Subscribed(t, q))
      PROVE  x \in TopicsOf(subs) \cup {t}
  BY <1>1 DEF TopicsOf, Subscribed
<1>2. ASSUME NEW x \in TopicsOf(subs) \cup {t}
      PROVE  x \in TopicsOf(Subscribed(t, q))
  <2>1. CASE x = t
    <3>1. [topic |-> t, qos |-> q] \in Subscribed(t, q)
      BY DEF Subscribed
    <3>2. [topic |-> t, qos |-> q].topic = x
      BY <2>1
    <3> QED
      BY <3>1, <3>2 DEF TopicsOf
  <2>2. CASE x # t
    <3>1. PICK s \in subs : s.topic = x
      BY <1>2, <2>2 DEF TopicsOf
    <3>2. s \in Subscribed(t, q)
      BY <2>2, <3>1 DEF Subscribed
    <3> QED
      BY <3>1, <3>2 DEF TopicsOf
  <2> QED
    BY <2>1, <2>2
<1> QED
  BY <1>1, <1>2

\* What dmp_subscribe starts with.
LEMMA WishList ==
    ASSUME Topics, status # "bs_getaddr"
    PROVE  LET w == Subscriptions
               n == Len(subscribe_lst)
           IN  /\ w \in Seq(Wishes) /\ Len(w) = 1 + Len(Builtin) + n
               /\ \A k \in 1 .. 1 + Len(Builtin) : w[k].kind \in {"default", "builtin"}
               /\ \A i \in 1 .. n : w[1 + Len(Builtin) + i]
                                      = Topic("user", subscribe_lst[i].topic, 1)
<1> DEFINE n == Len(subscribe_lst)
           m == Len(Builtin)
           d == <<Topic("default", DefaultTopic, 1)>>
           b == [i \in DOMAIN Builtin |-> Topic("builtin", Builtin[i], 1)]
           u == [i \in DOMAIN subscribe_lst |-> Topic("user", subscribe_lst[i].topic, 1)]
<1>0. \A x, y \in Seq(Wishes) :
        /\ x \o y \in Seq(Wishes) /\ Len(x \o y) = Len(x) + Len(y)
        /\ \A i \in 1 .. Len(x) : (x \o y)[i] = x[i]
        /\ \A i \in 1 .. Len(y) : (x \o y)[Len(x) + i] = y[i]
  BY Concatenated
<1>1. /\ m \in Nat /\ DOMAIN Builtin = 1 .. m
      /\ \A i \in 1 .. m : Builtin[i] \in TopicNames
  BY Kinds, LenProperties, ElementOfSeq DEF TopicNames
<1>2. /\ n \in Nat /\ DOMAIN subscribe_lst = 1 .. n
      /\ \A i \in 1 .. n : subscribe_lst[i].topic \in TopicNames
  <2>1. subscribe_lst \in Seq(Subs)
    BY DEF Topics
  <2>2. \A i \in 1 .. n : subscribe_lst[i] \in Subs
    BY <2>1, ElementOfSeq
  <2> QED
    BY <2>1, <2>2, LenProperties DEF Subs, TopicNames
<1>3. d \in Seq(Wishes) /\ Len(d) = 1 /\ d[1].kind = "default"
  BY DEF Wishes, Topic, TopicNames
<1>4. /\ b \in Seq(Wishes) /\ Len(b) = m /\ \A i \in 1 .. m : b[i].kind = "builtin"
  <2>1. b \in [1 .. m -> Wishes]
    BY <1>1 DEF Wishes, Topic
  <2>2. \A i \in 1 .. m : b[i].kind = "builtin"
    BY <1>1 DEF Topic
  <2> HIDE DEF b
  <2> QED
    BY <1>1, <2>1, <2>2, FunctionIsList
<1>5. /\ u \in Seq(Wishes) /\ Len(u) = n
      /\ \A i \in 1 .. n : u[i] = Topic("user", subscribe_lst[i].topic, 1)
  <2>1. u \in [1 .. n -> Wishes]
    BY <1>2 DEF Wishes, Topic
  <2>2. \A i \in 1 .. n : u[i] = Topic("user", subscribe_lst[i].topic, 1)
    BY <1>2
  <2> HIDE DEF u
  <2> QED
    BY <1>2, <2>1, <2>2, FunctionIsList
<1>6. Subscriptions = (d \o b) \o u
  BY DEF Subscriptions
<1> DEFINE c == d \o b
           w == c \o u
<1> HIDE DEF d, b, u
<1>7. /\ c \in Seq(Wishes) /\ Len(c) = 1 + m
      /\ c[1] = d[1] /\ \A k \in 1 .. m : c[1 + k] = b[k]
  <2>1. d \in Seq(Wishes) /\ b \in Seq(Wishes) /\ Len(d) = 1 /\ Len(b) = m
    BY <1>3, <1>4
  <2>2. /\ d \o b \in Seq(Wishes) /\ Len(d \o b) = Len(d) + Len(b)
        /\ \A i \in 1 .. Len(d) : (d \o b)[i] = d[i]
        /\ \A i \in 1 .. Len(b) : (d \o b)[Len(d) + i] = b[i]
    BY <1>0, <2>1
  <2> QED
    BY <2>1, <2>2
<1> HIDE DEF c
<1>8. \A k \in 1 .. 1 + m : c[k].kind \in {"default", "builtin"}
  <2> TAKE k \in 1 .. 1 + m
  <2>1. CASE k = 1
    BY <1>3, <1>7, <2>1
  <2>2. CASE k # 1
    <3>1. k - 1 \in 1 .. m /\ 1 + (k - 1) = k
      BY <1>1, <2>2
    <3>2. c[1 + (k - 1)] = b[k - 1]
      BY <1>7, <3>1
    <3> QED
      BY <1>4, <3>1, <3>2
  <2> QED
    BY <2>1, <2>2
<1>9. /\ w \in Seq(Wishes) /\ Len(w) = 1 + m + n
      /\ \A k \in 1 .. 1 + m : w[k] = c[k]
      /\ \A i \in 1 .. n : w[1 + m + i] = u[i]
  <2>1. c \in Seq(Wishes) /\ u \in Seq(Wishes) /\ Len(c) = 1 + m /\ Len(u) = n
    BY <1>5, <1>7
  <2>2. /\ c \o u \in Seq(Wishes) /\ Len(c \o u) = Len(c) + Len(u)
        /\ \A k \in 1 .. Len(c) : (c \o u)[k] = c[k]
        /\ \A i \in 1 .. Len(u) : (c \o u)[Len(c) + i] = u[i]
    BY <1>0, <2>1
  <2> QED
    BY <2>1, <2>2
<1>10. Subscriptions = w
  BY <1>6 DEF c
<1> HIDE DEF w
<1> QED
  BY <1>5, <1>8, <1>9, <1>10

\* The rest of a list.
LEMMA Rest ==
    ASSUME NEW S, NEW s \in Seq(S), s # << >>
    PROVE  /\ Tail(s) \in Seq(S) /\ Len(s) \in Nat /\ Len(s) >= 1
           /\ Len(Tail(s)) = Len(s) - 1 /\ Head(s) = s[1]
           /\ \A k \in 1 .. Len(s) - 1 : Tail(s)[k] = s[k + 1]
<1>1. Len(s) \in Nat /\ Len(s) # 0
  BY LenProperties, EmptySeq
<1> QED
  BY <1>1, HeadTailProperties

\* A connection starts to renew.
LEMMA RenewStart ==
    ASSUME Ctl, Topics, NEW ok \in BOOLEAN, dmp_connect(ok)
    PROVE  Topics'
<1>1. /\ UNCHANGED <<subscribe_lst, wanted, subs, status>>
      /\ pc' = IF ok THEN "dmp_subscribe" ELSE "exit_err"
      /\ todo' = IF ok THEN Subscriptions ELSE todo
  BY DEF dmp_connect, daemon, link, ghost
<1>2. CASE ~ok
  BY <1>1, <1>2 DEF Topics, ToRenew, Listed
<1>3. CASE ok /\ status = "bs_getaddr"
  <2>1. /\ Subscriptions \in Seq(Wishes) /\ Len(Subscriptions) = 1
        /\ Subscriptions[1].kind = "default"
    BY <1>3 DEF Subscriptions, Wishes, Topic, TopicNames
  <2>2. todo' = Subscriptions /\ status' = "bs_getaddr"
    BY <1>1, <1>3
  <2> DEFINE w == Subscriptions
  <2> HIDE DEF w
  <2>3. w \in Seq(Wishes) /\ \A k \in 1 .. Len(w) : w[k].kind = "default"
    BY <2>1 DEF w
  <2>4. todo' = w
    BY <2>2 DEF w
  <2>5. ToRenew'
    BY <2>2, <2>3, <2>4 DEF ToRenew
  <2> QED
    BY <1>1, <1>3, <2>5 DEF Topics, Listed
<1>4. CASE ok /\ status # "bs_getaddr"
  <2> DEFINE w == Subscriptions
             n == Len(subscribe_lst)
             m == Len(Builtin)
  <2>1. /\ w \in Seq(Wishes) /\ Len(w) = 1 + m + n
        /\ \A k \in 1 .. 1 + m : w[k].kind \in {"default", "builtin"}
        /\ \A i \in 1 .. n : w[1 + m + i] = Topic("user", subscribe_lst[i].topic, 1)
    BY <1>4, WishList
  <2>2. m \in Nat /\ n \in Nat
    BY Kinds, LenProperties DEF Topics
  <2>3. todo' = w /\ pc' = "dmp_subscribe" /\ Len(subscribe_lst)' = n
    BY <1>1, <1>4
  <2> HIDE DEF w, n, m
  <2>4. Ahead' = 1 + m
    BY <2>1, <2>2, <2>3 DEF Ahead
  <2>5. Renewing'
    BY <1>1, <2>1, <2>2, <2>3, <2>4 DEF Renewing, n
  <2>6. ToRenew'
    BY <1>1, <1>4, <2>1, <2>3, <2>5 DEF ToRenew
  <2> QED
    BY <1>1, <1>4, <2>6 DEF Topics, Listed
<1> QED
  BY <1>2, <1>3, <1>4

\* Each subscription renews one more, and none that failed is passed over.
LEMMA RenewStep ==
    ASSUME Ctl, Topics, NEW o \in Outcomes, dmp_subscribe(o)
    PROVE  Topics'
<1> DEFINE n == Len(subscribe_lst)
           rest == Tail(todo)
<1>1. /\ UNCHANGED <<subscribe_lst, wanted, status, pc>>
      /\ pc = "dmp_subscribe" /\ todo # << >>
      /\ subs' = IF o = "failed" THEN subs
                 ELSE Subscribed(Head(todo).topic, Head(todo).qos)
      /\ ret' = IF o = "ok" THEN "ok" ELSE "subscribe"
      /\ todo' = IF o = "ok" THEN rest ELSE AfterFailure(rest, Head(todo).kind)
  BY DEF dmp_subscribe, ghost
<1>2. /\ todo \in Seq(Wishes) /\ subscribe_lst \in Seq(Subs) /\ n \in Nat
      /\ (status = "bs_getaddr" => \A k \in 1 .. Len(todo) : todo[k].kind = "default")
      /\ (status # "bs_getaddr" => Renewing)
  BY <1>1, LenProperties DEF Topics, ToRenew
<1>3. /\ rest \in Seq(Wishes) /\ Len(todo) \in Nat /\ Len(todo) >= 1
      /\ Len(rest) = Len(todo) - 1 /\ Head(todo) = todo[1]
      /\ \A k \in 1 .. Len(todo) - 1 : rest[k] = todo[k + 1]
  BY <1>1, <1>2, Rest
<1>4. TopicsOf(subs) \subseteq TopicsOf(subs')
      /\ (o = "ok" => todo[1].topic \in TopicsOf(subs'))
  BY <1>1, <1>3, SubscribedTopics
<1>5. Ahead = Len(todo) - n /\ Ahead' = Len(todo') - n /\ Ahead \in Int
  BY <1>1, <1>2, <1>3 DEF Ahead
<1> HIDE DEF n, rest
<1>6. SUFFICES ToRenew'
  BY <1>1 DEF Topics, Listed
<1>7. CASE status = "bs_getaddr"
  <2>1. todo' = rest
    BY <1>1, <1>2, <1>3, <1>7 DEF AfterFailure
  <2>2. \A k \in 1 .. Len(rest) : rest[k].kind = "default"
    BY <1>2, <1>3, <1>7
  <2> QED
    BY <1>1, <1>3, <1>7, <2>1, <2>2 DEF ToRenew
<1>8. CASE status # "bs_getaddr" /\ (o = "ok" \/ todo[1].kind = "default")
  <2>0. todo' = rest
    BY <1>1, <1>3, <1>8 DEF AfterFailure
  <2>1. /\ Ahead' = Ahead - 1 /\ Ahead \in Int /\ n \in Nat
        /\ Len(todo) \in Nat /\ Ahead = Len(todo) - n
    BY <1>2, <1>3, <1>5, <2>0
  <2>2. ASSUME NEW i \in 1 .. n
        PROVE  IF Ahead' + i >= 1
               THEN rest[Ahead' + i] = Topic("user", subscribe_lst[i].topic, 1)
               ELSE subscribe_lst[i].topic \in TopicsOf(subs')
    <3>1. IF Ahead + i >= 1 THEN todo[Ahead + i] = Topic("user", subscribe_lst[i].topic, 1)
          ELSE subscribe_lst[i].topic \in TopicsOf(subs)
      BY <1>2, <1>8 DEF Renewing, n
    <3>2. CASE Ahead + i >= 2
      <4>1. /\ Ahead' + i >= 1 /\ Ahead' + i \in 1 .. Len(todo) - 1
            /\ Ahead' + i + 1 = Ahead + i
        BY <2>1, <3>2
      <4> QED
        BY <1>3, <3>1, <4>1
    <3>3. CASE Ahead + i = 1
      <4>1. todo[1] = Topic("user", subscribe_lst[i].topic, 1)
        BY <3>1, <3>3
      <4>2. o = "ok" /\ todo[1].topic = subscribe_lst[i].topic
        BY <1>8, <4>1 DEF Topic
      <4> QED
        BY <1>4, <1>5, <2>1, <3>3, <4>2
    <3>4. CASE Ahead + i <= 0
      BY <1>4, <1>5, <2>1, <3>1, <3>4
    <3> QED
      BY <1>2, <1>5, <3>2, <3>3, <3>4
  <2>3. ASSUME NEW k \in 1 .. Ahead' PROVE rest[k].kind \in {"default", "builtin"}
    <3>1. k + 1 \in 1 .. Ahead /\ k \in 1 .. Len(todo) - 1
      BY <1>2, <1>3, <1>5, <2>1
    <3> QED
      BY <1>2, <1>3, <1>8, <3>1 DEF Renewing
  <2>4. Renewing'
    BY <1>1, <2>0, <2>2, <2>3 DEF Renewing, n
  <2> QED
    BY <1>1, <1>3, <1>8, <2>0, <2>4 DEF ToRenew
<1>9. CASE status # "bs_getaddr" /\ o # "ok" /\ todo[1].kind = "builtin"
  <2>1. Ahead >= 1
    <3>1. SUFFICES ASSUME Ahead <= 0 PROVE FALSE
      BY <1>5
    <3>2. 1 - Ahead \in 1 .. n /\ Ahead + (1 - Ahead) = 1
      BY <1>2, <1>3, <1>5, <3>1
    <3>3. todo[1] = Topic("user", subscribe_lst[1 - Ahead].topic, 1)
      BY <1>2, <1>9, <3>2 DEF Renewing, n
    <3> QED
      BY <1>9, <3>3 DEF Topic
  <2>2. todo' = SubSeq(rest, Len(rest) - n + 1, Len(rest)) /\ n <= Len(rest)
    BY <1>1, <1>2, <1>3, <1>5, <1>9, <2>1 DEF AfterFailure, n
  <2>3. /\ todo' \in Seq(Wishes) /\ Len(todo') = n
        /\ \A i \in 1 .. n : todo'[i] = rest[Len(rest) - n + i]
    BY <1>2, <1>3, <2>2, Ending
  <2>4. Ahead' = 0
    BY <1>2, <1>5, <2>3
  <2>5. ASSUME NEW i \in 1 .. n
        PROVE  todo'[i] = Topic("user", subscribe_lst[i].topic, 1)
    <3>1. /\ Len(rest) - n + i \in 1 .. Len(todo) - 1 /\ Ahead + i >= 1
          /\ Len(rest) - n + i + 1 = Ahead + i
      BY <1>2, <1>3, <1>5, <2>1
    <3>2. rest[Len(rest) - n + i] = todo[Ahead + i]
      BY <1>3, <3>1
    <3> QED
      BY <1>2, <1>9, <2>3, <3>1, <3>2 DEF Renewing, n
  <2>6. Renewing'
    BY <1>1, <2>4, <2>5 DEF Renewing, n
  <2> QED
    BY <1>1, <1>9, <2>3, <2>6 DEF ToRenew
<1>10. CASE /\ status # "bs_getaddr" /\ o # "ok"
            /\ todo[1].kind # "default" /\ todo[1].kind # "builtin"
  <2>1. todo' = << >> /\ ret' = "subscribe" /\ << >> \in Seq(Wishes)
    BY <1>1, <1>3, <1>10, EmptySeq DEF AfterFailure
  <2> QED
    BY <1>1, <1>10, <2>1 DEF ToRenew
<1> QED
  BY <1>7, <1>8, <1>9, <1>10

\* Between the connections the lists stay as they are.
LEMMA TopicsKept ==
    ASSUME Topics, UNCHANGED <<subscribe_lst, wanted, todo>>,
           status' # "hub_keep" => wanted = {},
           pc' \in {"pop", "run", "check"} /\ handle' # None =>
              \A w \in wanted : w.topic \in TopicsOf(subs'),
           pc' # "dmp_subscribe"
    PROVE  Topics'
  BY DEF Topics, ToRenew, Listed

\* All topics are renewed when the last subscription was successful.
LEMMA AllRenewed ==
    ASSUME Topics, pc = "dmp_subscribe", todo = << >>, ret = "ok",
           status # "bs_getaddr"
    PROVE  \A w \in wanted : w.topic \in TopicsOf(subs)
<1>1. Renewing /\ subscribe_lst \in Seq(Subs) /\ \A w \in wanted : Listed(w.topic)
  BY DEF Topics, ToRenew
<1>2. /\ Len(subscribe_lst) \in Nat /\ DOMAIN subscribe_lst = 1 .. Len(subscribe_lst)
      /\ Len(todo) = 0
  BY <1>1, LenProperties, EmptySeq
<1>3. ASSUME NEW i \in 1 .. Len(subscribe_lst)
      PROVE  subscribe_lst[i].topic \in TopicsOf(subs)
  <2>1. ~(Ahead + i >= 1)
    BY <1>2 DEF Ahead
  <2> QED
    BY <1>1, <2>1 DEF Renewing
<1> QED
  BY <1>1, <1>2, <1>3 DEF Listed

\* A topic that is subscribed goes to the front of the list.
LEMMA SubscribeTopics ==
    ASSUME Ctl, Places, Topics,
           NEW o \in Outcomes \cup {"sysmem"}, deal_api_subscribe(o)
    PROVE  Topics'
<1> DEFINE t == cmd[cur].topic
           q == cmd[cur].qos
           e == [topic |-> t, qos |-> q]
           sent == ~Listed(t) /\ o # "sysmem"
<1>1. /\ status = "hub_keep" /\ pc' = "check"
      /\ UNCHANGED <<status, handle, todo>>
      /\ subs' = IF sent /\ o # "failed" THEN Subscribed(t, q) ELSE subs
      /\ IF sent /\ o = "ok"
         THEN subscribe_lst' = <<e>> \o subscribe_lst /\ wanted' = wanted \cup {e}
         ELSE UNCHANGED <<subscribe_lst, wanted>>
  BY DEF deal_api_subscribe, Answer, Ready
<1>2. /\ pc = "run" /\ cur \in Apps /\ cmd[cur] \in Commands
      /\ cmd[cur].op = "subscribe"
  BY NoneIsNothing DEF deal_api_subscribe, Running, Ctl, Types, Control, Places
<1>3. e \in Subs
  BY <1>2, CommandKinds
<1>4. TopicsOf(subs') = IF sent /\ o # "failed" THEN TopicsOf(subs) \cup {t}
                        ELSE TopicsOf(subs)
  BY <1>1, SubscribedTopics
<1>5. CASE ~(sent /\ o = "ok")
  BY <1>1, <1>2, <1>4, <1>5, TopicsKept DEF Topics
<1>6. CASE sent /\ o = "ok"
  <2> DEFINE n == Len(subscribe_lst)
             l == <<e>> \o subscribe_lst
  <2>1. /\ subscribe_lst \in Seq(Subs) /\ n \in Nat /\ DOMAIN subscribe_lst = 1 .. n
        /\ <<e>> \in Seq(Subs) /\ Len(<<e>>) = 1
    BY <1>3, LenProperties DEF Topics
  <2>2. /\ l \in Seq(Subs) /\ Len(l) = 1 + n /\ l[1] = e
        /\ \A i \in 1 .. n : l[1 + i] = subscribe_lst[i]
    BY <2>1, Concatenated
  <2>3. subscribe_lst' = l /\ e.topic = t
    BY <1>1, <1>6
  <2> HIDE DEF l, n, e
  <2>4. \A i \in 1 .. n : subscribe_lst[i].topic # t
    BY <1>6, <2>1 DEF Listed
  <2>5. ASSUME NEW k \in 1 .. 1 + n
        PROVE  \/ k = 1 /\ l[k].topic = t
               \/ /\ k - 1 \in 1 .. n /\ l[k] = subscribe_lst[k - 1]
                  /\ l[k].topic # t
    <3>1. CASE k = 1
      BY <2>2, <2>3, <3>1
    <3>2. CASE k # 1
      <4>1. k - 1 \in 1 .. n /\ 1 + (k - 1) = k
        BY <2>1, <3>2
      <4>2. l[1 + (k - 1)] = subscribe_lst[k - 1]
        BY <2>2, <4>1
      <4> QED
        BY <2>4, <4>1, <4>2
    <3> QED
      BY <3>1, <3>2
  <2>6. ASSUME NEW i \in 1 .. 1 + n, NEW j \in 1 .. 1 + n, l[i].topic = l[j].topic
        PROVE  i = j
    <3>1. CASE i = 1 \/ j = 1
      BY <2>5, <2>6, <3>1
    <3>2. CASE i # 1 /\ j # 1
      <4>1. /\ i - 1 \in 1 .. n /\ j - 1 \in 1 .. n
            /\ subscribe_lst[i - 1].topic = subscribe_lst[j - 1].topic
        BY <2>5, <2>6, <3>2
      <4>2. i - 1 = j - 1
        BY <4>1 DEF Topics, n
      <4> QED
        BY <4>2
    <3> QED
      BY <3>1, <3>2
  <2>7. DOMAIN l = 1 .. 1 + n
    BY <2>2, LenProperties
  <2>8. ASSUME NEW w \in wanted' PROVE Listed(w.topic)'
    <3>1. CASE w = e
      <4>1. 1 \in DOMAIN l /\ l[1].topic = w.topic
        BY <2>1, <2>2, <2>7, <3>1
      <4> QED
        BY <2>3, <4>1 DEF Listed
    <3>2. CASE w # e
      <4>1. PICK i \in DOMAIN subscribe_lst : subscribe_lst[i].topic = w.topic
        BY <1>1, <1>6, <2>8, <3>2 DEF Topics, Listed
      <4>2. 1 + i \in DOMAIN l /\ l[1 + i].topic = w.topic
        BY <2>1, <2>2, <2>7, <4>1
      <4> QED
        BY <2>3, <4>2 DEF Listed
    <3> QED
      BY <3>1, <3>2
  <2>9. wanted' \subseteq Subs
    BY <1>1, <1>3, <1>6 DEF Topics
  <2>10. ASSUME NEW w \in wanted', handle' # None PROVE w.topic \in TopicsOf(subs')
    BY <1>1, <1>2, <1>4, <1>6, <2>3, <2>10 DEF Topics
  <2>11. ToRenew'
    BY <1>1 DEF ToRenew, Topics
  <2> QED
    BY <1>1, <2>2, <2>3, <2>6, <2>8, <2>9, <2>10, <2>11 DEF Topics
<1> QED
  BY <1>5, <1>6

\* A topic that is unsubscribed leaves the list, and it alone.
LEMMA UnsubscribeTopics ==
    ASSUME Ctl, Topics, NEW o \in Outcomes, deal_api_unsubscribe(o)
    PROVE  Topics'
<1> DEFINE t == cmd[cur].topic
<1>1. /\ status = "hub_keep" /\ pc = "run" /\ pc' = "check"
      /\ UNCHANGED <<status, handle, todo>>
      /\ subs' = IF o = "failed" THEN subs ELSE {s \in subs : s.topic # t}
      /\ subscribe_lst' = IF o = "ok" THEN Unlisted(t) ELSE subscribe_lst
      /\ wanted' = {w \in wanted : w.topic # t}
  BY DEF deal_api_unsubscribe, Answer, Ready, Running
<1> HIDE DEF t
<1>2. ASSUME NEW w \in wanted', handle' # None PROVE w.topic \in TopicsOf(subs')
  <2>1. w.topic \in TopicsOf(subs) /\ w.topic # t
    BY <1>1, <1>2 DEF Topics
  <2>2. PICK s \in subs : s.topic = w.topic
    BY <2>1 DEF TopicsOf
  <2>3. s \in subs'
    BY <1>1, <2>1, <2>2
  <2> QED
    BY <2>2, <2>3 DEF TopicsOf
<1>3. ToRenew' /\ wanted' \subseteq Subs
  BY <1>1 DEF ToRenew, Topics
<1>4. CASE ~(o = "ok" /\ Listed(t))
  <2>1. UNCHANGED subscribe_lst
    BY <1>1, <1>4 DEF Unlisted
  <2> QED
    BY <1>1, <1>2, <1>3, <2>1 DEF Topics, Listed
<1>5. CASE o = "ok" /\ Listed(t)
  <2> DEFINE l == subscribe_lst
             k == Place(t)
             r == RemoveAt(l, k)
  <2>1. /\ l \in Seq(Subs) /\ DOMAIN l = 1 .. Len(l)
        /\ \A i, j \in 1 .. Len(l) : l[i].topic = l[j].topic => i = j
    BY LenProperties DEF Topics
  <2>2. k \in 1 .. Len(l) /\ l[k].topic = t
    BY <1>5, <2>1 DEF Place, Listed
  <2>3. subscribe_lst' = r
    BY <1>1, <1>5 DEF Unlisted
  <2>4. \A i, j \in 1 .. Len(l) : l[i] = l[j] => i = j
    BY <2>1
  <2> HIDE DEF k
  <2>5. /\ r \in Seq(Subs)
        /\ \A i, j \in 1 .. Len(r) : r[i] = r[j] => i = j
        /\ \A x : (\E i \in 1 .. Len(r) : r[i] = x)
                    <=> (\E i \in 1 .. Len(l) : l[i] = x) /\ x # l[k]
    BY <2>1, <2>2, <2>4, Removed
  <2>6. DOMAIN r = 1 .. Len(r)
    BY <2>5, LenProperties
  <2> HIDE DEF r
  <2>7. ASSUME NEW i \in 1 .. Len(r), NEW j \in 1 .. Len(r), r[i].topic = r[j].topic
        PROVE  i = j
    <3>1. PICK m \in 1 .. Len(l) : l[m] = r[i]
      BY <2>5
    <3>2. PICK n \in 1 .. Len(l) : l[n] = r[j]
      BY <2>5
    <3>3. m = n
      BY <2>1, <2>7, <3>1, <3>2
    <3> QED
      BY <2>5, <3>1, <3>2, <3>3
  <2>8. ASSUME NEW w \in wanted' PROVE Listed(w.topic)'
    <3>1. w.topic # t /\ Listed(w.topic)
      BY <1>1 DEF Topics
    <3>2. PICK i \in 1 .. Len(l) : l[i].topic = w.topic
      BY <2>1, <3>1 DEF Listed
    <3>3. l[i] # l[k]
      BY <2>2, <3>1, <3>2
    <3>4. PICK j \in 1 .. Len(r) : r[j] = l[i]
      BY <2>5, <3>3
    <3> QED
      BY <2>3, <2>6, <3>2, <3>4 DEF Listed
  <2> QED
    BY <1>1, <1>2, <1>3, <2>3, <2>5, <2>7, <2>8 DEF Topics
<1> QED
  BY <1>4, <1>5

\* Each step keeps the topics.
LEMMA NextTopics == Ctl /\ Places /\ Topics /\ [Next]_vars => Topics'
<1> SUFFICES ASSUME Ctl, Places, Topics, [Next]_vars PROVE Topics'
  OBVIOUS
<1> USE DEF daemon, link, ghost, config
<1>0. ASSUME UNCHANGED <<subscribe_lst, wanted, status, handle, subs, pc, ret, todo>>
      PROVE  Topics'
  BY <1>0 DEF Topics, ToRenew, Renewing, Ahead, Listed
<1>1. CASE UNCHANGED vars
  BY <1>0, <1>1 DEF vars
<1>2. ASSUME \/ \E a \in Apps, c \in Commands : daemon_cmd_post(a, c)
             \/ \E a \in Apps : cmd_done(a)
             \/ link_lost
             \/ \E copied \in BOOLEAN : bs_msg_default_deal(copied)
      PROVE  Topics'
  BY <1>0, <1>2 DEF daemon_cmd_post, cmd_done, link_lost, bs_msg_default_deal
<1>3. CASE queue_pop \/ pop_timeout \/ check_link
  <2>1. /\ UNCHANGED <<subscribe_lst, wanted, todo, status, handle, subs>>
        /\ pc \in {"pop", "run", "check"} /\ pc' \in {"run", "check", "pop", "gernerate"}
    BY <1>3 DEF queue_pop, pop_timeout, check_link
  <2> QED
    BY <2>1, TopicsKept DEF Topics
<1>4. CASE connection
  <2>1. CASE connect_refused
    <3>1. /\ UNCHANGED <<subscribe_lst, wanted, todo, status, handle, subs>>
          /\ pc = "run" /\ pc' = "check"
      BY <2>1 DEF connect_refused, Running, Answer
    <3> QED
      BY <3>1, TopicsKept DEF Topics
  <2>2. ASSUME NEW f \in {"ok", "parafmt", "sysmem"}, config_parameter_clone(f)
        PROVE  Topics'
    <3>1. /\ UNCHANGED <<subscribe_lst, wanted, todo>> /\ status = "idle"
          /\ pc' \in {"connect_end", "gernerate"}
      BY <2>2 DEF config_parameter_clone
    <3> QED
      BY <3>1, TopicsKept DEF Topics
  <2>3. ASSUME NEW mem \in BOOLEAN, oc_mqtt_para_gernerate(mem) PROVE Topics'
    <3>1. /\ UNCHANGED <<subscribe_lst, wanted, todo, status>>
          /\ pc' \in {"dmp_connect", "exit_err"}
      BY <2>3 DEF oc_mqtt_para_gernerate
    <3> QED
      BY <3>1, TopicsKept DEF Topics
  <2>4. ASSUME NEW ok \in BOOLEAN, dmp_connect(ok) PROVE Topics'
    BY <2>4, RenewStart
  <2>5. ASSUME bs_wait \/ \E ok \in BOOLEAN : bs_publish(ok)
        PROVE  Topics'
    <3>1. /\ UNCHANGED <<subscribe_lst, wanted, todo, status>>
          /\ pc' \in {"bs_wait", "exit_err"}
      BY <2>5 DEF bs_wait, bs_publish
    <3> QED
      BY <3>1, TopicsKept DEF Topics
  <2>6. ASSUME NEW o \in Outcomes, dmp_subscribe(o) PROVE Topics'
    BY <2>6, RenewStep
  <2>7. CASE subscribed
    <3>1. /\ pc = "dmp_subscribe" /\ todo = << >>
          /\ UNCHANGED <<subscribe_lst, wanted, todo, status, handle, subs>>
          /\ pc' # "dmp_subscribe"
          /\ pc' \in {"pop", "run", "check"} => ret = "ok" /\ status # "bs_getaddr"
      BY <2>7 DEF subscribed, Stepped
    <3> QED
      BY <3>1, TopicsKept, AllRenewed DEF Topics
  <2>8. CASE exit_err
    <3>1. /\ UNCHANGED <<subscribe_lst, wanted, todo>> /\ handle' = None
          /\ pc' # "dmp_subscribe" /\ (status' # "hub_keep" => status # "hub_keep")
      BY <2>8 DEF exit_err, Stepped, oc_mqtt_para_release
    <3> QED
      BY <3>1, TopicsKept DEF Topics
  <2>9. CASE connect_end
    <3>1. pc' = "check" /\ UNCHANGED todo /\ status # "hub_keep"
      BY <2>9 DEF connect_end, Answer, Ctl, Control
    <3>2. CASE ret = "ok"
      BY <2>9, <3>1, <3>2, TopicsKept DEF connect_end, Topics
    <3>3. CASE ret # "ok"
      <4>1. subscribe_lst' = << >> /\ wanted' = {}
        BY <2>9, <3>3 DEF connect_end, config_parameter_release
      <4>2. << >> \in Seq(Subs) /\ Len(<< >>) = 0
        BY EmptySeq
      <4>3. ToRenew'
        BY <3>1 DEF Topics, ToRenew
      <4> QED
        BY <4>1, <4>2, <4>3 DEF Topics
    <3> QED
      BY <3>2, <3>3
  <2> QED
    BY <1>4, <2>1, <2>2, <2>3, <2>4, <2>5, <2>6, <2>7, <2>8, <2>9 DEF connection
<1>5. CASE other_commands
  <2>1. ASSUME command_refused \/ \E ok \in BOOLEAN : publish(ok)
        PROVE  Topics'
    <3>1. /\ UNCHANGED <<subscribe_lst, wanted, todo, status, handle, subs>>
          /\ pc = "run" /\ pc' = "check"
      BY <2>1 DEF command_refused, publish, Running, Answer
    <3> QED
      BY <3>1, TopicsKept DEF Topics
  <2>2. CASE disconnect
    <3>1. pc = "run" /\ pc' = "check" /\ UNCHANGED todo
      BY <2>2 DEF disconnect, Running, Answer
    <3>2. CASE status = "idle"
      <4>1. UNCHANGED <<subscribe_lst, wanted, status, handle, subs>>
        BY <2>2, <3>2 DEF disconnect
      <4> QED
        BY <3>1, <4>1, TopicsKept DEF Topics
    <3>3. CASE status # "idle"
      <4>1. subscribe_lst' = << >> /\ wanted' = {}
        BY <2>2, <3>3 DEF disconnect, config_parameter_release
      <4>2. << >> \in Seq(Subs) /\ Len(<< >>) = 0
        BY EmptySeq
      <4>3. ToRenew'
        BY <3>1 DEF Topics, ToRenew
      <4> QED
        BY <4>1, <4>2, <4>3 DEF Topics
    <3> QED
      BY <3>2, <3>3
  <2>3. ASSUME NEW o \in Outcomes \cup {"sysmem"}, deal_api_subscribe(o) PROVE Topics'
    BY <2>3, SubscribeTopics
  <2>4. ASSUME NEW o \in Outcomes, deal_api_unsubscribe(o) PROVE Topics'
    BY <2>4, UnsubscribeTopics
  <2> QED
    BY <1>5, <2>1, <2>2, <2>3, <2>4 DEF other_commands
<1> QED
  BY <1>1, <1>2, <1>3, <1>4, <1>5 DEF Next, daemon_entry

-----------------------------------------------------------------------------
\* The inductive invariant.
AgentInv == Ctl /\ Places /\ Flags /\ Session /\ Reports /\ Topics

\* It holds at first, and each step keeps it.
THEOREM AgentInvariant == Spec => []AgentInv
<1>1. Init => AgentInv
  BY InitCtl, InitPlaces, InitSession, InitTopics DEF AgentInv
<1>2. AgentInv /\ [Next]_vars => AgentInv'
  BY NextCtl, NextPlaces, NextFlags, NextSession, NextTopics DEF AgentInv
<1> QED
  BY <1>1, <1>2, PTL DEF Spec

\* The variables have their types, and no topic is listed twice.
LEMMA AgentTypes == AgentInv => TypeOK
<1> SUFFICES ASSUME AgentInv PROVE TypeOK
  OBVIOUS
<1>1. IsInjective([i \in DOMAIN subscribe_lst |-> subscribe_lst[i].topic])
  <2>1. DOMAIN subscribe_lst = 1 .. Len(subscribe_lst)
    BY LenProperties DEF AgentInv, Topics
  <2> QED
    BY <2>1 DEF IsInjective, AgentInv, Topics
<1>2. sessions \in Nat /\ told \in Nat
  BY DEF AgentInv, Session, Reports
<1> QED
  BY <1>1, <1>2 DEF TypeOK, AgentInv, Ctl, Types, Flags, Session, Topics

\* The daemon never executes or answers a command whose task is gone, and
\* a command is in one place: for any number of tasks and any queue length.
THEOREM CommandsStayAlive == Spec => []CommandAlive
<1>1. AgentInv => CommandAlive
  BY PlacesCount DEF AgentInv
<1> QED
  BY <1>1, AgentInvariant, PTL

\* The agent never loses a session of the client, and an agent that is idle
\* has none, no address and no topics, whatever failed before.
THEOREM AgentLeavesNothing == Spec => []NothingLeftBehind
<1>1. AgentInv => NothingLeftBehind
  BY AgentTypes DEF AgentInv, Session, NothingLeftBehind
<1> QED
  BY <1>1, AgentInvariant, PTL

\* dmp_connect always has an address, the hub's after a bootstrap.
THEOREM AddressAlwaysKnown == Spec => []AddressKnown
<1>1. AgentInv => AddressKnown
  BY DEF AgentInv, Session, AddressKnown
<1> QED
  BY <1>1, AgentInvariant, PTL

\* Through any number of outages and half-finished reconnects a topic stays
\* subscribed until somebody asks to unsubscribe it.
THEOREM TopicsStaySubscribed == Spec => []TopicStaysSubscribed
<1>1. AgentInv => TopicStaysSubscribed
  <2> SUFFICES ASSUME AgentInv, pc = "pop", LinkOk, NEW x \in TopicsOf(wanted)
               PROVE  x \in TopicsOf(subs)
    BY DEF TopicStaysSubscribed
  <2>1. PICK w \in wanted : w.topic = x
    BY DEF TopicsOf
  <2>2. w.topic \in TopicsOf(subs)
    BY DEF AgentInv, Topics, LinkOk
  <2> QED
    BY <2>1, <2>2
<1> QED
  BY <1>1, AgentInvariant, PTL

\* An outage is reported to the application once, before the reconnect.
THEOREM OutagesReportedOnce == Spec => []OutageReportedOnce
<1>1. AgentInv => OutageReportedOnce
  BY DEF AgentInv, Reports, OutageReportedOnce, Busy
<1> QED
  BY <1>1, AgentInvariant, PTL
=============================================================================
