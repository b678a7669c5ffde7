----------------------------- MODULE OcMqttTiny -----------------------------
(***************************************************************************)
(* The Huawei OceanConnect MQTT agent of oc/oc_mqtt/oc_mqtt_tiny_v5.       *)
(* Application tasks post commands to a bounded queue and sleep until the  *)
(* daemon task has executed them.  The daemon configures the agent         *)
(* (optionally asking a bootstrap server for the hub's address), keeps the *)
(* session with the hub, and after each command, or 10 s without one,      *)
(* looks at the link and reconnects.                                       *)
(*                                                                         *)
(* The daemon is split at the calls of mqtt_al, which wait for the         *)
(* network: the link may go down, the bootstrap server may answer and      *)
(* other tasks may post between any two of them.  A command of a task is   *)
(* named after the task, which has one at a time.  The queue is the        *)
(* abstract one of BoundedFifo.  Identities, passwords and formatting are  *)
(* left out; the current time is taken to be a date gmtime can represent.  *)
(*                                                                         *)
(* Definitions named M_... are deliberate faults the runs must detect; the *)
(* specification uses none of them.                                        *)
(***************************************************************************)
EXTENDS Integers, Sequences, SequencesExt, FiniteSets

CONSTANTS
    Apps,         \* tasks that call the oc_mqtt API
    QueueLen,     \* the length of the command queue (10 in the code)
    Builtin,      \* s_new_topic_fmt: the further topics of the platform
    UserTopics,   \* topics that applications subscribe
    Qos,          \* the QoS levels they ask for
    Modes,        \* boot_mode: the values bit_bs_enable may get
    Dealers,      \* whether a configuration may have / lack a log_dealer
    MaxOutage,    \* bound: how often the link goes down
    DefaultTopic, \* default_sub_topic of the hub
    BsTopic,      \* default_sub_topic of the bootstrap server
    None

ASSUME Sizes == /\ QueueLen \in Nat \ {0} /\ MaxOutage \in Nat
                /\ Qos \subseteq 0..2
ASSUME Kinds == /\ Modes \subseteq BOOLEAN /\ Dealers \subseteq BOOLEAN
                /\ Builtin \in Seq(Range(Builtin))

VARIABLES
    queue,          \* task_daemon_cmd_queue: the tasks whose commands wait
    cmd,            \* the command of each task, None when it has none
    reply,          \* its signal: None, or the retcode it was posted with
    pc,             \* where the daemon is
    cur,            \* daemon_cmd: the command it executes, or None
    ret,            \* ret of the step in progress, "ok" when there is none
    status,         \* bit_daemon_status
    bs_enable,      \* bit_bs_enable
    get_hubaddr,    \* bit_get_hubaddr
    reported,       \* bit_do_reportdisconnect
    log_dealer,     \* config.log_dealer: whether there is one
    hubserver,      \* bs_cb.hubserver_addr and _port: known or NULL
    subscribe_lst,  \* the topics applications have subscribed
    server,         \* mqtt_para.server_addr: "config", "hub" or None
    handle,         \* mqtt_para.mqtt_handle: the peer of the session, or None
    todo,           \* the subscriptions dmp_subscribe has still to make
    up,             \* what mqtt_al_check_status says of the handle
    sessions,       \* sessions that the MQTT client keeps open
    subs,           \* subscriptions the peer has for the session
    outages,        \* how often the link went down, up to MaxOutage
    told,           \* disconnections reported since the last connection was
    wanted          \* topics applications rely on: subscribed successfully,
                    \* and nobody has asked to unsubscribe them since

callers == <<queue, cmd, reply>>
daemon == <<pc, cur, ret, status>>
config == <<bs_enable, log_dealer>>
link == <<handle, up, sessions, subs>>
ghost == <<told, wanted>>
vars == <<callers, daemon, config, link, ghost, get_hubaddr, reported,
          hubserver, subscribe_lst, server, todo, outages>>

Commands ==
    [op : {"connect"}, bs : Modes, dealer : Dealers]
      \cup [op : {"disconnect", "publish"}]
      \cup [op : {"subscribe"}, topic : UserTopics, qos : Qos]
      \cup [op : {"unsubscribe"}, topic : UserTopics]
Codes == {"ok", "parafmt", "network", "subscribe", "unsubscribe", "publish",
          "configured", "noconfigured", "noconected", "gethubaddrtimeout",
          "sysmem", "system"}

ASSUME NoneIsNothing == None \notin Apps \cup Commands \cup Codes \cup {"config", "hub"}

Topic(kind, t, q) == [kind |-> kind, topic |-> t, qos |-> q]
TopicsOf(s) == {x.topic : x \in s}
Running(op) == pc = "run" /\ cmd[cur].op = op
LinkOk == handle # None /\ up

-----------------------------------------------------------------------------
(* Application tasks: daemon_cmd_post *)

\* A command that finds the queue full, or no memory for its semaphore, is
\* freed again and changes nothing.
daemon_cmd_post(a, c) ==
    /\ cmd[a] = None
    /\ Len(queue) < QueueLen
    /\ cmd' = [cmd EXCEPT ![a] = c]
    /\ queue' = Append(queue, a)
    /\ UNCHANGED <<reply, daemon, config, link, ghost, get_hubaddr, reported,
                   hubserver, subscribe_lst, server, todo, outages>>

\* The signal wakes the task, which reads retcode and frees the command.
M_PendTimesOut(a) == cmd[a] # None
Signalled(a) == reply[a] # None
cmd_done(a) ==
    /\ Signalled(a)
    /\ cmd' = [cmd EXCEPT ![a] = None]
    /\ reply' = [reply EXCEPT ![a] = None]
    /\ UNCHANGED <<queue, daemon, config, link, ghost, get_hubaddr, reported,
                   hubserver, subscribe_lst, server, todo, outages>>

-----------------------------------------------------------------------------
(* The network, and the message dealer that runs in the client's task *)

link_lost ==
    /\ LinkOk /\ outages < MaxOutage
    /\ up' = FALSE
    /\ outages' = outages + 1
    /\ UNCHANGED <<callers, daemon, config, handle, sessions, subs, ghost,
                   get_hubaddr, reported, hubserver, subscribe_lst, server, todo>>

\* An address from the bootstrap server; the copies of its two parts may
\* both succeed or not.  Any other message only goes to the application.
bs_msg_default_deal(copied) ==
    /\ LinkOk /\ BsTopic \in TopicsOf(subs)
    /\ hubserver' = copied
    /\ get_hubaddr' = (get_hubaddr \/ copied)
    /\ UNCHANGED <<callers, daemon, config, link, ghost, reported,
                   subscribe_lst, server, todo, outages>>

-----------------------------------------------------------------------------
(* The daemon: taking a command, answering it *)

queue_pop ==
    /\ pc = "pop" /\ queue # << >>
    /\ cur' = Head(queue) /\ queue' = Tail(queue)
    /\ pc' = "run"
    /\ UNCHANGED <<cmd, reply, ret, status, config, link, ghost, get_hubaddr,
                   reported, hubserver, subscribe_lst, server, todo, outages>>

pop_timeout ==
    /\ pc = "pop" /\ queue = << >>
    /\ pc' = "check"
    /\ UNCHANGED <<callers, cur, ret, status, config, link, ghost, get_hubaddr,
                   reported, hubserver, subscribe_lst, server, todo, outages>>

M_NotPosted(code) ==
    /\ reply' = IF code = "configured" THEN reply
                ELSE [reply EXCEPT ![cur] = code]
    /\ cur' = None
    /\ pc' = "check"
    /\ UNCHANGED <<queue, cmd>>
Answer(code) ==
    /\ reply' = [reply EXCEPT ![cur] = code]
    /\ cur' = None
    /\ pc' = "check"
    /\ UNCHANGED <<queue, cmd>>

M_DisconnectForgets ==
    /\ handle' = None /\ up' = FALSE /\ subs' = {}
    /\ UNCHANGED sessions
    /\ server' = None
oc_mqtt_para_release ==
    /\ handle' = None /\ up' = FALSE /\ subs' = {}
    /\ sessions' = IF handle = None THEN sessions ELSE sessions - 1
    /\ server' = None

config_parameter_release ==
    /\ hubserver' = FALSE
    /\ subscribe_lst' = << >>
    /\ log_dealer' = FALSE
    /\ status' = "idle"
    /\ wanted' = {}
    /\ UNCHANGED bs_enable

-----------------------------------------------------------------------------
(* en_oc_mqtt_daemon_cmd_connect: bs_step and hub_step *)

connect_refused ==
    /\ Running("connect") /\ status # "idle"
    /\ Answer("configured")
    /\ UNCHANGED <<ret, status, config, link, ghost, get_hubaddr, reported,
                   hubserver, subscribe_lst, server, todo, outages>>

\* The copy of the configuration; both ways it may fail leave nothing behind.
config_parameter_clone(failure) ==
    /\ Running("connect") /\ status = "idle"
    /\ ret' = failure
    /\ IF failure # "ok"
       THEN /\ pc' = "connect_end"
            /\ UNCHANGED <<status, config, get_hubaddr>>
       ELSE /\ pc' = "gernerate"
            /\ bs_enable' = cmd[cur].bs
            /\ log_dealer' = cmd[cur].dealer
            /\ status' = IF cmd[cur].bs THEN "bs_getaddr" ELSE "dmp_connecting"
            /\ get_hubaddr' = (get_hubaddr /\ ~cmd[cur].bs)
    /\ UNCHANGED <<callers, cur, link, ghost, reported, hubserver,
                   subscribe_lst, server, todo, outages>>

\* The server of this step: NULL when the bootstrap server has given none.
ServerAddr ==
    IF bs_enable /\ status \in {"hub_keep", "dmp_connecting"}
    THEN IF hubserver THEN "hub" ELSE None
    ELSE "config"

\* The parameters of the next session, after the last one is closed; the
\* memory may suffice or not.
M_AddressNotChecked(mem) == mem
Gernerated(mem) == mem /\ ServerAddr # None
oc_mqtt_para_gernerate(mem) ==
    /\ pc = "gernerate"
    /\ handle' = None /\ up' = FALSE /\ subs' = {}
    /\ sessions' = IF handle = None THEN sessions ELSE sessions - 1
    /\ IF Gernerated(mem)
       THEN pc' = "dmp_connect" /\ server' = ServerAddr /\ UNCHANGED ret
       ELSE pc' = "exit_err" /\ server' = None /\ ret' = "system"
    /\ UNCHANGED <<callers, cur, status, config, ghost, get_hubaddr, reported,
                   hubserver, subscribe_lst, todo, outages>>

\* What dmp_subscribe asks for, in this order.  A bootstrap session has one
\* topic; user topics are renewed with QoS 1 whatever they were asked with.
M_FirstUserTopicOnly ==
    IF status = "bs_getaddr" THEN <<Topic("default", BsTopic, 1)>>
    ELSE <<Topic("default", DefaultTopic, 1)>>
           \o [i \in DOMAIN Builtin |-> Topic("builtin", Builtin[i], 1)]
           \o [i \in DOMAIN subscribe_lst |->
                 Topic("user", subscribe_lst[1].topic, 1)]
Subscriptions ==
    IF status = "bs_getaddr" THEN <<Topic("default", BsTopic, 1)>>
    ELSE <<Topic("default", DefaultTopic, 1)>>
           \o [i \in DOMAIN Builtin |-> Topic("builtin", Builtin[i], 1)]
           \o [i \in DOMAIN subscribe_lst |->
                 Topic("user", subscribe_lst[i].topic, 1)]

dmp_connect(ok) ==
    /\ pc = "dmp_connect"
    /\ IF ok
       THEN /\ handle' = server /\ up' = TRUE
            /\ sessions' = sessions + 1
            /\ todo' = Subscriptions
            /\ ret' = "ok"
            /\ pc' = "dmp_subscribe"
            /\ UNCHANGED subs
       ELSE /\ ret' = "network"
            /\ pc' = "exit_err"
            /\ UNCHANGED <<link, todo>>
    /\ UNCHANGED <<callers, cur, status, config, ghost, get_hubaddr, reported,
                   hubserver, subscribe_lst, server, outages>>

Subscribed(t, q) ==
    {s \in subs : s.topic # t} \cup {[topic |-> t, qos |-> q]}

\* Where the loops go on after a failure: the default topic's is only
\* noted, a platform topic's ends the platform topics, a user topic's ends all.
AfterFailure(rest, kind) ==
    IF kind = "default" THEN rest
    ELSE IF kind = "builtin"
    THEN SubSeq(rest, Len(rest) - Len(subscribe_lst) + 1, Len(rest))
    ELSE << >>

\* One mqtt_al_subscribe of dmp_subscribe: "ok", "failed", or "unconfirmed"
\* when only the acknowledgement was lost.  ret is that of the last one.
dmp_subscribe(outcome) ==
    /\ pc = "dmp_subscribe" /\ todo # << >>
    /\ outcome # "failed" => up
    /\ subs' = IF outcome = "failed" THEN subs
               ELSE Subscribed(Head(todo).topic, Head(todo).qos)
    /\ ret' = IF outcome = "ok" THEN "ok" ELSE "subscribe"
    /\ todo' = IF outcome = "ok" THEN Tail(todo)
               ELSE AfterFailure(Tail(todo), Head(todo).kind)
    /\ UNCHANGED <<callers, pc, cur, status, config, handle, up, sessions,
                   ghost, get_hubaddr, reported, hubserver, subscribe_lst,
                   server, outages>>

\* hub_step returns; what it returns matters to a connect command only.
Stepped ==
    IF status = "hub_keep" THEN pc' = "pop" /\ ret' = "ok"
    ELSE pc' = "connect_end" /\ UNCHANGED ret

\* After the last one hub_step reports the connection.
M_ReportKept == reported' = reported
ReportCleared == reported' = (reported /\ ~log_dealer)
subscribed ==
    /\ pc = "dmp_subscribe" /\ todo = << >>
    /\ IF ret # "ok" \/ status = "bs_getaddr"
       THEN /\ pc' = IF ret = "ok" THEN "bs_publish" ELSE "exit_err"
            /\ UNCHANGED <<ret, reported, told>>
       ELSE /\ Stepped
            /\ ReportCleared
            /\ told' = IF log_dealer THEN 0 ELSE told
    /\ UNCHANGED <<callers, cur, status, config, link, wanted, get_hubaddr,
                   hubserver, subscribe_lst, server, todo, outages>>

\* The request for an address.  When it fails bs_step leaves with the ret of
\* the subscription, which is "ok".
bs_publish(ok) ==
    /\ pc = "bs_publish"
    /\ ok => up
    /\ pc' = IF ok THEN "bs_wait" ELSE "exit_err"
    /\ UNCHANGED <<callers, cur, ret, status, config, link, ghost, get_hubaddr,
                   reported, hubserver, subscribe_lst, server, todo, outages>>

\* The address, or 40 seconds without one.
bs_wait ==
    /\ pc = "bs_wait"
    /\ ret' = IF get_hubaddr THEN "ok" ELSE "gethubaddrtimeout"
    /\ pc' = "exit_err"
    /\ UNCHANGED <<callers, cur, status, config, link, ghost, get_hubaddr,
                   reported, hubserver, subscribe_lst, server, todo, outages>>

\* EXIT_ERR of bs_step, passed on success too, and of hub_step.
exit_err ==
    /\ pc = "exit_err"
    /\ oc_mqtt_para_release
    /\ IF status = "bs_getaddr" /\ ret = "ok"
       THEN status' = "dmp_connecting" /\ pc' = "gernerate" /\ UNCHANGED ret
       ELSE /\ Stepped
            /\ UNCHANGED status
    /\ UNCHANGED <<callers, cur, config, ghost, get_hubaddr, reported,
                   hubserver, subscribe_lst, todo, outages>>

connect_end ==
    /\ pc = "connect_end"
    /\ Answer(ret)
    /\ IF ret = "ok"
       THEN /\ status' = "hub_keep"
            /\ UNCHANGED <<hubserver, subscribe_lst, config, wanted, link, server>>
       ELSE oc_mqtt_para_release /\ config_parameter_release
    /\ ret' = "ok"
    /\ UNCHANGED <<told, get_hubaddr, reported, todo, outages>>

-----------------------------------------------------------------------------
(* The other commands *)

Ready == status = "hub_keep" /\ LinkOk

command_refused ==
    /\ \E op \in {"publish", "subscribe", "unsubscribe"} : Running(op)
    /\ ~Ready
    /\ Answer(IF status = "idle" THEN "noconfigured" ELSE "noconected")
    /\ UNCHANGED <<ret, status, config, link, ghost, get_hubaddr, reported,
                   hubserver, subscribe_lst, server, todo, outages>>

disconnect ==
    /\ Running("disconnect")
    /\ IF status = "idle"
       THEN /\ Answer("noconfigured")
            /\ UNCHANGED <<hubserver, subscribe_lst, config, wanted, status,
                           link, server>>
       ELSE /\ Answer("ok")
            /\ oc_mqtt_para_release
            /\ config_parameter_release
    /\ UNCHANGED <<ret, told, get_hubaddr, reported, todo, outages>>

publish(ok) ==
    /\ Running("publish") /\ Ready
    /\ Answer(IF ok THEN "ok" ELSE "publish")
    /\ UNCHANGED <<ret, status, config, link, ghost, get_hubaddr, reported,
                   hubserver, subscribe_lst, server, todo, outages>>

Listed(t) == \E i \in DOMAIN subscribe_lst : subscribe_lst[i].topic = t

\* The topic is listed once the server has confirmed it.
deal_api_subscribe(outcome) ==
    /\ Running("subscribe") /\ Ready
    /\ LET t == cmd[cur].topic
           q == cmd[cur].qos
           sent == ~Listed(t) /\ outcome # "sysmem"
       IN /\ subs' = IF sent /\ outcome # "failed" THEN Subscribed(t, q) ELSE subs
          /\ IF sent /\ outcome = "ok"
             THEN /\ subscribe_lst' = <<[topic |-> t, qos |-> q]>> \o subscribe_lst
                  /\ wanted' = wanted \cup {[topic |-> t, qos |-> q]}
                  /\ Answer("ok")
             ELSE /\ UNCHANGED <<subscribe_lst, wanted>>
                  /\ Answer(IF Listed(t) \/ sent THEN "subscribe" ELSE "sysmem")
    /\ UNCHANGED <<ret, status, config, handle, up, sessions, told, get_hubaddr,
                   reported, hubserver, server, todo, outages>>

Place(t) == CHOOSE i \in DOMAIN subscribe_lst : subscribe_lst[i].topic = t
Unlisted(t) ==
    IF Listed(t) THEN RemoveAt(subscribe_lst, Place(t)) ELSE subscribe_lst

deal_api_unsubscribe(outcome) ==
    /\ Running("unsubscribe") /\ Ready
    /\ LET t == cmd[cur].topic
       IN /\ subs' = IF outcome = "failed" THEN subs
                     ELSE {s \in subs : s.topic # t}
          /\ subscribe_lst' = IF outcome = "ok" THEN Unlisted(t) ELSE subscribe_lst
          /\ Answer(IF outcome = "ok" THEN "ok" ELSE "unsubscribe")
          /\ wanted' = {w \in wanted : w.topic # t}
    /\ UNCHANGED <<ret, status, config, handle, up, sessions, told, get_hubaddr,
                   reported, hubserver, server, todo, outages>>

-----------------------------------------------------------------------------
(* After each command, or 10 s without one: is the link still up?  The     *)
(* bit that asks for a new bootstrap is never set.                         *)

DueReport == log_dealer /\ ~reported
M_OpenSessionsOnly == status = "hub_keep" /\ handle # None /\ ~up
LinkDown == status = "hub_keep" /\ ~LinkOk
check_link ==
    /\ pc = "check"
    /\ IF LinkDown
       THEN /\ pc' = "gernerate"
            /\ reported' = (reported \/ DueReport)
            /\ told' = IF DueReport THEN told + 1 ELSE told
       ELSE pc' = "pop" /\ UNCHANGED <<reported, told>>
    /\ UNCHANGED <<callers, cur, ret, status, config, link, wanted, get_hubaddr,
                   hubserver, subscribe_lst, server, todo, outages>>

-----------------------------------------------------------------------------
Init ==
    /\ queue = << >> /\ cmd = [a \in Apps |-> None]
    /\ reply = [a \in Apps |-> None]
    /\ pc = "pop" /\ cur = None /\ ret = "ok" /\ status = "idle"
    /\ bs_enable = FALSE /\ log_dealer = FALSE
    /\ handle = None /\ up = FALSE /\ sessions = 0 /\ subs = {}
    /\ get_hubaddr = FALSE /\ reported = FALSE /\ hubserver = FALSE
    /\ subscribe_lst = << >> /\ server = None /\ todo = << >>
    /\ outages = 0 /\ told = 0 /\ wanted = {}

Outcomes == {"ok", "failed", "unconfirmed"}

connection ==
    \/ connect_refused
    \/ \E f \in {"ok", "parafmt", "sysmem"} : config_parameter_clone(f)
    \/ \E mem \in BOOLEAN : oc_mqtt_para_gernerate(mem)
    \/ \E ok \in BOOLEAN : dmp_connect(ok) \/ bs_publish(ok)
    \/ \E o \in Outcomes : dmp_subscribe(o)
    \/ subscribed \/ bs_wait \/ exit_err \/ connect_end

other_commands ==
    \/ command_refused \/ disconnect
    \/ \E ok \in BOOLEAN : publish(ok)
    \/ \E o \in Outcomes \cup {"sysmem"} : deal_api_subscribe(o)
    \/ \E o \in Outcomes : deal_api_unsubscribe(o)

daemon_entry ==
    queue_pop \/ pop_timeout \/ connection \/ other_commands \/ check_link

Next ==
    \/ \E a \in Apps, c \in Commands : daemon_cmd_post(a, c)
    \/ \E a \in Apps : cmd_done(a)
    \/ daemon_entry
    \/ link_lost
    \/ \E copied \in BOOLEAN : bs_msg_default_deal(copied)

Spec == Init /\ [][Next]_vars

\* The daemon is a task of its own and every call of mqtt_al has a timeout;
\* a signalled task runs.  The assumption on the network: a step that is
\* tried again and again is at last successful.
NetworkRecovers ==
    /\ SF_vars(oc_mqtt_para_gernerate(TRUE))
    /\ SF_vars(dmp_connect(TRUE))
    /\ \A t \in UserTopics \cup {DefaultTopic} \cup Range(Builtin) :
         SF_vars(dmp_subscribe("ok") /\ Head(todo).topic = t)
FairSpec ==
    /\ Spec
    /\ WF_vars(daemon_entry)
    /\ \A a \in Apps : WF_vars(cmd_done(a))
    /\ NetworkRecovers

-----------------------------------------------------------------------------
(* Properties *)

Pcs == {"pop", "run", "check", "gernerate", "dmp_connect", "dmp_subscribe",
        "bs_publish", "bs_wait", "exit_err", "connect_end"}
Subs == [topic : UserTopics, qos : Qos]

\* Every variable keeps the type of the code's field.
TypeOK ==
    /\ queue \in Seq(Apps) /\ Len(queue) <= QueueLen
    /\ cmd \in [Apps -> Commands \cup {None}]
    /\ reply \in [Apps -> Codes \cup {None}]
    /\ pc \in Pcs /\ cur \in Apps \cup {None} /\ ret \in Codes
    /\ status \in {"idle", "bs_getaddr", "dmp_connecting", "hub_keep"}
    /\ {bs_enable, log_dealer, get_hubaddr, reported, hubserver, up}
         \subseteq BOOLEAN
    /\ subscribe_lst \in Seq(Subs) /\ wanted \subseteq Subs
    /\ {server, handle} \subseteq {"config", "hub", None}
    /\ sessions \in Nat /\ outages \in 0..MaxOutage /\ told \in Nat
    /\ IsInjective([i \in DOMAIN subscribe_lst |-> subscribe_lst[i].topic])

\* A command lives in the memory of a task that waits for it: the daemon
\* finds the task of every command it takes from the queue, executes or
\* answers still asleep in daemon_cmd_post, and each command is in exactly
\* one place, waiting, in execution or answered.
CommandAlive ==
    \A a \in Apps :
      LET places == Cardinality({i \in DOMAIN queue : queue[i] = a})
                      + (IF cur = a THEN 1 ELSE 0)
                      + (IF reply[a] # None THEN 1 ELSE 0)
      IN places = IF cmd[a] = None THEN 0 ELSE 1

\* Every variable has its type, and through failed bootstraps, failed and
\* repeated reconnects and disconnects the MQTT client never keeps a session
\* the agent has lost, and an agent that is idle between two commands has
\* none, no address and no topics.
NothingLeftBehind ==
    /\ TypeOK
    /\ sessions = IF handle = None THEN 0 ELSE 1
    /\ status = "idle" /\ pc \in {"pop", "check"} =>
         handle = None /\ ~hubserver /\ subscribe_lst = << >>

\* dmp_connect is called with an address, and in bootstrap mode the hub's is
\* the one in bs_cb, which is still there: also when bs_step returned "ok"
\* because only its publish failed, and when a second message arrived.
AddressKnown ==
    pc = "dmp_connect" =>
      /\ server # None
      /\ bs_enable /\ status # "bs_getaddr" => server = "hub" /\ hubserver

\* As long as nobody asks to unsubscribe it, a topic that was subscribed
\* successfully is subscribed whenever the link is up between two commands:
\* also after any number of outages and reconnects that failed half-way.
TopicStaysSubscribed ==
    pc = "pop" /\ LinkOk => TopicsOf(wanted) \subseteq TopicsOf(subs)

\* An application with a log_dealer is told of an outage before the first
\* reconnect, and once, however many reconnects it takes.
OutageReportedOnce ==
    /\ log_dealer => told <= 1
    /\ log_dealer /\ status = "hub_keep"
         /\ pc \in {"gernerate", "dmp_connect", "exit_err"} => told = 1

\* Every command is answered: no bootstrap, reconnect or failure of the
\* network keeps the daemon from the commands of the applications.
CommandAnswered == \A a \in Apps : cmd[a] # None ~> cmd[a] = None

\* After an outage the session comes back unless an application disconnects.
Reconnects == (status = "hub_keep" /\ ~LinkOk) ~> (LinkOk \/ status = "idle")
=============================================================================
