------------------------------ MODULE TunConfig ------------------------------
(***************************************************************************)
(* Opening the tun device: the native process cannot do it on Android, so  *)
(* it tells the service the configuration piece by piece with NEED-OK      *)
(* queries (IFCONFIG, ROUTE, DNSSERVER, DNSDOMAIN), asks what to do with   *)
(* the device it may still hold (PERSIST_TUN_ACTION) and has the service   *)
(* open a new one (OPENTUN), whose descriptor comes back with the answer.  *)
(*                                                                         *)
(* The service collects the pieces in fields that outlive a connection,    *)
(* and a process; only openTun() resets them.  The management thread       *)
(* answers a query at a time while the main thread may send SIGUSR1        *)
(* (pause, reconnect) at any time.                                         *)
(***************************************************************************)
EXTENDS Naturals, Sequences, FiniteSets, SequencesExt

CONSTANTS
    Interfaces,    \* what may be pushed as interface (address, netmask, MTU), or None
    Nets,          \* networks routes are pushed for
    Servers,       \* DNS servers
    Domains,       \* DNS domains
    None,          \* null: no interface, domain, configuration or device
    OpenMethod,    \* "OPEN_BEFORE_CLOSE", or "OPEN_AFTER_CLOSE" on Android 4.4
    PersistTun,    \* the profile has persist-tun
    SameService,   \* a service may start a second process
    AnyType,       \* routes may be excluded ones
    MaxDns,        \* bound: a server is pushed while fewer are collected
    MaxSignals     \* bound: signals in transit to the process

ASSUME OpenMethodAssumption == OpenMethod \in {"OPEN_BEFORE_CLOSE", "OPEN_AFTER_CLOSE"}
ASSUME SwitchesAssumption == {PersistTun, SameService, AnyType} \subseteq BOOLEAN
ASSUME BoundsAssumption == MaxDns \in Nat /\ MaxSignals \in Nat
ASSUME NoneAssumption == None \notin Domains

VARIABLES
    collected,     \* mLocalIP, mRoutes, mDnslist, mDomain of the service
    mLastTunCfg,   \* the configuration of the last openTun(), or None
    phase,         \* "idle", "opening" (in open_tun), "up" or "dead"
    want,          \* the configuration the process has got for this connection
    todo,          \* the queries still to make
    asked,         \* the first of them was sent and its answer is awaited
    sig,           \* siginfo_static.signal_received
    fd,            \* the process's tun device (tt->fd), or None
    open,          \* the tun devices the process holds open
    fatal,         \* why the process gave up (msg(M_ERR)), or "none"
    toJava,        \* queries in the management socket
    toNative       \* answers and signals in the management socket

serviceVars == <<collected, mLastTunCfg>>
nativeVars == <<phase, want, todo, asked, sig, fd, open, fatal>>
channelVars == <<toJava, toNative>>
vars == <<serviceVars, nativeVars, channelVars>>
------------------------------------------------------------------------------
Empty == [ip |-> None, routes |-> {}, dns |-> <<>>, domain |-> None]

Route == [net : Nets, included : IF AnyType THEN BOOLEAN ELSE {TRUE}]

ASSUME RoutesAssumption == IsFiniteSet(Route)

\* What a server may push: a network once, and at most one DNS server.
PushedConfigs ==
    [ip : Interfaces,
     routes : {r \in SUBSET Route : \A a, b \in r : a.net = b.net => a = b},
     dns : {<<>>} \cup {<<s>> : s \in Servers},
     domain : Domains \cup {None}]

Query(cmd, arg) == [cmd |-> cmd, arg |-> arg]

PersistTunAction == Query("PERSIST_TUN_ACTION", "tunmethod")
OpenTunQuery == Query("OPENTUN", "tun")

\* Queries whose answer the process does not look at.
PlainCommands == {"IFCONFIG", "ROUTE", "DNSSERVER", "DNSDOMAIN"}
PlainQuerySet ==
    {Query("IFCONFIG", i) : i \in Interfaces} \cup {Query("ROUTE", r) : r \in Route}
    \cup {Query("DNSSERVER", s) : s \in Servers} \cup {Query("DNSDOMAIN", m) : m \in Domains}
QuerySet == PlainQuerySet \cup {PersistTunAction, OpenTunQuery}

\* The queries of a connection up to PERSIST_TUN_ACTION, in order: do_ifconfig()
\* and do_route() come before open_tun().
Queries(w) ==
    LET routes == SetToSeq(w.routes)
        pieces ==
           (IF w.ip = None THEN <<>> ELSE <<Query("IFCONFIG", w.ip)>>)
           \o [i \in 1 .. Len(routes) |-> Query("ROUTE", routes[i])]
           \o [i \in 1 .. Len(w.dns) |-> Query("DNSSERVER", w.dns[i])]
           \o (IF w.domain = None THEN <<>> ELSE <<Query("DNSDOMAIN", w.domain)>>)
    IN Append(pieces, PersistTunAction)

Usr1 == [cmd |-> "usr1", status |-> "", tun |-> None]
Answer(q, status, tun) == [cmd |-> q.cmd, status |-> status, tun |-> tun]

\* A device is the configuration it was established with and a number that
\* tells two open ones apart.
Device(c) == [cfg |-> c, n |-> IF \E d \in open : d.n = 0 THEN 1 ELSE 0]

Init ==
    /\ collected = Empty /\ mLastTunCfg = None
    /\ phase = "idle" /\ want = Empty /\ todo = <<>> /\ asked = FALSE
    /\ sig = FALSE /\ fd = None /\ open = {} /\ fatal = "none"
    /\ toJava = <<>> /\ toNative = <<>>
------------------------------------------------------------------------------
(***************************************************************************)
(* The service: one action per NEED-OK command.                            *)
(***************************************************************************)
Need(cmd) == toJava # <<>> /\ Head(toJava).cmd = cmd

\* The answer is lost when the process is gone.
Reply(status, tun) ==
    /\ toJava' = Tail(toJava)
    /\ toNative' = IF phase = "dead" THEN toNative
                   ELSE Append(toNative, Answer(Head(toJava), status, tun))
    /\ UNCHANGED nativeVars

SetLocalIP ==
    /\ Need("IFCONFIG")
    /\ collected' = [collected EXCEPT !.ip = Head(toJava).arg]
    /\ Reply("ok", None)
    /\ UNCHANGED mLastTunCfg

\* A network already in mRoutes keeps its type; without a local address the
\* route is dropped.
AddRoute ==
    /\ Need("ROUTE")
    /\ LET route == Head(toJava).arg
       IN collected' =
             IF collected.ip = None \/ \E r \in collected.routes : r.net = route.net
             THEN collected
             ELSE [collected EXCEPT !.routes = @ \cup {route}]
    /\ Reply("ok", None)
    /\ UNCHANGED mLastTunCfg

AddDNS ==
    /\ Need("DNSSERVER")
    /\ collected' = [collected EXCEPT !.dns = Append(@, Head(toJava).arg)]
    /\ Reply("ok", None)
    /\ UNCHANGED mLastTunCfg

\* The first domain stays.
SetDomain ==
    /\ Need("DNSDOMAIN")
    /\ collected' = IF collected.domain # None THEN collected
                    ELSE [collected EXCEPT !.domain = Head(toJava).arg]
    /\ Reply("ok", None)
    /\ UNCHANGED mLastTunCfg

\* Mutant: the DNS servers are left out of the comparison.
TunReopenStatusIgnoresDNS ==
    IF mLastTunCfg # None /\ [collected EXCEPT !.dns = <<>>] = [mLastTunCfg EXCEPT !.dns = <<>>]
    THEN "NOACTION" ELSE OpenMethod

\* getTunReopenStatus()
TunReopenStatus == IF collected = mLastTunCfg THEN "NOACTION" ELSE OpenMethod

AnswerReopen ==
    /\ Need("PERSIST_TUN_ACTION")
    /\ Reply(TunReopenStatus, None)
    /\ UNCHANGED serviceVars

\* Mutant: the refusal is not answered.
OpenTunUnanswered ==
    /\ Need("OPENTUN")
    /\ toJava' = Tail(toJava)
    /\ UNCHANGED <<serviceVars, nativeVars, toNative>>

\* openTun() without any address, or with one that the Builder does not take:
\* nothing is reset.
OpenTunRefused ==
    /\ Need("OPENTUN")
    /\ Reply("cancel", None)
    /\ UNCHANGED serviceVars

\* Mutant: mLastTunCfg is taken after the reset.
OpenTunRecordsLate ==
    /\ Need("OPENTUN") /\ collected.ip # None
    /\ mLastTunCfg' = Empty
    /\ collected' = Empty
    /\ \/ Reply("ok", Device(collected))
       \/ Reply("cancel", None)

\* Mutant: the fields are not brought back to what an empty list is.
OpenTunClearsToNull ==
    /\ Need("OPENTUN") /\ collected.ip # None
    /\ mLastTunCfg' = collected
    /\ collected' = None
    /\ \/ Reply("ok", Device(collected))
       \/ Reply("cancel", None)

\* openTun() records the configuration and resets the fields before
\* establish(), which Android may refuse.
OpenTun ==
    /\ Need("OPENTUN") /\ collected.ip # None
    /\ mLastTunCfg' = collected
    /\ collected' = Empty
    /\ \/ Reply("ok", Device(collected))
       \/ Reply("cancel", None)

\* pause() or reconnect() of another thread.
SendSignal ==
    /\ phase # "dead"
    /\ Cardinality({i \in DOMAIN toNative : toNative[i] = Usr1}) < MaxSignals
    /\ toNative' = Append(toNative, Usr1)
    /\ UNCHANGED <<serviceVars, nativeVars, toJava>>
------------------------------------------------------------------------------
(***************************************************************************)
(* The native process.                                                     *)
(***************************************************************************)
\* The options of a new connection have arrived (do_up).
ReceivePush ==
    /\ phase = "idle" /\ ~sig /\ Len(collected.dns) < MaxDns
    /\ \E w \in PushedConfigs : want' = w /\ todo' = Queries(w)
    /\ phase' = "opening"
    /\ UNCHANGED <<asked, sig, fd, open, fatal, serviceVars, channelVars>>

\* management_query_user_pass() up to its wait
Ask ==
    /\ phase = "opening" /\ ~asked
    /\ toJava' = Append(toJava, Head(todo))
    /\ asked' = TRUE
    /\ UNCHANGED <<phase, want, todo, sig, fd, open, fatal, serviceVars, toNative>>

Gone ==
    /\ phase' = "dead" /\ todo' = <<>> /\ asked' = FALSE /\ sig' = FALSE
    /\ fd' = None /\ open' = {} /\ toNative' = <<>>

\* The process reads its socket in the event loop and while it waits for an
\* answer, and not once a signal is pending (man_block).
Reading == phase # "dead" /\ ~sig /\ toNative # <<>> /\ (phase = "opening" => asked)

\* man_query_need_ok(): the answer belongs to the query that waits for it.
Answered(cmd) ==
    /\ phase = "opening" /\ Reading
    /\ Head(todo).cmd = cmd /\ Head(toNative).cmd = cmd

\* management_android_control() for IFCONFIG, ROUTE, DNSSERVER, DNSDOMAIN; the
\* callers ignore what was answered.
NextQuery ==
    /\ \E cmd \in PlainCommands : Answered(cmd)
    /\ todo' = Tail(todo) /\ asked' = FALSE
    /\ toNative' = Tail(toNative)
    /\ UNCHANGED <<phase, want, sig, fd, open, fatal, serviceVars, toJava>>

\* NOACTION: the old device stays.
KeepTun ==
    /\ Answered("PERSIST_TUN_ACTION")
    /\ Head(toNative).status = "NOACTION" /\ fd # None
    /\ phase' = "up" /\ todo' = <<>> /\ asked' = FALSE
    /\ toNative' = Tail(toNative)
    /\ UNCHANGED <<want, sig, fd, open, fatal, serviceVars, toJava>>

\* Mutant: the old device is closed only when the new one arrives.
ChooseMethodWithoutClose ==
    /\ Answered("PERSIST_TUN_ACTION")
    /\ ~ (Head(toNative).status = "NOACTION" /\ fd # None)
    /\ todo' = <<OpenTunQuery>> /\ asked' = FALSE
    /\ toNative' = Tail(toNative)
    /\ UNCHANGED <<phase, want, sig, fd, open, fatal, serviceVars, toJava>>

\* Otherwise OPENTUN follows, after the old device is closed for
\* OPEN_AFTER_CLOSE.
ChooseMethod ==
    /\ Answered("PERSIST_TUN_ACTION")
    /\ ~ (Head(toNative).status = "NOACTION" /\ fd # None)
    /\ open' = IF Head(toNative).status = "OPEN_AFTER_CLOSE" THEN open \ {fd} ELSE open
    /\ todo' = <<OpenTunQuery>> /\ asked' = FALSE
    /\ toNative' = Tail(toNative)
    /\ UNCHANGED <<phase, want, sig, fd, fatal, serviceVars, toJava>>

\* The new device arrives, and the old one is closed if it is still open.
TakeTun ==
    /\ Answered("OPENTUN") /\ Head(toNative).status = "ok"
    /\ fd' = Head(toNative).tun
    /\ open' = (open \ {fd}) \cup {Head(toNative).tun}
    /\ phase' = "up" /\ todo' = <<>> /\ asked' = FALSE
    /\ toNative' = Tail(toNative)
    /\ UNCHANGED <<want, sig, fatal, serviceVars, toJava>>

\* "Cannot open TUN"
NoTunGiven ==
    /\ Answered("OPENTUN") /\ Head(toNative).status # "ok"
    /\ fatal' = "tun" /\ Gone
    /\ UNCHANGED <<want, serviceVars, toJava>>

\* man_signal()
ReadSignal ==
    /\ Reading /\ Head(toNative) = Usr1
    /\ sig' = TRUE
    /\ toNative' = Tail(toNative)
    /\ UNCHANGED <<phase, want, todo, asked, fd, open, fatal, serviceVars, toJava>>

\* With a signal pending a query is sent but its answer not waited for.
SkipQuery ==
    /\ phase = "opening" /\ asked /\ sig
    /\ Head(todo).cmd \in PlainCommands
    /\ todo' = Tail(todo) /\ asked' = FALSE
    /\ UNCHANGED <<phase, want, sig, fd, open, fatal, serviceVars, channelVars>>

\* "Got unrecognised '' from management", "Cannot open TUN"
SkipFatal ==
    /\ phase = "opening" /\ asked /\ sig
    /\ Head(todo).cmd \in {"PERSIST_TUN_ACTION", "OPENTUN"}
    /\ fatal' = "signal" /\ Gone
    /\ UNCHANGED <<want, serviceVars, toJava>>

\* Mutant: a persisted device is forgotten without being closed.
RestartForgetsTun ==
    /\ phase \in {"idle", "up"} /\ (sig \/ phase = "up")
    /\ phase' = "idle" /\ sig' = FALSE
    /\ fd' = None
    /\ UNCHANGED <<want, todo, asked, open, fatal, serviceVars, channelVars>>

\* SIGUSR1, sent or the process's own (ping-restart): back to connecting; the
\* device stays open with persist-tun.  (do_close_tun)
Restart ==
    /\ phase \in {"idle", "up"} /\ (sig \/ phase = "up")
    /\ phase' = "idle" /\ sig' = FALSE
    /\ IF PersistTun THEN UNCHANGED <<fd, open>> ELSE fd' = None /\ open' = {}
    /\ UNCHANGED <<want, todo, asked, fatal, serviceVars, channelVars>>

\* SIGINT from stopOpenVPN(), or a fatal error elsewhere.
Exit ==
    /\ phase # "dead"
    /\ Gone
    /\ UNCHANGED <<want, fatal, serviceVars, toJava>>

\* A new process.  The service is the same one when the VPN is started again
\* before it could stop itself (mStarting), otherwise a new one; the management
\* thread has read what the old process left in the socket.
StartProcess ==
    /\ phase = "dead" /\ toJava = <<>>
    /\ phase' = "idle" /\ fatal' = "none"
    /\ \/ SameService /\ UNCHANGED serviceVars
       \/ collected' = Empty /\ mLastTunCfg' = None
    /\ UNCHANGED <<want, todo, asked, sig, fd, open, channelVars>>
------------------------------------------------------------------------------
ServiceStep ==
    \/ SetLocalIP
    \/ AddRoute
    \/ AddDNS
    \/ SetDomain
    \/ AnswerReopen
    \/ OpenTunRefused
    \/ OpenTun

NativeStep ==
    \/ Ask
    \/ NextQuery
    \/ KeepTun
    \/ ChooseMethod
    \/ TakeTun
    \/ NoTunGiven
    \/ ReadSignal
    \/ SkipQuery
    \/ SkipFatal

Next ==
    \/ ServiceStep
    \/ NativeStep
    \/ SendSignal
    \/ ReceivePush
    \/ Restart
    \/ Exit
    \/ StartProcess

Spec == Init /\ [][Next]_vars

\* Both sides read what is in their socket; nothing makes the server answer,
\* a process restart or a user act.
FairSpec == Spec /\ WF_vars(ServiceStep) /\ WF_vars(NativeStep)
------------------------------------------------------------------------------
Configs ==
    [ip : Interfaces \cup {None}, routes : SUBSET Route, dns : Seq(Servers),
     domain : Domains \cup {None}]

Devices == [cfg : Configs, n : {0, 1}]

ASSUME NoDeviceAssumption == None \notin Devices

Statuses == {"", "ok", "cancel", "NOACTION", OpenMethod}
Answers ==
    [cmd : PlainCommands \cup {"PERSIST_TUN_ACTION", "OPENTUN", "usr1"},
     status : Statuses, tun : Devices \cup {None}]

\* Types of the service's fields, the process's state and the socket.
TunTypeOK ==
    /\ collected \in Configs
    /\ mLastTunCfg \in Configs \cup {None}
    /\ phase \in {"idle", "opening", "up", "dead"}
    /\ want \in Configs
    /\ todo \in Seq(QuerySet)
    /\ asked \in BOOLEAN /\ sig \in BOOLEAN
    /\ fd \in Devices \cup {None}
    /\ open \subseteq Devices
    /\ fatal \in {"none", "tun", "signal"}
    /\ toJava \in Seq(QuerySet)
    /\ toNative \in Seq(Answers)

\* While packets flow the process holds exactly one tun device open, the one
\* it uses, whatever mix of keeping, closing and opening led there: none is
\* leaked and none used after it was closed.  (open_tun)
OneTun == phase = "up" => fd # None /\ open = {fd}

\* Where a new device must not be opened beside the old one (Android 4.4), the
\* old one is closed by the time the service has established the new one.
\* (open_tun, openTun)
ClosedFirst ==
    OpenMethod = "OPEN_AFTER_CLOSE" =>
       \A i \in DOMAIN toNative : toNative[i].tun # None => open = {}

\* What the service remembers as the last configuration is that of the device
\* the process uses, so that NOACTION keeps a device with the configuration
\* just collected.  (openTun, getTunReopenStatus)
LastIsInUse == phase = "up" => fd.cfg = mLastTunCfg

\* The device has the address pushed for this connection, and every network and server
\* pushed for it is among the device's.  (do_open_tun, openTun)
NothingMissing ==
    phase = "up" =>
       /\ want.ip # None => fd.cfg.ip = want.ip
       /\ \A r \in want.routes : \E s \in fd.cfg.routes : s.net = r.net
       /\ \A i \in DOMAIN want.dns : \E j \in DOMAIN fd.cfg.dns : fd.cfg.dns[j] = want.dns[i]

\* The two sides never wait for each other for good: opening the device ends,
\* with the device up or the process gone.  (management_query_user_pass,
\* processNeedCommand)
OpeningEnds == phase = "opening" ~> phase # "opening"

\* doc/android.txt: the UI opens the device "with the requested configuration":
\* the one this connection has got, and nothing of an earlier one.
AsRequested == phase = "up" => fd.cfg = want
==============================================================================
