--------------------------- MODULE TunConfig_proofs ----------------------------
(***************************************************************************)
(* For all sets of addresses, networks, servers and domains, either method *)
(* of opening, any number of signals: a connection that is up uses exactly *)
(* one tun device, it is the one the service remembers, and all that was   *)
(* pushed for the connection is part of it.                                *)
(***************************************************************************)
EXTENDS TunConfig, TLAPS, FiniteSetTheorems, SequenceTheorems

\* The first element of a sequence and the rest.
LEMMA TailFacts ==
    ASSUME NEW S, NEW s \in Seq(S), s # <<>>
    PROVE  /\ Head(s) = s[1] /\ Head(s) \in S /\ 1 \in 1 .. Len(s)
           /\ Tail(s) \in Seq(S) /\ Len(Tail(s)) = Len(s) - 1
           /\ \A i \in 1 .. Len(Tail(s)) : i + 1 \in 2 .. Len(s) /\ Tail(s)[i] = s[i + 1]
<1>1. Len(s) \in Nat /\ Len(s) # 0
    BY EmptySeq, LenProperties
<1> QED BY <1>1, HeadTailProperties, ElementOfSeq

\* A sequence with an element behind it.
LEMMA AppendFacts ==
    ASSUME NEW S, NEW s \in Seq(S), NEW e \in S
    PROVE  /\ Append(s, e) \in Seq(S) /\ Append(s, e) # <<>>
           /\ Len(s) \in Nat /\ Len(Append(s, e)) = Len(s) + 1
           /\ \A i \in 1 .. Len(s) : Append(s, e)[i] = s[i]
           /\ Append(s, e)[Len(s) + 1] = e
BY AppendProperties, LenProperties

\* A sequence of one element.
LEMMA OneElement ==
    ASSUME NEW S, NEW e \in S
    PROVE <<e>> \in Seq(S)
OBVIOUS

\* A finite set is enumerated by a sequence of its elements, all of them.
LEMMA SetToSeqType ==
    ASSUME NEW S, IsFiniteSet(S)
    PROVE  /\ SetToSeq(S) \in Seq(S)
           /\ \A e \in S : \E i \in 1 .. Len(SetToSeq(S)) : SetToSeq(S)[i] = e
<1> DEFINE n == Cardinality(S)
           s == SetToSeq(S)
<1>1. n \in Nat /\ ExistsBijection(1 .. n, S)
    BY FS_CardinalityType
<1>2. \E f \in [1 .. n -> S] : IsInjective(f)
    BY <1>1 DEF ExistsBijection, Bijection, Injection, IsInjective
<1>3. s \in [1 .. n -> S] /\ IsInjective(s)
    BY <1>2 DEF SetToSeq
<1> HIDE DEF s
<1>4. s \in Seq(S) /\ Len(s) = n
    BY <1>1, <1>3, SeqDef, LenProperties
<1>5. s \in Injection(1 .. n, S)
    BY <1>3 DEF Injection, IsInjective
<1>6. IsFiniteSet(1 .. n) /\ Cardinality(1 .. n) = n
    BY <1>1, FS_Interval
<1>7. s \in Surjection(1 .. n, S)
    BY <1>5, <1>6, FS_Injection
<1> QED BY <1>4, <1>7 DEF Surjection, s

\* The queries about the pieces of a configuration.
AddressQueries(w) == IF w.ip = None THEN <<>> ELSE <<Query("IFCONFIG", w.ip)>>
RouteQueries(w) ==
    [i \in 1 .. Len(SetToSeq(w.routes)) |-> Query("ROUTE", SetToSeq(w.routes)[i])]
ServerQueries(w) == [i \in 1 .. Len(w.dns) |-> Query("DNSSERVER", w.dns[i])]
DomainQueries(w) == IF w.domain = None THEN <<>> ELSE <<Query("DNSDOMAIN", w.domain)>>

LEMMA RouteQueriesType ==
    ASSUME NEW w \in PushedConfigs
    PROVE  /\ RouteQueries(w) \in Seq(PlainQuerySet)
           /\ \A i \in 1 .. Len(RouteQueries(w)) : RouteQueries(w)[i].cmd = "ROUTE"
           /\ \A r \in w.routes :
                 \E i \in 1 .. Len(RouteQueries(w)) : RouteQueries(w)[i] = Query("ROUTE", r)
<1> DEFINE routes == SetToSeq(w.routes)
<1>1. w.routes \in SUBSET Route
    BY DEF PushedConfigs
<1>2. IsFiniteSet(w.routes)
    BY <1>1, RoutesAssumption, FS_Subset
<1>3. /\ routes \in Seq(w.routes)
      /\ \A r \in w.routes : \E i \in 1 .. Len(routes) : routes[i] = r
    BY <1>2, SetToSeqType
<1>4. routes \in Seq(Route)
    BY <1>1, <1>3, SeqMonotonic
<1>5. RouteQueries(w) = [i \in 1 .. Len(routes) |-> Query("ROUTE", routes[i])]
    BY DEF RouteQueries
<1> HIDE DEF routes
<1>6. Len(routes) \in Nat
    BY <1>4, LenProperties
<1>7. \A i \in 1 .. Len(routes) : Query("ROUTE", routes[i]) \in PlainQuerySet
    BY <1>4, ElementOfSeq DEF PlainQuerySet
<1>8. RouteQueries(w) \in Seq(PlainQuerySet) /\ Len(RouteQueries(w)) = Len(routes)
    BY <1>5, <1>6, <1>7, IsASeq, LenProperties
<1>9. \A i \in 1 .. Len(routes) : RouteQueries(w)[i] = Query("ROUTE", routes[i])
    BY <1>5
<1>10. \A r : Query("ROUTE", r).cmd = "ROUTE"
    BY DEF Query
<1>11. \A r \in w.routes :
          \E i \in 1 .. Len(RouteQueries(w)) : RouteQueries(w)[i] = Query("ROUTE", r)
    BY <1>3, <1>8, <1>9
<1> QED BY <1>8, <1>9, <1>10, <1>11

LEMMA ServerQueriesType ==
    ASSUME NEW w \in PushedConfigs
    PROVE  /\ ServerQueries(w) \in Seq(PlainQuerySet)
           /\ Len(ServerQueries(w)) = Len(w.dns)
           /\ \A i \in 1 .. Len(w.dns) : ServerQueries(w)[i] = Query("DNSSERVER", w.dns[i])
<1>1. w.dns \in Seq(Servers)
    <2>1. w.dns \in {<<>>} \cup {<<s>> : s \in Servers}
        BY DEF PushedConfigs
    <2> QED BY <2>1, EmptySeq, OneElement
<1>2. Len(w.dns) \in Nat
    BY <1>1, LenProperties
<1>3. \A i \in 1 .. Len(w.dns) : Query("DNSSERVER", w.dns[i]) \in PlainQuerySet
    BY <1>1, ElementOfSeq DEF PlainQuerySet
<1>4. ServerQueries(w) \in Seq(PlainQuerySet) /\ Len(ServerQueries(w)) = Len(w.dns)
    BY <1>2, <1>3, IsASeq, LenProperties DEF ServerQueries
<1> QED BY <1>4 DEF ServerQueries

LEMMA OtherQueriesType ==
    ASSUME NEW w \in PushedConfigs
    PROVE AddressQueries(w) \in Seq(PlainQuerySet) /\ DomainQueries(w) \in Seq(PlainQuerySet)
<1>1. w.ip # None => Query("IFCONFIG", w.ip) \in PlainQuerySet
    BY DEF PushedConfigs, PlainQuerySet
<1>2. w.domain # None => Query("DNSDOMAIN", w.domain) \in PlainQuerySet
    BY DEF PushedConfigs, PlainQuerySet
<1>3. AddressQueries(w) \in Seq(PlainQuerySet)
    BY <1>1, EmptySeq, OneElement DEF AddressQueries
<1>4. DomainQueries(w) \in Seq(PlainQuerySet)
    BY <1>2, EmptySeq, OneElement DEF DomainQueries
<1> QED BY <1>3, <1>4

\* The queries of a connection: every piece of the configuration is among them,
\* the address can only be the first, and at the end comes what to do with the
\* old device.
LEMMA QueriesShape ==
    ASSUME NEW w \in PushedConfigs
    PROVE \E p \in Seq(PlainQuerySet) :
             /\ Queries(w) = Append(p, PersistTunAction)
             /\ w.ip # None => \E i \in 1 .. Len(p) : p[i] = Query("IFCONFIG", w.ip)
             /\ \A r \in w.routes : \E i \in 1 .. Len(p) : p[i] = Query("ROUTE", r)
             /\ \A k \in 1 .. Len(w.dns) :
                   \E i \in 1 .. Len(p) : p[i] = Query("DNSSERVER", w.dns[k])
             /\ \A i \in 1 .. Len(p) : p[i].cmd = "IFCONFIG" =>
                   i = 1 /\ p[i].arg = w.ip /\ w.ip # None
<1> DEFINE a == AddressQueries(w)
           b == RouteQueries(w)
           c == ServerQueries(w)
           d == DomainQueries(w)
           p == a \o b \o c \o d
<1>1. /\ a \in Seq(PlainQuerySet) /\ b \in Seq(PlainQuerySet)
      /\ c \in Seq(PlainQuerySet) /\ d \in Seq(PlainQuerySet)
    BY RouteQueriesType, ServerQueriesType, OtherQueriesType
<1>2. Queries(w) = Append(p, PersistTunAction)
    BY DEF Queries, AddressQueries, RouteQueries, ServerQueries, DomainQueries
<1>3. w.ip # None => Len(a) = 1 /\ a[1] = Query("IFCONFIG", w.ip)
    BY DEF AddressQueries
<1>4. /\ Len(a) \in {0, 1}
      /\ \A i \in 1 .. Len(a) : i = 1 /\ a[i] = Query("IFCONFIG", w.ip) /\ w.ip # None
    BY DEF AddressQueries
<1>5. /\ \A i \in 1 .. Len(b) : b[i].cmd = "ROUTE"
      /\ \A r \in w.routes : \E i \in 1 .. Len(b) : b[i] = Query("ROUTE", r)
    BY RouteQueriesType
<1>6. /\ Len(c) = Len(w.dns) /\ \A i \in 1 .. Len(c) : c[i] = Query("DNSSERVER", w.dns[i])
      /\ \A i \in 1 .. Len(c) : c[i].cmd = "DNSSERVER"
    <2>1. Len(c) = Len(w.dns) /\ \A i \in 1 .. Len(c) : c[i] = Query("DNSSERVER", w.dns[i])
        BY ServerQueriesType
    <2>2. \A e : Query("DNSSERVER", e).cmd = "DNSSERVER"
        BY DEF Query
    <2> HIDE DEF c
    <2> QED BY <2>1, <2>2
<1>7. \A i \in 1 .. Len(d) : d[i].cmd = "DNSDOMAIN"
    BY DEF DomainQueries, Query
<1> HIDE DEF a, b, c, d
<1>8. /\ Len(a) \in Nat /\ Len(b) \in Nat /\ Len(c) \in Nat /\ Len(d) \in Nat
      /\ p \in Seq(PlainQuerySet) /\ Len(p) = Len(a) + Len(b) + Len(c) + Len(d)
      /\ \A i \in 1 .. Len(p) :
            p[i] = IF i <= Len(a) THEN a[i]
                   ELSE IF i <= Len(a) + Len(b) THEN b[i - Len(a)]
                   ELSE IF i <= Len(a) + Len(b) + Len(c) THEN c[i - Len(a) - Len(b)]
                   ELSE d[i - Len(a) - Len(b) - Len(c)]
    <2>1. a \o b \in Seq(PlainQuerySet) /\ a \o b \o c \in Seq(PlainQuerySet)
        BY <1>1, ConcatProperties
    <2> QED BY <1>1, <2>1, ConcatProperties, LenProperties
<1> HIDE DEF p
<1>9. \A i \in 1 .. Len(b) : i + Len(a) \in 1 .. Len(p) /\ p[i + Len(a)] = b[i]
    BY <1>8
<1>10. \A i \in 1 .. Len(c) :
          i + Len(a) + Len(b) \in 1 .. Len(p) /\ p[i + Len(a) + Len(b)] = c[i]
    BY <1>8
<1>11. w.ip # None => \E i \in 1 .. Len(p) : p[i] = Query("IFCONFIG", w.ip)
    BY <1>3, <1>8
<1>12. \A r \in w.routes : \E i \in 1 .. Len(p) : p[i] = Query("ROUTE", r)
    BY <1>5, <1>9
<1>13. \A k \in 1 .. Len(w.dns) : \E i \in 1 .. Len(p) : p[i] = Query("DNSSERVER", w.dns[k])
    BY <1>6, <1>10
<1>14. ASSUME NEW i \in 1 .. Len(p), p[i].cmd = "IFCONFIG"
       PROVE i = 1 /\ p[i].arg = w.ip /\ w.ip # None
    <2>1. CASE i <= Len(a)
        BY <1>4, <1>8, <2>1 DEF Query
    <2>2. CASE i > Len(a) /\ i <= Len(a) + Len(b)
        <3>1. i - Len(a) \in 1 .. Len(b) /\ p[i] = b[i - Len(a)]
            BY <1>8, <2>2
        <3> QED BY <1>5, <1>14, <3>1
    <2>3. CASE i > Len(a) + Len(b) /\ i <= Len(a) + Len(b) + Len(c)
        <3>1. i - Len(a) - Len(b) \in 1 .. Len(c) /\ p[i] = c[i - Len(a) - Len(b)]
            BY <1>8, <2>3
        <3> QED BY <1>6, <1>14, <3>1
    <2>4. CASE i > Len(a) + Len(b) + Len(c)
        <3>1. i - Len(a) - Len(b) - Len(c) \in 1 .. Len(d) /\ p[i] = d[i - Len(a) - Len(b) - Len(c)]
            BY <1>8, <2>4
        <3> QED BY <1>7, <1>14, <3>1
    <2> QED BY <1>8, <2>1, <2>2, <2>3, <2>4
<1> QED BY <1>2, <1>8, <1>11, <1>12, <1>13, <1>14

--------------------------------------------------------------------------------
(***************************************************************************)
(* The inductive invariant.                                                *)
(***************************************************************************)
\* The process has asked, or is about to ask, for a new device.
Switching == phase = "opening" /\ Head(todo).cmd = "OPENTUN"

\* A query is awaited in open_tun() only, which ends with one of the two
\* queries whose answer counts; OPENTUN is never behind another one.
TodoOK ==
    /\ asked => phase = "opening"
    /\ phase = "opening" =>
          /\ todo # <<>> /\ todo[Len(todo)].cmd \notin PlainCommands
          /\ \A i \in 2 .. Len(todo) : todo[i].cmd # "OPENTUN"

\* The process holds its device open unless it is about to replace it.
DeviceOK ==
    /\ None \notin open /\ open \subseteq {fd}
    /\ phase = "dead" => fd = None /\ toNative = <<>>
    /\ phase = "up" => fd # None
    /\ fd # None /\ ~Switching => open = {fd} /\ fd.cfg = mLastTunCfg

\* OPENTUN is the last query in the socket, and not answered yet, while its
\* process lives.
QueryOK ==
    \A i \in 1 .. Len(toJava) : toJava[i].cmd = "OPENTUN" /\ phase # "dead" =>
       /\ Switching /\ asked /\ i = Len(toJava)
       /\ \A j \in 1 .. Len(toNative) : toNative[j].cmd # "OPENTUN"

\* The answer to OPENTUN is awaited, is the only one and brings a device with
\* the last configuration.
AnswerOK ==
    \A i \in 1 .. Len(toNative) : toNative[i].cmd = "OPENTUN" =>
       /\ Switching /\ asked
       /\ toNative[i].status = "ok" =>
             toNative[i].tun \in Devices /\ toNative[i].tun.cfg = mLastTunCfg
       /\ \A j \in 1 .. Len(toNative) : toNative[j].cmd = "OPENTUN" => j = i

\* Only OPENTUN brings a device, and what is answered about the old one makes
\* the process close it first where that is the method.
CloseOK ==
    /\ OpenMethod = "OPEN_AFTER_CLOSE" /\ Switching => open = {}
    /\ \A i \in 1 .. Len(toNative) :
          /\ toNative[i].tun # None => toNative[i].cmd = "OPENTUN"
          /\ toNative[i].cmd = "PERSIST_TUN_ACTION" =>
                toNative[i].status \in {"NOACTION", OpenMethod}

TunInv == TunTypeOK /\ TodoOK /\ DeviceOK /\ QueryOK /\ AnswerOK /\ CloseOK

LEMMA QueryTypes ==
    ASSUME NEW q \in QuerySet
    PROVE  /\ q.cmd \in PlainCommands \cup {"PERSIST_TUN_ACTION", "OPENTUN"}
           /\ q.cmd = "IFCONFIG" => q.arg \in Interfaces
           /\ q.cmd = "ROUTE" => q.arg \in Route
           /\ q.cmd = "DNSSERVER" => q.arg \in Servers
           /\ q.cmd = "DNSDOMAIN" => q.arg \in Domains
BY DEF QuerySet, PlainQuerySet, PersistTunAction, OpenTunQuery, Query, PlainCommands

LEMMA MessageTypes ==
    /\ PersistTunAction \in QuerySet /\ PersistTunAction.cmd = "PERSIST_TUN_ACTION"
    /\ OpenTunQuery \in QuerySet /\ OpenTunQuery.cmd = "OPENTUN"
    /\ PlainQuerySet \subseteq QuerySet
    /\ Usr1 \in Answers /\ Usr1.cmd = "usr1" /\ Usr1.tun = None
    /\ "PERSIST_TUN_ACTION" \notin PlainCommands /\ "OPENTUN" \notin PlainCommands
BY DEF QuerySet, PersistTunAction, OpenTunQuery, Query, Usr1, Answers, Statuses, PlainCommands

\* No step but the process's end, a push, a device or a change of phase
\* touches what DeviceOK and CloseOK say of the device.
LEMMA DeviceKept ==
    ASSUME DeviceOK, UNCHANGED <<open, fd, mLastTunCfg, phase>>, Switching' <=> Switching,
           phase = "dead" => toNative' = toNative
    PROVE DeviceOK'
BY DEF DeviceOK

\* Without a message about OPENTUN there is nothing to say of the messages.
LEMMA NoOpenTun ==
    ASSUME \A i \in 1 .. Len(toJava') : toJava'[i].cmd # "OPENTUN",
           \A i \in 1 .. Len(toNative') : toNative'[i].cmd # "OPENTUN"
    PROVE QueryOK' /\ AnswerOK'
BY DEF QueryOK, AnswerOK

\* While no new device is asked for no message is about OPENTUN.
LEMMA NotSwitching ==
    ASSUME QueryOK, AnswerOK, ~Switching, phase # "dead"
    PROVE  /\ \A i \in 1 .. Len(toJava) : toJava[i].cmd # "OPENTUN"
           /\ \A i \in 1 .. Len(toNative) : toNative[i].cmd # "OPENTUN"
BY DEF QueryOK, AnswerOK

--------------------------------------------------------------------------------
\* An answer of the service that keeps to what the invariant says of answers.
LEMMA ReplyStep ==
    ASSUME TunInv, toJava # <<>>,
           NEW st \in Statuses, NEW tun \in Devices \cup {None}, Reply(st, tun),
           collected' \in Configs, mLastTunCfg' \in Configs \cup {None},
           tun # None => Head(toJava).cmd = "OPENTUN",
           Head(toJava).cmd = "PERSIST_TUN_ACTION" => st \in {"NOACTION", OpenMethod},
           Head(toJava).cmd # "OPENTUN" => mLastTunCfg' = mLastTunCfg,
           Head(toJava).cmd = "OPENTUN" /\ st = "ok" => tun \in Devices /\ tun.cfg = mLastTunCfg'
    PROVE TunInv'
<1> DEFINE q == Head(toJava)
           e == Answer(q, st, tun)
<1>0. toJava \in Seq(QuerySet) /\ toNative \in Seq(Answers)
    BY DEF TunInv, TunTypeOK
<1>1. /\ q \in QuerySet /\ q = toJava[1] /\ toJava' \in Seq(QuerySet)
      /\ 1 \in 1 .. Len(toJava) /\ Len(toJava') = Len(toJava) - 1
      /\ \A i \in 1 .. Len(toJava') : i + 1 \in 2 .. Len(toJava) /\ toJava'[i] = toJava[i + 1]
      /\ Len(toJava) \in Nat
    BY <1>0, TailFacts, LenProperties DEF Reply
<1>2. e \in Answers /\ e.cmd = q.cmd /\ e.status = st /\ e.tun = tun
    BY <1>1, QueryTypes DEF Answer, Answers
<1>3. phase = "dead" => toNative' = toNative
    BY DEF Reply
<1>4. /\ phase # "dead" =>
            /\ toNative' = Append(toNative, e)
            /\ \A i \in 1 .. Len(toNative') :
                  \/ i \in 1 .. Len(toNative) /\ toNative'[i] = toNative[i]
                  \/ i = Len(toNative) + 1 /\ toNative'[i] = e
      /\ toNative' \in Seq(Answers) /\ Len(toNative) \in Nat
    <2>1. toNative' = IF phase = "dead" THEN toNative ELSE Append(toNative, e)
        BY DEF Reply
    <2> HIDE DEF e
    <2> QED BY <2>1, <1>0, <1>2, AppendFacts
<1>5. Switching' = Switching /\ UNCHANGED nativeVars
    BY DEF Reply, nativeVars, Switching
<1> HIDE DEF q, e
<1>6. TunTypeOK'
    BY <1>1, <1>4, <1>5 DEF TunInv, TunTypeOK, nativeVars
<1>7. TodoOK'
    BY <1>5 DEF TunInv, TodoOK, nativeVars
<1>8. q.cmd = "OPENTUN" /\ phase # "dead" =>
         /\ Switching /\ asked /\ Len(toJava) = 1
         /\ \A j \in 1 .. Len(toNative) : toNative[j].cmd # "OPENTUN"
    BY <1>1 DEF TunInv, QueryOK
<1>9. DeviceOK'
    <2>1. CASE q.cmd # "OPENTUN"
        BY <2>1, <1>3, <1>5, DeviceKept DEF TunInv, nativeVars, q
    <2>2. CASE q.cmd = "OPENTUN"
        BY <2>2, <1>3, <1>5, <1>8 DEF TunInv, DeviceOK, nativeVars
    <2> QED BY <2>1, <2>2
<1>10. QueryOK'
    <2> SUFFICES ASSUME NEW i \in 1 .. Len(toJava'), toJava'[i].cmd = "OPENTUN", phase # "dead"
                 PROVE  /\ Switching /\ asked /\ i = Len(toJava')
                        /\ \A j \in 1 .. Len(toNative') : toNative'[j].cmd # "OPENTUN"
        BY <1>5 DEF QueryOK, nativeVars
    <2>1. i \in Nat /\ i + 1 \in 1 .. Len(toJava) /\ toJava[i + 1].cmd = "OPENTUN"
        BY <1>1
    <2>2. /\ Switching /\ asked /\ i + 1 = Len(toJava)
          /\ \A j \in 1 .. Len(toNative) : toNative[j].cmd # "OPENTUN"
        BY <2>1 DEF TunInv, QueryOK
    <2>3. q.cmd # "OPENTUN"
        BY <1>1, <1>8, <2>2
    <2> QED BY <1>1, <1>2, <1>4, <2>1, <2>2, <2>3
<1>11. AnswerOK'
    <2>1. CASE phase = "dead"
        BY <2>1, <1>3 DEF TunInv, DeviceOK, AnswerOK
    <2>2. CASE phase # "dead" /\ q.cmd = "OPENTUN"
        BY <2>2, <1>2, <1>4, <1>5, <1>8 DEF AnswerOK, q, nativeVars
    <2>3. CASE phase # "dead" /\ q.cmd # "OPENTUN"
        BY <2>3, <1>2, <1>4, <1>5 DEF TunInv, AnswerOK, q, nativeVars
    <2> QED BY <2>1, <2>2, <2>3
<1>12. CloseOK'
    <2>1. CASE phase = "dead"
        BY <2>1, <1>3, <1>5 DEF TunInv, CloseOK, nativeVars
    <2>2. CASE phase # "dead"
        BY <2>2, <1>2, <1>4, <1>5 DEF TunInv, CloseOK, nativeVars, q
    <2> QED BY <2>1, <2>2
<1> QED BY <1>6, <1>7, <1>9, <1>10, <1>11, <1>12 DEF TunInv

\* A device established with the collected configuration.
LEMMA DeviceType ==
    ASSUME NEW c \in Configs
    PROVE Device(c) \in Devices /\ Device(c).cfg = c /\ Device(c) # None
BY NoDeviceAssumption DEF Device, Devices

\* The service keeps the invariant.
LEMMA ServiceKeeps ==
    ASSUME TunInv, ServiceStep
    PROVE TunInv'
<1> DEFINE q == Head(toJava)
<1>0. /\ toJava # <<>> /\ toJava \in Seq(QuerySet)
      /\ collected \in Configs /\ mLastTunCfg \in Configs \cup {None}
    BY DEF TunInv, TunTypeOK, ServiceStep, Need, SetLocalIP, AddRoute, AddDNS, SetDomain,
           AnswerReopen, OpenTunRefused, OpenTun
<1>1. q \in QuerySet
    BY <1>0, TailFacts
<1>2. {"ok", "cancel", "NOACTION", OpenMethod} \subseteq Statuses
    BY DEF Statuses
<1>3. ASSUME NEW c \in Configs, collected' = c, Reply("ok", None), q.cmd \in PlainCommands,
             UNCHANGED mLastTunCfg
      PROVE TunInv'
    <2>1. q.cmd # "OPENTUN" /\ q.cmd # "PERSIST_TUN_ACTION"
        BY <1>3, MessageTypes
    <2> QED BY <1>0, <1>2, <1>3, <2>1, ReplyStep
<1>4. CASE SetLocalIP
    <2>1. q.arg \in Interfaces /\ q.cmd \in PlainCommands
        BY <1>1, <1>4, QueryTypes DEF SetLocalIP, Need, PlainCommands
    <2>2. [collected EXCEPT !.ip = q.arg] \in Configs
        BY <1>0, <2>1 DEF Configs
    <2> QED BY <1>3, <1>4, <2>1, <2>2 DEF SetLocalIP
<1>5. CASE AddRoute
    <2>1. q.arg \in Route /\ q.cmd \in PlainCommands
        BY <1>1, <1>5, QueryTypes DEF AddRoute, Need, PlainCommands
    <2>2. [collected EXCEPT !.routes = @ \cup {q.arg}] \in Configs
        BY <1>0, <2>1 DEF Configs
    <2>3. collected' \in Configs
        BY <1>0, <1>5, <2>2 DEF AddRoute
    <2> QED BY <1>3, <1>5, <2>1, <2>3 DEF AddRoute
<1>6. CASE AddDNS
    <2>1. q.arg \in Servers /\ q.cmd \in PlainCommands
        BY <1>1, <1>6, QueryTypes DEF AddDNS, Need, PlainCommands
    <2>2. collected.dns \in Seq(Servers)
        BY <1>0 DEF Configs
    <2>3. Append(collected.dns, q.arg) \in Seq(Servers)
        BY <2>1, <2>2, AppendFacts
    <2>4. [collected EXCEPT !.dns = Append(@, q.arg)] \in Configs
        BY <1>0, <2>3 DEF Configs
    <2> QED BY <1>3, <1>6, <2>1, <2>4 DEF AddDNS
<1>7. CASE SetDomain
    <2>1. q.arg \in Domains /\ q.cmd \in PlainCommands
        BY <1>1, <1>7, QueryTypes DEF SetDomain, Need, PlainCommands
    <2>2. [collected EXCEPT !.domain = q.arg] \in Configs
        BY <1>0, <2>1 DEF Configs
    <2>3. collected' \in Configs
        BY <1>0, <1>7, <2>2 DEF SetDomain
    <2> QED BY <1>3, <1>7, <2>1, <2>3 DEF SetDomain
<1>8. CASE AnswerReopen
    <2>1. TunReopenStatus \in {"NOACTION", OpenMethod}
        BY DEF TunReopenStatus
    <2>2. q.cmd = "PERSIST_TUN_ACTION" /\ UNCHANGED <<collected, mLastTunCfg>>
        BY <1>8 DEF AnswerReopen, Need, serviceVars
    <2> QED BY <1>0, <1>2, <1>8, <2>1, <2>2, ReplyStep DEF AnswerReopen
<1>9. CASE OpenTunRefused
    <2>1. q.cmd = "OPENTUN" /\ UNCHANGED <<collected, mLastTunCfg>>
        BY <1>9 DEF OpenTunRefused, Need, serviceVars
    <2> QED BY <1>0, <1>2, <1>9, <2>1, ReplyStep DEF OpenTunRefused
<1>10. CASE OpenTun
    <2>1. q.cmd = "OPENTUN" /\ mLastTunCfg' = collected /\ collected' = Empty
        BY <1>10 DEF OpenTun, Need
    <2>2. Empty \in Configs
        BY EmptySeq DEF Empty, Configs
    <2>3. CASE Reply("ok", Device(collected))
        <3>1. Device(collected) \in Devices /\ Device(collected).cfg = mLastTunCfg'
            BY <1>0, <2>1, DeviceType
        <3> QED BY <1>0, <1>2, <2>1, <2>2, <2>3, <3>1, ReplyStep
    <2>4. CASE Reply("cancel", None)
        BY <1>0, <1>2, <2>1, <2>2, <2>4, ReplyStep
    <2> QED BY <1>10, <2>3, <2>4 DEF OpenTun
<1> QED BY <1>4, <1>5, <1>6, <1>7, <1>8, <1>9, <1>10 DEF ServiceStep

--------------------------------------------------------------------------------
\* The process's end leaves nothing to say of it.
LEMMA GoneKeeps ==
    ASSUME TunInv, Gone, UNCHANGED <<want, serviceVars, toJava>>,
           fatal' \in {"none", "tun", "signal"}
    PROVE TunInv'
<1>1. TunTypeOK'
    BY EmptySeq DEF TunInv, TunTypeOK, Gone, serviceVars
<1>2. TodoOK' /\ DeviceOK' /\ QueryOK' /\ AnswerOK' /\ CloseOK'
    BY EmptySeq DEF TodoOK, DeviceOK, QueryOK, AnswerOK, CloseOK, Gone, Switching
<1> QED BY <1>1, <1>2 DEF TunInv

\* What an action says that takes the first message out of the socket.
LEMMA TakeAnswer ==
    ASSUME TunTypeOK, toNative # <<>>, toNative' = Tail(toNative)
    PROVE  /\ toNative' \in Seq(Answers) /\ Head(toNative) = toNative[1]
           /\ Head(toNative) \in Answers /\ 1 \in 1 .. Len(toNative)
           /\ \A i \in 1 .. Len(toNative') :
                 i + 1 \in 2 .. Len(toNative) /\ toNative'[i] = toNative[i + 1]
           /\ Len(toNative) \in Nat /\ Len(toNative') = Len(toNative) - 1
BY TailFacts, LenProperties DEF TunTypeOK

\* A query sent: OPENTUN is sent once.
LEMMA AskKeeps ==
    ASSUME TunInv, Ask
    PROVE TunInv'
<1> DEFINE q == Head(todo)
<1> USE DEF Ask, serviceVars
<1>1. todo # <<>> /\ todo \in Seq(QuerySet) /\ toJava \in Seq(QuerySet)
    BY DEF TunInv, TunTypeOK, TodoOK
<1>2. q \in QuerySet
    BY <1>1, TailFacts
<1>3. /\ toJava' \in Seq(QuerySet) /\ Len(toJava) \in Nat
      /\ Len(toJava') = Len(toJava) + 1 /\ toJava'[Len(toJava) + 1] = q
      /\ \A i \in 1 .. Len(toJava) : toJava'[i] = toJava[i]
    BY <1>1, <1>2, AppendFacts
<1>4. Switching' = Switching
    BY DEF Switching
<1>5. \A i \in 1 .. Len(toNative) : toNative[i].cmd # "OPENTUN"
    BY DEF TunInv, AnswerOK
<1>6. \A i \in 1 .. Len(toJava) : toJava[i].cmd # "OPENTUN"
    BY DEF TunInv, QueryOK
<1>7. QueryOK'
    BY <1>3, <1>4, <1>5, <1>6 DEF QueryOK, Switching
<1>8. DeviceOK'
    BY <1>4, DeviceKept DEF TunInv
<1>9. TunTypeOK' /\ TodoOK' /\ AnswerOK' /\ CloseOK'
    BY <1>3, <1>4, <1>5 DEF TunInv, TunTypeOK, TodoOK, AnswerOK, CloseOK
<1> QED BY <1>7, <1>8, <1>9 DEF TunInv

\* After a query that is no end of the list there is another one, and it is
\* not OPENTUN.
LEMMA NextTodo ==
    ASSUME TunTypeOK, TodoOK, phase = "opening", Head(todo).cmd \in PlainCommands,
           phase' = phase, todo' = Tail(todo), ~asked'
    PROVE TodoOK' /\ todo' \in Seq(QuerySet) /\ ~Switching /\ ~Switching'
<1>1. todo # <<>> /\ todo \in Seq(QuerySet)
    BY DEF TunTypeOK, TodoOK
<1>2. /\ Head(todo) = todo[1] /\ Len(todo) \in Nat /\ todo' \in Seq(QuerySet)
      /\ Len(todo') = Len(todo) - 1 /\ 1 \in 1 .. Len(todo)
      /\ \A i \in 1 .. Len(todo') : i + 1 \in 2 .. Len(todo) /\ todo'[i] = todo[i + 1]
    BY <1>1, TailFacts, LenProperties
<1>3. Len(todo) >= 2
    BY <1>2 DEF TodoOK
<1>4. todo' # <<>> /\ Head(todo') = todo'[1] /\ todo'[1] = todo[2] /\ 2 \in 2 .. Len(todo)
    <2>1. todo' # <<>>
        <3>1. Len(todo') # 0
            BY <1>2, <1>3
        <3>2. Len(<<>>) = 0
            OBVIOUS
        <3> QED BY <3>1, <3>2
    <2>2. Head(todo') = todo'[1]
        BY <1>2, <2>1, TailFacts
    <2> QED BY <1>2, <1>3, <2>1, <2>2
<1>5. ~Switching /\ ~Switching'
    BY <1>4, MessageTypes DEF Switching, TodoOK
<1>6. TodoOK'
    <2>1. todo'[Len(todo')] = todo[Len(todo)]
        BY <1>2, <1>3
    <2>2. \A i \in 2 .. Len(todo') : i \in 1 .. Len(todo') /\ todo'[i] = todo[i + 1] /\ i + 1 \in 2 .. Len(todo)
        BY <1>2
    <2> QED BY <1>4, <2>1, <2>2 DEF TodoOK
<1> QED BY <1>2, <1>5, <1>6

\* The answer to a piece of the configuration, or a pending signal, takes the
\* process to the next query.
LEMMA NextQueryKeeps ==
    ASSUME TunInv, NextQuery \/ SkipQuery
    PROVE TunInv'
<1> USE DEF NextQuery, SkipQuery, serviceVars, channelVars
<1>1. /\ phase = "opening" /\ Head(todo).cmd \in PlainCommands
      /\ todo' = Tail(todo) /\ ~asked' /\ phase' = phase
    BY DEF Answered
<1>2. TodoOK' /\ todo' \in Seq(QuerySet) /\ ~Switching /\ ~Switching'
    BY <1>1, NextTodo DEF TunInv
<1>3. /\ \A i \in 1 .. Len(toJava) : toJava[i].cmd # "OPENTUN"
      /\ \A i \in 1 .. Len(toNative) : toNative[i].cmd # "OPENTUN"
    BY <1>1, <1>2, NotSwitching DEF TunInv
<1>4. /\ toNative' \in Seq(Answers) /\ toJava' = toJava
      /\ \A i \in 1 .. Len(toNative') :
            \E j \in 1 .. Len(toNative) : toNative'[i] = toNative[j]
    <2>1. CASE NextQuery
        <3>1. toNative # <<>> /\ toNative' = Tail(toNative)
            BY <2>1 DEF Answered, Reading
        <3>2. \A i \in 1 .. Len(toNative') :
                 i + 1 \in 2 .. Len(toNative) /\ toNative'[i] = toNative[i + 1]
            BY <3>1, TakeAnswer DEF TunInv
        <3>3. \A i \in 1 .. Len(toNative') : i + 1 \in 1 .. Len(toNative)
            BY <3>2
        <3>4. toNative' \in Seq(Answers)
            BY <3>1, TakeAnswer DEF TunInv
        <3> QED BY <2>1, <3>2, <3>3, <3>4
    <2>2. CASE SkipQuery
        BY <2>2 DEF TunInv, TunTypeOK
    <2> QED BY <2>1, <2>2
<1>5. QueryOK' /\ AnswerOK'
    BY <1>3, <1>4, NoOpenTun
<1>6. DeviceOK'
    BY <1>1, <1>2, DeviceKept DEF TunInv
<1>7. CloseOK'
    BY <1>2, <1>4 DEF TunInv, CloseOK
<1>8. TunTypeOK'
    BY <1>1, <1>2, <1>4 DEF TunInv, TunTypeOK
<1> QED BY <1>2, <1>5, <1>6, <1>7, <1>8 DEF TunInv

\* The device answered with, or kept, is the one in use.
LEMMA TunUp ==
    ASSUME TunInv, KeepTun \/ TakeTun
    PROVE TunInv'
<1> USE DEF KeepTun, TakeTun, serviceVars
<1>1. /\ phase = "opening" /\ toNative # <<>> /\ toNative' = Tail(toNative)
      /\ phase' = "up" /\ todo' = <<>> /\ ~asked' /\ toJava' = toJava
    BY DEF Answered, Reading
<1>2. /\ toNative' \in Seq(Answers) /\ Head(toNative) = toNative[1]
      /\ Head(toNative) \in Answers /\ 1 \in 1 .. Len(toNative)
      /\ \A i \in 1 .. Len(toNative') :
            i + 1 \in 2 .. Len(toNative) /\ toNative'[i] = toNative[i + 1]
    BY <1>1, TakeAnswer DEF TunInv
<1>0. todo' \in Seq(QuerySet)
    BY <1>1, EmptySeq
<1>3. CASE KeepTun
    <2>1. ~Switching /\ fd' = fd /\ open' = open /\ fd # None
        BY <1>3 DEF Answered, Switching
    <2>2. \A i \in 1 .. Len(toJava) : toJava[i].cmd # "OPENTUN"
        BY <1>1, <2>1, NotSwitching DEF TunInv
    <2>3. \A i \in 1 .. Len(toNative) : toNative[i].cmd # "OPENTUN"
        BY <1>1, <2>1, NotSwitching DEF TunInv
    <2>4. open' = {fd'} /\ fd'.cfg = mLastTunCfg' /\ fd' \in Devices
        BY <1>3, <2>1 DEF TunInv, TunTypeOK, DeviceOK
    <2>5. \A i \in 1 .. Len(toNative') : toNative'[i].cmd # "OPENTUN"
        <3>1. \A i \in 1 .. Len(toNative') : i + 1 \in 1 .. Len(toNative)
            BY <1>2
        <3> QED BY <1>2, <2>3, <3>1
    <2>6. QueryOK' /\ AnswerOK'
        BY <1>1, <2>2, <2>5, NoOpenTun
    <2>7. TodoOK' /\ DeviceOK'
        BY <1>1, <2>1, <2>4, NoDeviceAssumption DEF TodoOK, DeviceOK, Switching
    <2>8. CloseOK'
        BY <1>1, <1>2 DEF TunInv, CloseOK, Switching
    <2>9. TunTypeOK'
        BY <1>0, <1>1, <1>2, <1>3 DEF TunInv, TunTypeOK
    <2> QED BY <2>6, <2>7, <2>8, <2>9 DEF TunInv
<1>4. CASE TakeTun
    <2>1. toNative[1].cmd = "OPENTUN" /\ toNative[1].status = "ok" /\ fd' = toNative[1].tun
        BY <1>2, <1>4 DEF Answered
    <2>2. fd' \in Devices /\ fd'.cfg = mLastTunCfg' /\ fd' # None
        BY <1>2, <1>4, <2>1, NoDeviceAssumption DEF TunInv, AnswerOK
    <2>3. open' = {fd'}
        BY <1>2, <1>4, <2>1 DEF TunInv, DeviceOK
    <2>4. \A i \in 1 .. Len(toJava) : toJava[i].cmd # "OPENTUN"
        BY <1>1, <1>2, <2>1 DEF TunInv, QueryOK
    <2>5. \A i \in 1 .. Len(toNative') : toNative'[i].cmd # "OPENTUN"
        BY <1>2, <2>1 DEF TunInv, AnswerOK
    <2>6. QueryOK' /\ AnswerOK'
        BY <1>1, <2>4, <2>5, NoOpenTun
    <2>7. TodoOK' /\ DeviceOK'
        BY <1>1, <2>2, <2>3, NoDeviceAssumption DEF TodoOK, DeviceOK, Switching
    <2>8. CloseOK'
        BY <1>1, <1>2 DEF TunInv, CloseOK, Switching
    <2>9. TunTypeOK'
        BY <1>0, <1>1, <1>2, <1>4, <2>2, <2>3 DEF TunInv, TunTypeOK
    <2> QED BY <2>6, <2>7, <2>8, <2>9 DEF TunInv
<1> QED BY <1>3, <1>4

\* From here on a new device is asked for, the old one being closed where it
\* has to be.
LEMMA ChooseKeeps ==
    ASSUME TunInv, ChooseMethod
    PROVE TunInv'
<1> USE DEF ChooseMethod, serviceVars
<1>1. /\ phase = "opening" /\ toNative # <<>> /\ toNative' = Tail(toNative)
      /\ Head(toNative).cmd = "PERSIST_TUN_ACTION" /\ ~Switching
    BY DEF Answered, Reading, Switching
<1>2. /\ toNative' \in Seq(Answers) /\ Head(toNative) = toNative[1]
      /\ Head(toNative) \in Answers /\ 1 \in 1 .. Len(toNative)
      /\ \A i \in 1 .. Len(toNative') :
            i + 1 \in 1 .. Len(toNative) /\ toNative'[i] = toNative[i + 1]
    BY <1>1, TakeAnswer DEF TunInv
<1>3. /\ \A i \in 1 .. Len(toJava) : toJava[i].cmd # "OPENTUN"
      /\ \A i \in 1 .. Len(toNative) : toNative[i].cmd # "OPENTUN"
    BY <1>1, NotSwitching DEF TunInv
<1>4. QueryOK' /\ AnswerOK'
    BY <1>2, <1>3, NoOpenTun
<1>5. Switching' /\ todo' \in Seq(QuerySet) /\ TodoOK'
    BY <1>1, MessageTypes, OneElement DEF Switching, TodoOK
<1>6. OpenMethod = "OPEN_AFTER_CLOSE" => open' = {}
    BY <1>1, <1>2 DEF TunInv, DeviceOK, CloseOK
<1>7. CloseOK'
    BY <1>2, <1>6 DEF TunInv, CloseOK
<1>8. DeviceOK'
    BY <1>1, <1>5 DEF TunInv, DeviceOK
<1>9. TunTypeOK'
    BY <1>2, <1>5 DEF TunInv, TunTypeOK
<1> QED BY <1>4, <1>5, <1>7, <1>8, <1>9 DEF TunInv

\* SIGUSR1 in transit and on arrival.
LEMMA SignalKeeps ==
    ASSUME TunInv, SendSignal \/ ReadSignal
    PROVE TunInv'
<1> USE DEF SendSignal, ReadSignal, serviceVars, nativeVars
<1>0. toNative \in Seq(Answers) /\ Switching' = Switching
    BY DEF TunInv, TunTypeOK, Switching
<1>1. CASE SendSignal
    <2>1. /\ toNative' \in Seq(Answers) /\ Len(toNative) \in Nat
          /\ \A i \in 1 .. Len(toNative') :
                \/ i \in 1 .. Len(toNative) /\ toNative'[i] = toNative[i]
                \/ toNative'[i] = Usr1
        BY <1>0, <1>1, AppendFacts, MessageTypes
    <2>2. DeviceOK'
        BY <1>0, <1>1, DeviceKept DEF TunInv
    <2>3. QueryOK' /\ AnswerOK' /\ CloseOK'
        BY <1>0, <1>1, <2>1, MessageTypes DEF TunInv, QueryOK, AnswerOK, CloseOK
    <2>4. TunTypeOK' /\ TodoOK'
        BY <1>1, <2>1 DEF TunInv, TunTypeOK, TodoOK
    <2> QED BY <2>2, <2>3, <2>4 DEF TunInv
<1>2. CASE ReadSignal
    <2>0. toNative # <<>> /\ toNative' = Tail(toNative) /\ phase # "dead"
        BY <1>2 DEF Reading
    <2>1. /\ toNative' \in Seq(Answers)
          /\ \A i \in 1 .. Len(toNative') :
                i + 1 \in 1 .. Len(toNative) /\ toNative'[i] = toNative[i + 1]
        <3>1. /\ toNative' \in Seq(Answers) /\ Len(toNative) \in Nat
              /\ \A i \in 1 .. Len(toNative') :
                    i + 1 \in 2 .. Len(toNative) /\ toNative'[i] = toNative[i + 1]
            BY <2>0, TakeAnswer DEF TunInv
        <3> QED BY <3>1
    <2>2. DeviceOK'
        BY <1>0, <1>2, <2>0, DeviceKept DEF TunInv
    <2>3. QueryOK'
        BY <1>0, <1>2, <2>1 DEF TunInv, QueryOK
    <2>4. AnswerOK'
        BY <1>0, <1>2, <2>1 DEF TunInv, AnswerOK
    <2>5. TunTypeOK' /\ TodoOK' /\ CloseOK'
        BY <1>0, <1>2, <2>1 DEF TunInv, TunTypeOK, TodoOK, CloseOK
    <2> QED BY <2>2, <2>3, <2>4, <2>5 DEF TunInv
<1> QED BY <1>1, <1>2

\* A new connection's queries end with PERSIST_TUN_ACTION and hold no OPENTUN.
LEMMA PushKeeps ==
    ASSUME TunInv, ReceivePush
    PROVE TunInv'
<1> USE DEF ReceivePush, serviceVars, channelVars
<1>1. PICK w \in PushedConfigs : want' = w /\ todo' = Queries(w)
    BY DEF ReceivePush
<1>2. PICK p \in Seq(PlainQuerySet) : todo' = Append(p, PersistTunAction)
    <2>1. \E p \in Seq(PlainQuerySet) : Queries(w) = Append(p, PersistTunAction)
        BY QueriesShape
    <2> QED BY <1>1, <2>1
<1>3. /\ p \in Seq(QuerySet) /\ \A i \in 1 .. Len(p) : p[i] \in PlainQuerySet
    BY <1>2, MessageTypes, SeqMonotonic, ElementOfSeq
<1>4. /\ todo' \in Seq(QuerySet) /\ todo' # <<>>
      /\ Len(p) \in Nat /\ Len(todo') = Len(p) + 1
      /\ \A i \in 1 .. Len(p) : todo'[i] = p[i]
      /\ todo'[Len(p) + 1] = PersistTunAction
    BY <1>2, <1>3, AppendFacts, MessageTypes
<1>5. \A q \in PlainQuerySet : q.cmd \in PlainCommands
    BY DEF PlainQuerySet, Query, PlainCommands
<1>6. \A i \in 1 .. Len(todo') : todo'[i].cmd # "OPENTUN"
    BY <1>3, <1>4, <1>5, MessageTypes
<1>7. ~Switching /\ ~Switching'
    <2>1. Head(todo') = todo'[1] /\ 1 \in 1 .. Len(todo')
        BY <1>4, TailFacts
    <2> QED BY <1>6, <2>1 DEF Switching
<1>8. TodoOK'
    BY <1>4, <1>6, MessageTypes DEF TunInv, TodoOK
<1>9. QueryOK' /\ AnswerOK'
    <2>1. /\ \A i \in 1 .. Len(toJava) : toJava[i].cmd # "OPENTUN"
          /\ \A i \in 1 .. Len(toNative) : toNative[i].cmd # "OPENTUN"
        BY <1>7, NotSwitching DEF TunInv
    <2> QED BY <2>1, NoOpenTun
<1>10. DeviceOK' /\ CloseOK'
    BY <1>7 DEF TunInv, DeviceOK, CloseOK
<1>11. w \in Configs
    <2>1. \A d \in {<<>>} \cup {<<s>> : s \in Servers} : d \in Seq(Servers)
        BY EmptySeq, OneElement
    <2> QED BY <2>1 DEF PushedConfigs, Configs
<1>12. TunTypeOK'
    BY <1>1, <1>4, <1>11 DEF TunInv, TunTypeOK
<1> QED BY <1>8, <1>9, <1>10, <1>12 DEF TunInv

\* A connection's or a process's end and the next one's beginning.
LEMMA RestartKeeps ==
    ASSUME TunInv, Restart \/ StartProcess
    PROVE TunInv'
<1> USE DEF Restart, StartProcess, serviceVars, channelVars
<1>1. ~Switching /\ ~Switching' /\ UNCHANGED <<toJava, toNative, todo, asked, want>>
    BY DEF Switching
<1>2. CASE Restart
    <2>1. QueryOK' /\ AnswerOK'
        BY <1>1, <1>2, NotSwitching, NoOpenTun DEF TunInv
    <2>2. DeviceOK' /\ CloseOK'
        BY <1>1, <1>2 DEF TunInv, DeviceOK, CloseOK
    <2>3. TunTypeOK' /\ TodoOK'
        BY <1>2 DEF TunInv, TunTypeOK, TodoOK
    <2> QED BY <2>1, <2>2, <2>3 DEF TunInv
<1>3. CASE StartProcess
    <2>1. toJava = <<>> /\ toNative = <<>> /\ fd' = None
        BY <1>3 DEF TunInv, DeviceOK
    <2>2. QueryOK' /\ AnswerOK'
        BY <1>1, <2>1, NoOpenTun, EmptySeq
    <2>3. DeviceOK' /\ CloseOK'
        BY <1>1, <1>3, <2>1 DEF TunInv, DeviceOK, CloseOK
    <2>4. collected' \in Configs /\ mLastTunCfg' \in Configs \cup {None}
        <3>1. Empty \in Configs
            BY EmptySeq DEF Empty, Configs
        <3> QED BY <1>3, <3>1 DEF TunInv, TunTypeOK
    <2>5. TunTypeOK' /\ TodoOK'
        BY <1>3, <2>4 DEF TunInv, TunTypeOK, TodoOK
    <2> QED BY <2>2, <2>3, <2>5 DEF TunInv
<1> QED BY <1>2, <1>3

--------------------------------------------------------------------------------
LEMMA TunInvHolds == Spec => []TunInv
<1>1. Init => TunInv
    <2> SUFFICES ASSUME Init PROVE TunInv
        OBVIOUS
    <2>1. Empty \in Configs
        BY EmptySeq DEF Empty, Configs
    <2>2. TunTypeOK
        BY <2>1, EmptySeq DEF Init, TunTypeOK
    <2> QED BY <2>2, EmptySeq
            DEF Init, TunInv, TodoOK, DeviceOK, QueryOK, AnswerOK, CloseOK, Switching
<1>2. TunInv /\ [Next]_vars => TunInv'
    <2> SUFFICES ASSUME TunInv, [Next]_vars PROVE TunInv'
        OBVIOUS
    <2>1. CASE ServiceStep
        BY <2>1, ServiceKeeps
    <2>2. CASE NativeStep
        <3>1. CASE NoTunGiven \/ SkipFatal
            BY <2>2, <3>1, GoneKeeps DEF NoTunGiven, SkipFatal
        <3> QED BY <2>2, <3>1, AskKeeps, NextQueryKeeps, TunUp, ChooseKeeps, SignalKeeps
                DEF NativeStep
    <2>3. CASE Exit
        BY <2>3, GoneKeeps DEF Exit, TunInv, TunTypeOK
    <2>4. CASE UNCHANGED vars
        BY <2>4 DEF vars, serviceVars, nativeVars, channelVars, TunInv, TunTypeOK, TodoOK,
                    DeviceOK, QueryOK, AnswerOK, CloseOK, Switching
    <2> QED BY <2>1, <2>2, <2>3, <2>4, SignalKeeps, PushKeeps, RestartKeeps DEF Next
<1> QED BY <1>1, <1>2, PTL DEF Spec

--------------------------------------------------------------------------------
(***************************************************************************)
(* What was pushed reaches the device.  Of every piece of the configuration*)
(* the invariant says where it is: still to be told, told and not yet      *)
(* looked at, collected, or in the device.  It needs that one query is     *)
(* under way at a time, which a pending signal ends: from then on queries  *)
(* overtake their answers, and the process gives up before a device is     *)
(* taken.                                                                  *)
(***************************************************************************)
\* The process waits for the answers to its queries.
Awaited == phase = "opening" /\ ~sig

NoAnswer == \A i \in 1 .. Len(toNative) : toNative[i].cmd = "usr1"

\* The service has still to see the query.
Pending(q) == \E i \in 1 .. Len(todo) : todo[i] = q /\ (i = 1 /\ asked => toJava # <<>>)

\* A query or its answer is under way, not both, and none outside open_tun().
OneAtATime ==
    /\ phase \in {"idle", "up"} => toJava = <<>> /\ NoAnswer
    /\ Awaited =>
          /\ toJava # <<>> => asked /\ toJava = <<Head(todo)>>
          /\ ~asked \/ toJava # <<>> => NoAnswer
          /\ \A i, j \in 1 .. Len(toNative) :
                toNative[i].cmd # "usr1" /\ toNative[j].cmd # "usr1" => i = j

\* The address is told before anything else, and the pieces before the device
\* is asked for.
InOrder ==
    phase = "opening" =>
       \A i \in 1 .. Len(todo) :
          /\ todo[i].cmd = "IFCONFIG" => i = 1 /\ todo[i].arg = want.ip /\ want.ip # None
          /\ todo[i].cmd \notin PlainCommands => i = Len(todo)

\* Every piece is pending or collected; routes are dropped without an address.
Gathered ==
    /\ want.ip # None => Pending(Query("IFCONFIG", want.ip)) \/ collected.ip = want.ip
    /\ \A r \in want.routes :
          \/ Pending(Query("ROUTE", r))
          \/ \E s \in collected.routes : s.net = r.net
          \/ want.ip = None /\ collected.ip = None
    /\ \A i \in 1 .. Len(want.dns) :
          \/ Pending(Query("DNSSERVER", want.dns[i]))
          \/ \E j \in 1 .. Len(collected.dns) : collected.dns[j] = want.dns[i]

\* The configuration has what this connection needs.
Serves(c) ==
    /\ want.ip # None => c.ip = want.ip
    /\ \A r \in want.routes : \E s \in c.routes : s.net = r.net
    /\ \A i \in 1 .. Len(want.dns) : \E j \in 1 .. Len(c.dns) : c.dns[j] = want.dns[i]

\* openTun() resets what is collected, and records it.
GatheredOK == Awaited /\ ~ (Switching /\ asked /\ toJava = <<>>) => Gathered

\* A device is given, or the old one kept, when its configuration serves.
GrantOK ==
    Awaited =>
       \A i \in 1 .. Len(toNative) :
          /\ toNative[i].cmd = "OPENTUN" /\ toNative[i].status = "ok" =>
                Serves(mLastTunCfg) /\ mLastTunCfg.ip # None
          /\ toNative[i].cmd = "PERSIST_TUN_ACTION" /\ toNative[i].status = "NOACTION"
                /\ fd # None => Serves(mLastTunCfg)

\* A device in use has an address.
ServedOK ==
    /\ phase = "up" => Serves(mLastTunCfg)
    /\ fd # None => mLastTunCfg.ip # None

PieceInv == OneAtATime /\ InOrder /\ GatheredOK /\ GrantOK /\ ServedOK

\* When no piece is pending and there is an address, all are collected.
LEMMA AllGathered ==
    ASSUME Gathered, collected.ip # None,
           \A q : q.cmd \in PlainCommands => ~Pending(q)
    PROVE Serves(collected)
<1>1. \A e : /\ Query("IFCONFIG", e).cmd \in PlainCommands
             /\ Query("ROUTE", e).cmd \in PlainCommands
             /\ Query("DNSSERVER", e).cmd \in PlainCommands
    BY DEF Query, PlainCommands
<1> QED BY <1>1 DEF Gathered, Serves

\* Outside open_tun(), and while nothing is awaited, PieceInv says little.
LEMMA NothingAwaited ==
    ASSUME OneAtATime', InOrder', ServedOK', ~Awaited'
    PROVE PieceInv'
BY DEF PieceInv, GatheredOK, GrantOK

\* The end of the list is asked for when nothing else is left.
LEMMA EndIsLast ==
    ASSUME TunTypeOK, TodoOK, InOrder, phase = "opening", Head(todo).cmd \notin PlainCommands
    PROVE Len(todo) = 1 /\ todo[1] = Head(todo) /\ \A q : Pending(q) => q = Head(todo)
<1>1. todo # <<>> /\ todo \in Seq(QuerySet)
    BY DEF TunTypeOK, TodoOK
<1>2. Head(todo) = todo[1] /\ 1 \in 1 .. Len(todo)
    BY <1>1, TailFacts
<1>3. Len(todo) = 1
    BY <1>2 DEF InOrder
<1> QED BY <1>2, <1>3 DEF Pending

\* While it is awaited, the query in the socket is the one at the head of the
\* list; its answer is the only one.
LEMMA ReplyTurn ==
    ASSUME TunInv, PieceInv, toJava # <<>>, NEW st, NEW tun, Reply(st, tun)
    PROVE  /\ phase \notin {"idle", "up"} /\ UNCHANGED nativeVars
           /\ OneAtATime' /\ InOrder'
           /\ Awaited =>
                 /\ asked /\ Head(toJava) = Head(todo) /\ toJava' = <<>>
                 /\ Head(todo) = todo[1] /\ todo # <<>> /\ 1 \in 1 .. Len(todo)
                 /\ \A i \in 1 .. Len(toNative') :
                       \/ toNative'[i].cmd = "usr1"
                       \/ toNative'[i] = Answer(Head(toJava), st, tun)
                 /\ \A q : Pending(q) /\ q # Head(todo) => Pending(q)'
<1> DEFINE e == Answer(Head(toJava), st, tun)
<1>1. phase \notin {"idle", "up"} /\ UNCHANGED nativeVars
    BY DEF PieceInv, OneAtATime, Reply
<1>2. InOrder'
    BY <1>1 DEF nativeVars, PieceInv, InOrder
<1>3. toNative \in Seq(Answers) /\ Len(toNative) \in Nat
    BY LenProperties DEF TunInv, TunTypeOK
<1>4. ASSUME Awaited
      PROVE  /\ asked /\ Head(toJava) = Head(todo) /\ toJava' = <<>>
             /\ NoAnswer /\ toNative' = Append(toNative, e)
    <2>1. asked /\ toJava = <<Head(todo)>> /\ NoAnswer
        BY <1>4 DEF PieceInv, OneAtATime
    <2>2. toJava' = Tail(toJava) /\ toNative' = Append(toNative, e)
        BY <1>4 DEF Reply, Awaited
    <2> QED BY <2>1, <2>2
<1>5. ASSUME Awaited
      PROVE  /\ Len(toNative') = Len(toNative) + 1
             /\ \A i \in 1 .. Len(toNative') :
                   \/ i \in 1 .. Len(toNative) /\ toNative'[i].cmd = "usr1"
                   \/ i = Len(toNative) + 1 /\ toNative'[i] = e
    <2>1. NoAnswer /\ toNative' = Append(toNative, e)
        BY <1>4, <1>5
    <2> HIDE DEF e
    <2>2. Len(toNative') = Len(toNative) + 1 /\ toNative'[Len(toNative) + 1] = e
          /\ \A i \in 1 .. Len(toNative) : toNative'[i] = toNative[i]
        BY <1>3, <2>1
    <2> QED BY <1>3, <2>1, <2>2 DEF NoAnswer
<1>6. OneAtATime'
    BY <1>1, <1>3, <1>4, <1>5 DEF OneAtATime, Awaited, nativeVars
<1>7. Awaited => todo # <<>> /\ Head(todo) = todo[1] /\ 1 \in 1 .. Len(todo)
    BY TailFacts DEF TunInv, TunTypeOK, TodoOK, Awaited
<1>8. Awaited => \A q : Pending(q) /\ q # Head(todo) => Pending(q)'
    BY <1>1, <1>7 DEF Pending, nativeVars
<1> QED BY <1>1, <1>2, <1>4, <1>5, <1>6, <1>7, <1>8

\* A piece looked at: the others stay where they are.
LEMMA PieceTold ==
    ASSUME TunInv, PieceInv, toJava # <<>>, Reply("ok", None), UNCHANGED mLastTunCfg,
           Head(toJava).cmd \in PlainCommands,
           Awaited /\ Gathered => Gathered'
    PROVE PieceInv'
<1>1. phase \notin {"idle", "up"} /\ UNCHANGED nativeVars /\ OneAtATime' /\ InOrder'
    BY ReplyTurn
<1>2. ServedOK'
    BY <1>1 DEF PieceInv, ServedOK, nativeVars, Serves
<1>3. Awaited' = Awaited /\ Switching' = Switching
    BY <1>1 DEF nativeVars, Awaited, Switching
<1>4. CASE ~Awaited
    BY <1>1, <1>2, <1>3, <1>4, NothingAwaited
<1>5. CASE Awaited
    <2>1. /\ Head(toJava) = Head(todo)
          /\ \A i \in 1 .. Len(toNative') :
                toNative'[i].cmd = "usr1" \/ toNative'[i] = Answer(Head(toJava), "ok", None)
        BY <1>5, ReplyTurn
    <2>2. Answer(Head(toJava), "ok", None).cmd \in PlainCommands
        BY DEF Answer
    <2>3. \A i \in 1 .. Len(toNative') :
             toNative'[i].cmd # "OPENTUN" /\ toNative'[i].cmd # "PERSIST_TUN_ACTION"
        BY <2>1, <2>2, MessageTypes
    <2>4. GrantOK'
        BY <2>3 DEF GrantOK
    <2>5. ~Switching
        BY <2>1, MessageTypes DEF Switching
    <2>6. GatheredOK'
        BY <1>3, <1>5, <2>5 DEF PieceInv, GatheredOK
    <2> QED BY <1>1, <1>2, <2>4, <2>6 DEF PieceInv
<1> QED BY <1>4, <1>5

\* The service collects each piece it is told.
LEMMA CollectKeeps ==
    ASSUME TunInv, PieceInv, SetLocalIP \/ AddRoute \/ AddDNS \/ SetDomain
    PROVE PieceInv'
<1> DEFINE q == Head(toJava)
<1>1. /\ toJava # <<>> /\ Reply("ok", None) /\ UNCHANGED mLastTunCfg
      /\ q.cmd \in PlainCommands
    BY DEF SetLocalIP, AddRoute, AddDNS, SetDomain, Need, PlainCommands
<1>2. SUFFICES ASSUME Awaited, Gathered PROVE Gathered'
    BY <1>1, PieceTold
<1>3. /\ UNCHANGED nativeVars /\ q = Head(todo) /\ q = todo[1] /\ 1 \in 1 .. Len(todo)
      /\ \A p : Pending(p) /\ p # q => Pending(p)'
    BY <1>1, <1>2, ReplyTurn
<1>4. want' = want
    BY <1>3 DEF nativeVars
<1>5. \A e : /\ Query("IFCONFIG", e).cmd = "IFCONFIG" /\ Query("IFCONFIG", e).arg = e
             /\ Query("ROUTE", e).cmd = "ROUTE" /\ Query("ROUTE", e).arg = e
             /\ Query("DNSSERVER", e).cmd = "DNSSERVER" /\ Query("DNSSERVER", e).arg = e
    BY DEF Query
<1>6. collected \in Configs
    BY DEF TunInv, TunTypeOK
<1> HIDE DEF q
<1>7. CASE SetLocalIP
    <2>1. q.cmd = "IFCONFIG" /\ collected' = [collected EXCEPT !.ip = q.arg]
        BY <1>7 DEF SetLocalIP, Need, q
    <2>2. q.arg = want.ip /\ want.ip # None
        BY <1>2, <1>3, <2>1 DEF PieceInv, InOrder, Awaited
    <2>3. /\ collected'.ip = want.ip /\ collected'.routes = collected.routes
          /\ collected'.dns = collected.dns
        BY <1>6, <2>1, <2>2 DEF Configs
    <2> QED BY <1>2, <1>3, <1>4, <1>5, <2>1, <2>2, <2>3 DEF Gathered
<1>8. CASE AddRoute
    <2>1. /\ q.cmd = "ROUTE"
          /\ collected' =
                IF collected.ip = None \/ \E r \in collected.routes : r.net = q.arg.net
                THEN collected ELSE [collected EXCEPT !.routes = @ \cup {q.arg}]
        BY <1>8 DEF AddRoute, Need, q
    <2>2. /\ collected'.ip = collected.ip /\ collected.routes \subseteq collected'.routes
          /\ collected'.dns = collected.dns
          /\ collected.ip # None => \E r \in collected'.routes : r.net = q.arg.net
        BY <1>6, <2>1 DEF Configs
    <2>3. want.ip # None => ~Pending(Query("IFCONFIG", want.ip))
        BY <1>2, <1>3, <1>5, <2>1 DEF PieceInv, InOrder, Awaited, Pending
    <2>4. collected.ip = None => want.ip = None
        BY <1>2, <2>3 DEF Gathered
    <2>5. want.ip # None => collected'.ip = want.ip
        BY <1>2, <2>2, <2>3 DEF Gathered
    <2>6. ASSUME NEW r \in want.routes
          PROVE  \/ Pending(Query("ROUTE", r))'
                 \/ \E s \in collected'.routes : s.net = r.net
                 \/ want.ip = None /\ collected'.ip = None
        <3>1. CASE Pending(Query("ROUTE", r)) /\ Query("ROUTE", r) # q
            BY <1>3, <3>1
        <3>2. CASE Query("ROUTE", r) = q
            <4>1. q.arg = r
                BY <1>5, <3>2
            <4> QED BY <2>2, <2>4, <4>1
        <3>3. CASE ~Pending(Query("ROUTE", r))
            BY <1>2, <2>2, <3>3 DEF Gathered
        <3> QED BY <3>1, <3>2, <3>3
    <2>7. \A i \in 1 .. Len(want.dns) :
             \/ Pending(Query("DNSSERVER", want.dns[i]))'
             \/ \E j \in 1 .. Len(collected'.dns) : collected'.dns[j] = want.dns[i]
        <3>1. \A e : Pending(Query("DNSSERVER", e)) => Pending(Query("DNSSERVER", e))'
            BY <1>3, <1>5, <2>1
        <3> QED BY <1>2, <1>4, <2>2, <3>1 DEF Gathered
    <2> QED BY <1>4, <2>5, <2>6, <2>7 DEF Gathered
<1>9. CASE AddDNS
    <2>1. q.cmd = "DNSSERVER" /\ collected' = [collected EXCEPT !.dns = Append(@, q.arg)]
        BY <1>9 DEF AddDNS, Need, q
    <2>2. /\ collected'.ip = collected.ip /\ collected'.routes = collected.routes
          /\ collected'.dns = Append(collected.dns, q.arg)
        BY <1>6, <2>1 DEF Configs
    <2>3. collected.dns \in Seq(Servers) /\ q.arg \in Servers
        <3>1. q \in QuerySet
            BY <1>1, TailFacts DEF TunInv, TunTypeOK, q
        <3> QED BY <1>6, <2>1, <3>1, QueryTypes DEF Configs
    <2>4. /\ Len(collected.dns) \in Nat /\ Len(collected'.dns) = Len(collected.dns) + 1
          /\ \A i \in 1 .. Len(collected.dns) : collected'.dns[i] = collected.dns[i]
          /\ collected'.dns[Len(collected.dns) + 1] = q.arg
        BY <2>2, <2>3, AppendFacts
    <2>5. ASSUME NEW i \in 1 .. Len(want.dns)
          PROVE  \/ Pending(Query("DNSSERVER", want.dns[i]))'
                 \/ \E j \in 1 .. Len(collected'.dns) : collected'.dns[j] = want.dns[i]
        <3>1. CASE Query("DNSSERVER", want.dns[i]) = q
            <4>1. q.arg = want.dns[i]
                BY <1>5, <3>1
            <4>2. Len(collected.dns) + 1 \in 1 .. Len(collected'.dns)
                BY <2>4
            <4> QED BY <2>4, <4>1, <4>2
        <3>2. CASE Pending(Query("DNSSERVER", want.dns[i])) /\ Query("DNSSERVER", want.dns[i]) # q
            BY <1>3, <1>4, <3>2
        <3>3. CASE ~Pending(Query("DNSSERVER", want.dns[i]))
            <4>1. PICK j \in 1 .. Len(collected.dns) : collected.dns[j] = want.dns[i]
                BY <1>2, <3>3 DEF Gathered
            <4>2. j \in 1 .. Len(collected'.dns) /\ collected'.dns[j] = want.dns[i]
                BY <2>4, <4>1
            <4> QED BY <4>2
        <3> QED BY <3>1, <3>2, <3>3
    <2>6. \A r : Pending(Query("ROUTE", r)) => Pending(Query("ROUTE", r))'
        BY <1>3, <1>5, <2>1
    <2>7. \A e : Pending(Query("IFCONFIG", e)) => Pending(Query("IFCONFIG", e))'
        BY <1>3, <1>5, <2>1
    <2> QED BY <1>2, <1>4, <2>2, <2>5, <2>6, <2>7 DEF Gathered
<1>10. CASE SetDomain
    <2>1. /\ q.cmd = "DNSDOMAIN" /\ collected'.ip = collected.ip
          /\ collected'.routes = collected.routes /\ collected'.dns = collected.dns
        BY <1>6, <1>10 DEF SetDomain, Need, q, Configs
    <2> QED BY <1>2, <1>3, <1>4, <1>5, <2>1 DEF Gathered
<1> QED BY <1>7, <1>8, <1>9, <1>10

\* A refused or a new device, and the old one kept, are granted in turn.
LEMMA GrantKeeps ==
    ASSUME TunInv, PieceInv, AnswerReopen \/ OpenTunRefused \/ OpenTun
    PROVE PieceInv'
<1> DEFINE q == Head(toJava)
<1>1. PICK st, tun : Reply(st, tun)
    BY DEF AnswerReopen, OpenTunRefused, OpenTun
<1>2. toJava # <<>> /\ q.cmd \notin PlainCommands
    BY MessageTypes DEF AnswerReopen, OpenTunRefused, OpenTun, Need
<1>3. /\ phase \notin {"idle", "up"} /\ UNCHANGED nativeVars /\ OneAtATime' /\ InOrder'
      /\ Awaited =>
            /\ asked /\ q = Head(todo) /\ toJava' = <<>>
            /\ \A p : Pending(p) /\ p # q => Pending(p)'
    BY <1>1, <1>2, ReplyTurn
<1>4. Awaited' = Awaited /\ Switching' = Switching /\ UNCHANGED <<phase, fd, want, asked>>
    BY <1>3 DEF nativeVars, Awaited, Switching
<1>5. mLastTunCfg' # mLastTunCfg => OpenTun /\ mLastTunCfg'.ip # None
    BY DEF AnswerReopen, OpenTunRefused, OpenTun, serviceVars
<1>6. ServedOK'
    BY <1>3, <1>4, <1>5 DEF PieceInv, ServedOK
<1>7. CASE ~Awaited
    BY <1>3, <1>4, <1>6, <1>7, NothingAwaited
<1>8. CASE Awaited
    <2>1. phase = "opening" /\ Head(todo) = q /\ asked /\ toJava' = <<>>
        BY <1>3, <1>8 DEF Awaited
    <2>2. \A p : Pending(p) => p = q
        BY <1>2, <2>1, EndIsLast DEF TunInv, PieceInv
    <2>3. \A p : p.cmd \in PlainCommands => ~Pending(p)
        BY <1>2, <2>2
    <2>4. Gathered
        BY <1>2, <1>8 DEF PieceInv, GatheredOK
    <2>5. collected.ip # None => Serves(collected)
        BY <2>3, <2>4, AllGathered
    <2>6. \A s, t, i : Reply(s, t) /\ i \in 1 .. Len(toNative') =>
             \/ toNative'[i].cmd = "usr1"
             \/ /\ toNative'[i] = Answer(q, s, t)
                /\ toNative'[i].cmd = q.cmd /\ toNative'[i].status = s
        BY <1>2, <1>8, ReplyTurn DEF Answer
    <2>7. CASE AnswerReopen
        <3>1. /\ q.cmd = "PERSIST_TUN_ACTION" /\ Reply(TunReopenStatus, None)
              /\ UNCHANGED <<collected, mLastTunCfg>>
            BY <2>7 DEF AnswerReopen, Need, serviceVars
        <3>2. TunReopenStatus = "NOACTION" => collected = mLastTunCfg
            BY OpenMethodAssumption DEF TunReopenStatus
        <3>3. TunReopenStatus = "NOACTION" /\ fd # None => Serves(mLastTunCfg)
            BY <2>5, <3>2 DEF PieceInv, ServedOK
        <3>4. Serves(mLastTunCfg) => Serves(mLastTunCfg)'
            BY <1>4, <3>1 DEF Serves
        <3>5. GrantOK'
            BY <1>4, <2>6, <3>1, <3>3, <3>4 DEF GrantOK
        <3>6. Gathered'
            <4>1. \A p : Pending(p) /\ p.cmd \in PlainCommands => Pending(p)'
                BY <2>3
            <4> QED BY <1>4, <2>3, <2>4, <3>1, <4>1 DEF Gathered, Query, PlainCommands
        <3> QED BY <1>3, <1>6, <3>5, <3>6 DEF PieceInv, GatheredOK
    <2>8. CASE OpenTunRefused
        <3>1. q.cmd = "OPENTUN" /\ Reply("cancel", None)
            BY <2>8 DEF OpenTunRefused, Need
        <3>2. GrantOK'
            BY <2>6, <3>1 DEF GrantOK
        <3>3. GatheredOK'
            BY <1>4, <2>1, <3>1 DEF GatheredOK, Switching
        <3> QED BY <1>3, <1>6, <3>2, <3>3 DEF PieceInv
    <2>9. CASE OpenTun
        <3>1. /\ q.cmd = "OPENTUN" /\ mLastTunCfg' = collected /\ collected.ip # None
              /\ \/ Reply("ok", Device(collected))
                 \/ Reply("cancel", None)
            BY <2>9 DEF OpenTun, Need
        <3>2. Serves(mLastTunCfg)' /\ mLastTunCfg'.ip # None
            BY <1>4, <2>5, <3>1 DEF Serves
        <3>3. GrantOK'
            BY <2>6, <3>1, <3>2 DEF GrantOK
        <3>4. GatheredOK'
            BY <1>4, <2>1, <3>1 DEF GatheredOK, Switching
        <3> QED BY <1>3, <1>6, <3>3, <3>4 DEF PieceInv
    <2> QED BY <2>7, <2>8, <2>9
<1> QED BY <1>7, <1>8

\* Once its answer is read, nothing is under way.
LEMMA AnswerTurn ==
    ASSUME TunInv, PieceInv, NEW cmd, cmd # "usr1", Answered(cmd), toNative' = Tail(toNative)
    PROVE  /\ Awaited /\ asked /\ toJava = <<>> /\ NoAnswer'
           /\ Head(toNative) = toNative[1] /\ 1 \in 1 .. Len(toNative)
           /\ todo # <<>> /\ Head(todo) = todo[1] /\ 1 \in 1 .. Len(todo)
<1>1. Awaited /\ asked /\ toNative # <<>> /\ Head(toNative).cmd = cmd
    BY DEF Answered, Reading, Awaited
<1>2. /\ Head(toNative) = toNative[1] /\ 1 \in 1 .. Len(toNative)
      /\ \A i \in 1 .. Len(toNative') :
            i + 1 \in 2 .. Len(toNative) /\ toNative'[i] = toNative[i + 1]
    BY <1>1, TakeAnswer DEF TunInv
<1>3. ~NoAnswer
    BY <1>1, <1>2 DEF NoAnswer
<1>4. toJava = <<>>
    BY <1>1, <1>3 DEF PieceInv, OneAtATime
<1>5. ASSUME NEW i \in 1 .. Len(toNative')
      PROVE toNative'[i].cmd = "usr1"
    <2>1. i + 1 \in 1 .. Len(toNative) /\ i + 1 # 1 /\ toNative'[i] = toNative[i + 1]
        BY <1>2
    <2> QED BY <1>1, <1>2, <2>1 DEF PieceInv, OneAtATime
<1>6. NoAnswer'
    BY <1>5 DEF NoAnswer
<1>7. todo # <<>> /\ todo \in Seq(QuerySet)
    BY <1>1 DEF TunInv, TunTypeOK, TodoOK, Awaited
<1> QED BY <1>1, <1>2, <1>4, <1>6, <1>7, TailFacts

\* A query sent is pending until the service has looked at it.
LEMMA AskTells ==
    ASSUME TunInv, PieceInv, Ask
    PROVE PieceInv'
<1> USE DEF Ask, serviceVars
<1>1. UNCHANGED <<phase, want, todo, sig, fd, collected, mLastTunCfg, toNative>> /\ asked'
    OBVIOUS
<1>2. Awaited' = Awaited /\ phase = "opening"
    BY DEF Awaited
<1>3. InOrder' /\ ServedOK'
    BY <1>1 DEF PieceInv, InOrder, ServedOK, Serves
<1>4. Awaited => toJava = <<>> /\ NoAnswer /\ toJava' = <<Head(todo)>>
    <2>1. Awaited => toJava = <<>> /\ NoAnswer
        BY DEF PieceInv, OneAtATime
    <2>2. toJava' = Append(toJava, Head(todo))
        OBVIOUS
    <2> QED BY <2>1, <2>2
<1>5. OneAtATime'
    BY <1>1, <1>2, <1>4 DEF PieceInv, OneAtATime, NoAnswer
<1>6. GrantOK'
    BY <1>1, <1>2, <1>4 DEF GrantOK, NoAnswer
<1>7. ASSUME Awaited PROVE Gathered'
    <2>1. Gathered
        BY <1>7 DEF PieceInv, GatheredOK
    <2>2. \A q : Pending(q) => Pending(q)'
        BY <1>1, <1>4, <1>7 DEF Pending
    <2> QED BY <1>1, <2>1, <2>2 DEF Gathered
<1> QED BY <1>2, <1>3, <1>5, <1>6, <1>7 DEF PieceInv, GatheredOK

\* With the next query the one before has left the list.
LEMMA NextTells ==
    ASSUME TunInv, PieceInv, NextQuery \/ SkipQuery
    PROVE PieceInv'
<1> USE DEF NextQuery, SkipQuery, serviceVars, channelVars
<1>1. /\ phase = "opening" /\ Head(todo).cmd \in PlainCommands
      /\ todo' = Tail(todo) /\ ~asked' /\ toJava' = toJava
      /\ UNCHANGED <<phase, want, sig, fd, collected, mLastTunCfg>>
    BY DEF Answered
<1>2. ~Switching /\ ~Switching' /\ Awaited' = Awaited
    BY <1>1, NextTodo DEF TunInv, Awaited
<1>3. todo # <<>> /\ todo \in Seq(QuerySet) /\ Len(todo) \in Nat
    BY <1>1, LenProperties DEF TunInv, TunTypeOK, TodoOK
<1>4. /\ Len(todo') = Len(todo) - 1
      /\ \A i \in 1 .. Len(todo') : i + 1 \in 2 .. Len(todo) /\ todo'[i] = todo[i + 1]
    BY <1>1, <1>3, TailFacts
<1>5. InOrder'
    <2> SUFFICES ASSUME NEW i \in 1 .. Len(todo')
                 PROVE  /\ todo'[i].cmd # "IFCONFIG"
                        /\ todo'[i].cmd \notin PlainCommands => i = Len(todo')
        BY DEF InOrder
    <2>1. i + 1 \in 1 .. Len(todo) /\ i + 1 # 1 /\ todo'[i] = todo[i + 1]
        BY <1>3, <1>4
    <2>2. /\ todo[i + 1].cmd # "IFCONFIG"
          /\ todo[i + 1].cmd \notin PlainCommands => i + 1 = Len(todo)
        BY <1>1, <2>1 DEF PieceInv, InOrder
    <2> QED BY <1>3, <1>4, <2>1, <2>2
<1>6. ServedOK'
    BY <1>1 DEF PieceInv, ServedOK, Serves
<1>7. CASE SkipQuery
    BY <1>1, <1>2, <1>5, <1>6, <1>7, NothingAwaited DEF Awaited, OneAtATime
<1>8. CASE NextQuery
    <2>1. Awaited /\ asked /\ toJava = <<>> /\ NoAnswer'
        <3>1. \E cmd \in PlainCommands : Answered(cmd)
            BY <1>8
        <3>2. \A cmd \in PlainCommands : cmd # "usr1"
            BY DEF PlainCommands
        <3> QED BY <1>8, <3>1, <3>2, AnswerTurn
    <2>2. OneAtATime'
        BY <1>1, <2>1 DEF OneAtATime, NoAnswer
    <2>3. GrantOK'
        BY <2>1 DEF GrantOK, NoAnswer
    <2>4. \A q : Pending(q) => Pending(q)'
        <3>1. \A j \in 2 .. Len(todo) : j - 1 \in 1 .. Len(todo') /\ todo'[j - 1] = todo[j]
            BY <1>3, <1>4
        <3>2. ASSUME NEW q, Pending(q) PROVE \E i \in 1 .. Len(todo') : todo'[i] = q
            <4>1. PICK i \in 1 .. Len(todo) : todo[i] = q /\ i # 1
                BY <2>1, <3>2 DEF Pending
            <4>2. i \in 2 .. Len(todo)
                BY <4>1
            <4> QED BY <3>1, <4>1, <4>2
        <3> QED BY <1>1, <3>2 DEF Pending
    <2>5. Gathered'
        BY <1>1, <1>2, <2>1, <2>4 DEF PieceInv, GatheredOK, Gathered
    <2> QED BY <1>5, <1>6, <2>2, <2>3, <2>5 DEF PieceInv, GatheredOK
<1> QED BY <1>7, <1>8

\* The device kept or taken serves the connection.
LEMMA UpServes ==
    ASSUME TunInv, PieceInv, KeepTun \/ TakeTun
    PROVE PieceInv'
<1> USE DEF KeepTun, TakeTun, serviceVars
<1>1. PICK cmd \in {"PERSIST_TUN_ACTION", "OPENTUN"} :
         /\ Answered(cmd)
         /\ cmd = "PERSIST_TUN_ACTION" => Head(toNative).status = "NOACTION" /\ fd # None /\ fd' = fd
         /\ cmd = "OPENTUN" => Head(toNative).status = "ok"
    OBVIOUS
<1>2. /\ phase' = "up" /\ ~asked' /\ toNative' = Tail(toNative)
      /\ UNCHANGED <<want, collected, mLastTunCfg, toJava>>
    OBVIOUS
<1>3. /\ Awaited /\ toJava = <<>> /\ NoAnswer'
      /\ Head(toNative) = toNative[1] /\ 1 \in 1 .. Len(toNative)
    BY <1>1, <1>2, AnswerTurn
<1>4. toNative[1].cmd = cmd
    BY <1>1, <1>3 DEF Answered
<1>5. Serves(mLastTunCfg)
    BY <1>1, <1>3, <1>4 DEF PieceInv, GrantOK
<1>6. mLastTunCfg.ip # None
    BY <1>1, <1>3, <1>4 DEF PieceInv, GrantOK, ServedOK
<1>7. ServedOK'
    BY <1>2, <1>5, <1>6 DEF ServedOK, Serves
<1>8. OneAtATime' /\ InOrder' /\ ~Awaited'
    BY <1>2, <1>3 DEF OneAtATime, InOrder, Awaited
<1> QED BY <1>7, <1>8, NothingAwaited

\* When the device is asked for nothing is pending any more.
LEMMA ChooseGathered ==
    ASSUME TunInv, PieceInv, ChooseMethod
    PROVE PieceInv'
<1> USE DEF ChooseMethod, serviceVars
<1>1. /\ Answered("PERSIST_TUN_ACTION") /\ todo' = <<OpenTunQuery>> /\ ~asked'
      /\ toNative' = Tail(toNative)
      /\ UNCHANGED <<phase, want, sig, fd, collected, mLastTunCfg, toJava>>
    OBVIOUS
<1>2. Awaited /\ asked /\ toJava = <<>> /\ NoAnswer'
    BY <1>1, AnswerTurn
<1>3. phase = "opening" /\ Head(todo).cmd = "PERSIST_TUN_ACTION" /\ Awaited'
    BY <1>1, <1>2 DEF Answered, Awaited
<1>4. Len(todo) = 1
    BY <1>3, EndIsLast, MessageTypes DEF TunInv, PieceInv
<1>5. \A q : ~Pending(q)
    BY <1>2, <1>4 DEF Pending
<1>6. Gathered'
    <2>1. Gathered
        BY <1>2, <1>3 DEF PieceInv, GatheredOK, Switching
    <2> QED BY <1>1, <1>5, <2>1 DEF Gathered
<1>7. OneAtATime'
    BY <1>1, <1>2, <1>3 DEF OneAtATime, NoAnswer
<1>8. InOrder'
    BY <1>1, MessageTypes DEF InOrder
<1>9. GrantOK'
    BY <1>2 DEF GrantOK, NoAnswer
<1>10. ServedOK'
    BY <1>1 DEF PieceInv, ServedOK, Serves
<1> QED BY <1>6, <1>7, <1>8, <1>9, <1>10 DEF PieceInv, GatheredOK

\* A signal in transit is no answer; once it has arrived none is awaited.
LEMMA SignalTells ==
    ASSUME TunInv, PieceInv, SendSignal \/ ReadSignal
    PROVE PieceInv'
<1> USE DEF SendSignal, ReadSignal, serviceVars, nativeVars
<1>1. UNCHANGED <<phase, want, todo, asked, fd, collected, mLastTunCfg, toJava>>
    OBVIOUS
<1>2. InOrder' /\ ServedOK'
    BY <1>1 DEF PieceInv, InOrder, ServedOK, Serves
<1>3. toNative \in Seq(Answers)
    BY DEF TunInv, TunTypeOK
<1>4. CASE SendSignal
    <2>1. /\ toNative' = Append(toNative, Usr1) /\ Awaited' = Awaited /\ Switching' = Switching
        BY <1>4 DEF Awaited, Switching
    <2>2. /\ Len(toNative) \in Nat /\ Len(toNative') = Len(toNative) + 1
          /\ \A i \in 1 .. Len(toNative') :
                \/ i \in 1 .. Len(toNative) /\ toNative'[i] = toNative[i]
                \/ toNative'[i] = Usr1
        BY <1>3, <2>1, AppendFacts, MessageTypes
    <2>3. NoAnswer => NoAnswer'
        BY <2>2, MessageTypes DEF NoAnswer
    <2>4. \A i, j \in 1 .. Len(toNative) :
             Awaited /\ toNative[i].cmd # "usr1" /\ toNative[j].cmd # "usr1" => i = j
        BY DEF PieceInv, OneAtATime
    <2>5. \A i, j \in 1 .. Len(toNative') :
             Awaited /\ toNative'[i].cmd # "usr1" /\ toNative'[j].cmd # "usr1" => i = j
        BY <2>2, <2>4, MessageTypes
    <2>6. OneAtATime'
        BY <1>1, <2>1, <2>3, <2>5 DEF PieceInv, OneAtATime
    <2>7. GrantOK'
        BY <1>1, <2>1, <2>2, MessageTypes DEF PieceInv, GrantOK, Serves
    <2>8. GatheredOK'
        BY <1>1, <2>1 DEF PieceInv, GatheredOK, Gathered, Pending
    <2> QED BY <1>2, <2>6, <2>7, <2>8 DEF PieceInv
<1>5. CASE ReadSignal
    <2>1. ~Awaited' /\ toNative # <<>> /\ toNative' = Tail(toNative)
        BY <1>5 DEF Awaited, Reading
    <2>2. \A i \in 1 .. Len(toNative') :
             i + 1 \in 2 .. Len(toNative) /\ toNative'[i] = toNative[i + 1]
        BY <2>1, TakeAnswer DEF TunInv
    <2>3. \A i \in 1 .. Len(toNative') : i + 1 \in 1 .. Len(toNative)
        BY <2>2
    <2>4. NoAnswer => NoAnswer'
        BY <2>2, <2>3 DEF NoAnswer
    <2>5. OneAtATime'
        BY <1>1, <2>1, <2>4 DEF PieceInv, OneAtATime
    <2> QED BY <1>2, <2>1, <2>5, NothingAwaited
<1> QED BY <1>4, <1>5

\* All pieces of a new connection's configuration are to be told.
LEMMA PushTells ==
    ASSUME TunInv, PieceInv, ReceivePush
    PROVE PieceInv'
<1> USE DEF ReceivePush, serviceVars, channelVars
<1>1. PICK w \in PushedConfigs : want' = w /\ todo' = Queries(w)
    OBVIOUS
<1>2. PICK p \in Seq(PlainQuerySet) :
         /\ Queries(w) = Append(p, PersistTunAction)
         /\ w.ip # None => \E i \in 1 .. Len(p) : p[i] = Query("IFCONFIG", w.ip)
         /\ \A r \in w.routes : \E i \in 1 .. Len(p) : p[i] = Query("ROUTE", r)
         /\ \A k \in 1 .. Len(w.dns) :
               \E i \in 1 .. Len(p) : p[i] = Query("DNSSERVER", w.dns[k])
         /\ \A i \in 1 .. Len(p) : p[i].cmd = "IFCONFIG" =>
               i = 1 /\ p[i].arg = w.ip /\ w.ip # None
    BY QueriesShape
<1>3. phase = "idle" /\ phase' = "opening"
      /\ UNCHANGED <<asked, sig, fd, collected, mLastTunCfg, toJava, toNative>>
    OBVIOUS
<1>4. ~asked /\ toJava = <<>> /\ NoAnswer
    BY <1>3 DEF TunInv, TodoOK, PieceInv, OneAtATime
<1>5. /\ \A i \in 1 .. Len(p) : p[i].cmd \in PlainCommands
      /\ p \in Seq(QuerySet)
    <2>1. \A q \in PlainQuerySet : q.cmd \in PlainCommands
        BY DEF PlainQuerySet, Query, PlainCommands
    <2> QED BY <2>1, MessageTypes, SeqMonotonic, ElementOfSeq
<1>6. /\ Len(p) \in Nat /\ Len(todo') = Len(p) + 1
      /\ \A i \in 1 .. Len(p) : i \in 1 .. Len(todo') /\ todo'[i] = p[i]
      /\ todo'[Len(p) + 1] = PersistTunAction
    <2>1. todo' = Append(p, PersistTunAction)
        BY <1>1, <1>2
    <2>2. /\ Len(p) \in Nat /\ Len(todo') = Len(p) + 1
          /\ \A i \in 1 .. Len(p) : todo'[i] = p[i]
          /\ todo'[Len(p) + 1] = PersistTunAction
        BY <1>5, <2>1, AppendFacts, MessageTypes
    <2> QED BY <2>2
<1>7. \A q : (\E i \in 1 .. Len(p) : p[i] = q) => Pending(q)'
    <2>1. ~asked'
        BY <1>3, <1>4
    <2> QED BY <1>6, <2>1 DEF Pending
<1>8. Gathered'
    <2>1. want'.ip # None => Pending(Query("IFCONFIG", w.ip))'
        BY <1>1, <1>2, <1>7
    <2>2. \A r \in want'.routes : Pending(Query("ROUTE", r))'
        BY <1>1, <1>2, <1>7
    <2>3. \A k \in 1 .. Len(want'.dns) : Pending(Query("DNSSERVER", w.dns[k]))'
        BY <1>1, <1>2, <1>7
    <2> QED BY <1>1, <2>1, <2>2, <2>3 DEF Gathered
<1>9. InOrder'
    <2> SUFFICES ASSUME NEW i \in 1 .. Len(todo')
                 PROVE  /\ todo'[i].cmd = "IFCONFIG" =>
                              i = 1 /\ todo'[i].arg = want'.ip /\ want'.ip # None
                        /\ todo'[i].cmd \notin PlainCommands => i = Len(todo')
        BY DEF InOrder
    <2>1. CASE i \in 1 .. Len(p)
        BY <1>1, <1>2, <1>5, <1>6, <2>1
    <2>2. CASE i = Len(p) + 1
        BY <1>6, <2>2, MessageTypes
    <2> QED BY <1>6, <2>1, <2>2
<1>10. OneAtATime' /\ GrantOK'
    BY <1>3, <1>4 DEF OneAtATime, GrantOK, NoAnswer
<1>11. ServedOK'
    BY <1>3 DEF PieceInv, ServedOK
<1> QED BY <1>8, <1>9, <1>10, <1>11 DEF PieceInv, GatheredOK

\* A connection's or a process's end and a process's beginning.
LEMMA EndTells ==
    ASSUME TunInv, PieceInv,
           \/ Restart \/ StartProcess
           \/ Gone /\ UNCHANGED <<want, serviceVars, toJava>>
    PROVE PieceInv'
<1> USE DEF serviceVars, channelVars
<1>1. CASE Restart
    <2>1. /\ phase \in {"idle", "up"} /\ phase' = "idle"
          /\ UNCHANGED <<collected, mLastTunCfg, toJava, toNative>>
          /\ fd' # None => fd # None
        BY <1>1 DEF Restart
    <2>2. OneAtATime' /\ InOrder' /\ ServedOK' /\ ~Awaited'
        BY <2>1 DEF PieceInv, OneAtATime, InOrder, ServedOK, Awaited, NoAnswer
    <2> QED BY <2>2, NothingAwaited
<1>2. CASE StartProcess
    <2>1. phase' = "idle" /\ toJava' = <<>> /\ toNative' = <<>> /\ fd' = None
        BY <1>2 DEF StartProcess, TunInv, DeviceOK
    <2>2. OneAtATime' /\ InOrder' /\ ServedOK' /\ ~Awaited'
        BY <2>1, EmptySeq DEF OneAtATime, InOrder, ServedOK, Awaited, NoAnswer
    <2> QED BY <2>2, NothingAwaited
<1>3. CASE Gone
    <2>1. OneAtATime' /\ InOrder' /\ ServedOK' /\ ~Awaited'
        BY <1>3 DEF Gone, OneAtATime, InOrder, ServedOK, Awaited
    <2> QED BY <2>1, NothingAwaited
<1> QED BY <1>1, <1>2, <1>3

LEMMA PieceInvHolds == Spec => []PieceInv
<1>1. Init => PieceInv
    BY EmptySeq DEF Init, PieceInv, OneAtATime, InOrder, GatheredOK, GrantOK, ServedOK,
                    Awaited, NoAnswer
<1>2. TunInv /\ PieceInv /\ [Next]_vars => PieceInv'
    <2> SUFFICES ASSUME TunInv, PieceInv, [Next]_vars PROVE PieceInv'
        OBVIOUS
    <2>1. CASE ServiceStep
        BY <2>1, CollectKeeps, GrantKeeps DEF ServiceStep
    <2>2. CASE NativeStep
        <3>1. CASE NoTunGiven \/ SkipFatal
            BY <3>1, EndTells DEF NoTunGiven, SkipFatal
        <3> QED BY <2>2, <3>1, AskTells, NextTells, UpServes, ChooseGathered, SignalTells
                DEF NativeStep
    <2>3. CASE Exit
        BY <2>3, EndTells DEF Exit
    <2>4. CASE UNCHANGED vars
        BY <2>4 DEF vars, serviceVars, nativeVars, channelVars, PieceInv, OneAtATime, InOrder,
                    GatheredOK, GrantOK, ServedOK, Gathered, Serves, Pending, NoAnswer,
                    Awaited, Switching
    <2> QED BY <2>1, <2>2, <2>3, <2>4, SignalTells, PushTells, EndTells DEF Next
<1> QED BY <1>1, <1>2, TunInvHolds, PTL DEF Spec

--------------------------------------------------------------------------------
\* The service's fields, the process's state and the messages keep their types.
THEOREM TunTypeCorrect == Spec => []TunTypeOK
BY TunInvHolds, PTL DEF TunInv

\* While packets flow exactly one device is open, the one in use.
THEOREM OneDevice == Spec => []OneTun
<1>1. TunInv => OneTun
    BY DEF TunInv, DeviceOK, OneTun, Switching
<1> QED BY <1>1, TunInvHolds, PTL

\* The service remembers the configuration of the device in use.
THEOREM LastDeviceKnown == Spec => []LastIsInUse
<1>1. TunInv => LastIsInUse
    BY DEF TunInv, DeviceOK, LastIsInUse, Switching
<1> QED BY <1>1, TunInvHolds, PTL

\* On Android 4.4 the old device is closed by the time a new one is given.
THEOREM ClosedBeforeOpened == Spec => []ClosedFirst
<1>1. TunInv => ClosedFirst
    <2> SUFFICES ASSUME TunInv, OpenMethod = "OPEN_AFTER_CLOSE",
                        NEW i \in DOMAIN toNative, toNative[i].tun # None
                 PROVE open = {}
        BY DEF ClosedFirst
    <2>1. i \in 1 .. Len(toNative)
        BY LenProperties DEF TunInv, TunTypeOK
    <2> QED BY <2>1 DEF TunInv, AnswerOK, CloseOK
<1> QED BY <1>1, TunInvHolds, PTL
\* The device in use has the address, the networks and the servers pushed for
\* this connection, however the service came to keep or open it.
THEOREM NothingIsMissing == Spec => []NothingMissing
<1>1. TunInv /\ PieceInv => NothingMissing
    <2> SUFFICES ASSUME TunInv, PieceInv, phase = "up" PROVE NothingMissing
        BY DEF NothingMissing
    <2>1. Serves(fd.cfg)
        BY DEF TunInv, DeviceOK, Switching, PieceInv, ServedOK
    <2>2. want.dns \in Seq(Servers) /\ fd.cfg.dns \in Seq(Servers)
        BY DEF TunInv, TunTypeOK, DeviceOK, Devices, Configs
    <2>3. DOMAIN want.dns = 1 .. Len(want.dns) /\ DOMAIN fd.cfg.dns = 1 .. Len(fd.cfg.dns)
        BY <2>2, LenProperties
    <2> QED BY <2>1, <2>3 DEF NothingMissing, Serves
<1> QED BY <1>1, TunInvHolds, PieceInvHolds, PTL
================================================================================
