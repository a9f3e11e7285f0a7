---------------------------- MODULE ServiceLifecycle ---------------------------
(***************************************************************************)
(* Starting and stopping VPN sessions: OpenVPNService, the thread that     *)
(* runs each native process (OpenVPNThread) and the thread that talks to   *)
(* it (OpenVpnManagementThread.run).                                       *)
(*                                                                         *)
(* Session s is the s-th start that passed its checks.  It has a           *)
(* management thread s, a process thread s and a process s; processes find *)
(* a management thread by a path they all share.  onStartCommand() is      *)
(* split where it sleeps, takes mProcessLock or may be overtaken by        *)
(* endVpnService(), which the process threads and onRevoke() run.          *)
(*                                                                         *)
(* A service object is an instance: Android destroys it after stopSelf()   *)
(* and a later start creates the next, while threads of the former live on.*)
(***************************************************************************)
EXTENDS Integers, FiniteSets

CONSTANTS
    MaxStarts,    \* bound: sessions started
    MaxStops,     \* bound: disconnects and revocations
    KilledOnce,   \* bound: whether Android kills the app, and then once
    SleepsSuffice \* TRUE: onStartCommand() sleeps long enough for processes to
                  \* connect, and for those that were told to exit to be gone

ASSUME LifecycleBounds == MaxStarts \in Nat \ {0} /\ MaxStops \in Nat
ASSUME LifecycleSwitch == SleepsSuffice \in BOOLEAN /\ KilledOnce \in BOOLEAN

None == 0
Session == 1 .. MaxStarts
Revoke == 0                       \* the binder thread in onRevoke()
Thread == Session \cup {Revoke}   \* the threads that run endVpnService()

VARIABLES
    pc, cur,                    \* main thread's place in onStartCommand(), its session
    queued,                     \* the start Android has not delivered yet
    instance, stopSelfCalled,   \* the current service object; it is to be destroyed
    mStarting, mProcessThread, mManagement, mDeviceStateReceiver,
    lastConnected,              \* LAST_CONNECTED_PROFILE, as the session it was set for
    inFile,                     \* what the file may hold of it, which is written later
    mgmt, active, listener,     \* management threads, the static list, the socket path
    proc, conn, told,           \* processes, whom they reached, those told to exit
    owner, endPc,               \* endVpnService(): the instance it is for, its place
    stops,                      \* counts towards MaxStops
    killed,                     \* history: Android killed the app at some time
    overlap, missed, hasty,     \* history: see Undisturbed and QuietIsClean
    wanted,                     \* history: no disconnect by the user since the last start
    lost                        \* history: the profile was forgotten, but not yet in the
                                \* file, when Android killed the app

mainVars == <<pc, cur, queued>>
serviceVars == <<instance, stopSelfCalled, mStarting, mProcessThread,
                 mManagement, mDeviceStateReceiver>>
mgmtVars == <<mgmt, active, listener>>
procVars == <<proc, conn, told>>
endVars == <<owner, endPc>>
prefVars == <<lastConnected, inFile, lost>>
historyVars == <<killed, overlap, missed, hasty, wanted>>
vars == <<mainVars, serviceVars, prefVars, mgmtVars, procVars, endVars,
          stops, historyVars>>

\* apply(): the memory changes now, the file some time later.
Apply(v) ==
    /\ lastConnected' = v
    /\ inFile' = inFile \cup {v}
    /\ UNCHANGED lost

ProcState == {"none", "starting", "backlog", "connected", "dead"}
Alive(s) == proc[s] \in {"starting", "backlog", "connected"}
EndStep == {"off", "thread", "unregister", "disconnected", "stopSelf", "done"}
Ending(t) == endPc[t] \notin {"off", "done"}

\* Types of the service, its threads and the processes.
TypeOK ==
    /\ pc \in {"idle", "sleep1", "lock", "sleep2", "clear", "bind", "listen",
               "process", "register", "record"}
    /\ cur \in Session \cup {None}
    /\ queued \in {"no", "start", "nextInstance", "nullIntent"}
    /\ instance \in Nat
    /\ stopSelfCalled \in BOOLEAN /\ mStarting \in BOOLEAN
    /\ {mProcessThread, mManagement, mDeviceStateReceiver, lastConnected, listener}
           \subseteq Session \cup {None}
    /\ inFile \subseteq Session \cup {None}
    /\ mgmt \in [Session -> {"none", "new", "listening", "reading", "gone"}]
    /\ active \subseteq Session
    /\ proc \in [Session -> ProcState]
    /\ conn \in [Session -> Session \cup {None}]
    /\ told \subseteq Session
    /\ owner \in [Thread -> Nat]
    /\ endPc \in [Thread -> EndStep]
    /\ stops \in 0 .. MaxStops
    /\ {killed, overlap, missed, hasty, wanted, lost} \subseteq BOOLEAN

Init ==
    /\ pc = "idle" /\ cur = None /\ queued = "no"
    /\ instance = 0 /\ stopSelfCalled = FALSE /\ mStarting = FALSE
    /\ mProcessThread = None /\ mManagement = None /\ mDeviceStateReceiver = None
    /\ lastConnected = None /\ inFile = {None}
    /\ mgmt = [s \in Session |-> "none"] /\ active = {} /\ listener = None
    /\ proc = [s \in Session |-> "none"] /\ conn = [s \in Session |-> None]
    /\ told = {}
    /\ owner = [t \in Thread |-> 0] /\ endPc = [t \in Thread |-> "off"]
    /\ stops = 0
    /\ killed = FALSE /\ overlap = FALSE /\ missed = FALSE /\ hasty = FALSE /\ wanted = FALSE
    /\ lost = FALSE

--------------------------------------------------------------------------------
(* stopOpenVPN(): SIGINT to every thread in active that has a socket.      *)

Reached == {s \in Session : proc[s] = "connected" /\ conn[s] \in active}

Stop ==
    /\ told' = told \cup Reached
    /\ missed' = (missed \/ \E s \in Session \ (Reached \cup told) : Alive(s))

--------------------------------------------------------------------------------
(* The start, on the main thread.                                          *)

\* startService().  A start sent after stopSelf() reaches the same object only
\* if an activity or a client of the API is bound to it, which keeps it.
StartService(bound) ==
    /\ queued = "no"
    /\ cur < MaxStarts
    /\ IF stopSelfCalled /\ ~bound
       THEN queued' = "nextInstance" /\ UNCHANGED stopSelfCalled
       ELSE queued' = "start" /\ stopSelfCalled' = FALSE
    /\ UNCHANGED <<pc, cur, instance, mStarting, mProcessThread, mManagement,
                   mDeviceStateReceiver, prefVars, mgmtVars, procVars, endVars,
                   stops, historyVars>>

\* onStartCommand(), up to the first sleep.  stopVPN() says whether active was
\* empty, not whether a process was reached.
Begin ==
    /\ pc = "idle"
    /\ queued = "start" \/ (queued = "nullIntent" /\ lastConnected # None)
    /\ cur < MaxStarts
    /\ queued' = "no"
    /\ cur' = cur + 1
    /\ mStarting' = TRUE
    /\ wanted' = TRUE
    /\ IF mManagement # None
       THEN Stop /\ pc' = IF active # {} THEN "sleep1" ELSE "lock"
       ELSE pc' = "lock" /\ UNCHANGED <<told, missed>>
    /\ UNCHANGED <<instance, stopSelfCalled, mProcessThread, mManagement,
                   mDeviceStateReceiver, prefVars, mgmtVars, proc, conn, endVars,
                   stops, killed, overlap, hasty>>

\* A null intent with no profile to restart: stopSelf(startId).
NothingToRestart ==
    /\ pc = "idle" /\ queued = "nullIntent" /\ lastConnected = None
    /\ queued' = "no"
    /\ stopSelfCalled' = TRUE
    /\ UNCHANGED <<pc, cur, instance, mStarting, mProcessThread, mManagement,
                   mDeviceStateReceiver, prefVars, mgmtVars, procVars, endVars,
                   stops, historyVars>>

Settled == \A s \in Session : ~(Alive(s) /\ s \in told) /\ proc[s] \notin {"starting", "backlog"}

\* The sleep after stopVPN().
Sleep1 ==
    /\ pc = "sleep1"
    /\ SleepsSuffice => Settled /\ \A s \in told : ~Ending(s)
    /\ pc' = "lock"
    /\ UNCHANGED <<cur, queued, serviceVars, prefVars, mgmtVars, procVars,
                   endVars, stops, historyVars>>

\* synchronized (mProcessLock): sleeps in it when there is a process thread.
Lock ==
    /\ pc = "lock"
    /\ pc' = IF mProcessThread # None THEN "sleep2" ELSE "clear"
    /\ UNCHANGED <<cur, queued, serviceVars, prefVars, mgmtVars, procVars,
                   endVars, stops, historyVars>>

\* The thread is interrupted, which does not end a read; endVpnService() cannot
\* have passed the lock the main thread holds.
Sleep2 ==
    /\ pc = "sleep2"
    /\ SleepsSuffice => Settled
    /\ pc' = "clear"
    /\ UNCHANGED <<cur, queued, serviceVars, prefVars, mgmtVars, procVars,
                   endVars, stops, historyVars>>

Unfinished(s) == Alive(s) \/ Ending(s)

\* "An old running VPN should now be exited"
ClearStarting ==
    /\ pc = "clear"
    /\ mStarting' = FALSE
    /\ pc' = "bind"
    /\ overlap' = (overlap \/ Ending(Revoke) \/ \E s \in Session : Unfinished(s))
    /\ UNCHANGED <<cur, queued, instance, stopSelfCalled, mProcessThread,
                   mManagement, mDeviceStateReceiver, prefVars, mgmtVars,
                   procVars, endVars, stops, killed, missed, hasty, wanted>>

\* openManagementInterface(): bind() takes the path; what is left of its eight
\* tries fails and sleeps.
Bind ==
    /\ pc = "bind"
    /\ listener' = None
    /\ pc' = "listen"
    /\ UNCHANGED <<cur, queued, serviceVars, prefVars, mgmt, active, procVars,
                   endVars, stops, historyVars>>

Listen ==
    /\ pc = "listen"
    /\ listener' = cur
    /\ mgmt' = [mgmt EXCEPT ![cur] = "new"]
    /\ mManagement' = cur
    /\ pc' = "process"
    /\ UNCHANGED <<cur, queued, instance, stopSelfCalled, mStarting, mProcessThread,
                   mDeviceStateReceiver, prefVars, active, procVars, endVars,
                   stops, historyVars>>

ListenFails ==
    /\ pc = "listen"
    /\ pc' = "idle"
    /\ UNCHANGED <<cur, queued, serviceVars, prefVars, mgmtVars, procVars,
                   endVars, stops, historyVars>>

StartProcessThread ==
    /\ pc = "process"
    /\ mProcessThread' = cur
    /\ proc' = [proc EXCEPT ![cur] = "starting"]
    /\ owner' = [owner EXCEPT ![cur] = instance]
    /\ pc' = "register"
    /\ UNCHANGED <<cur, queued, instance, stopSelfCalled, mStarting, mManagement,
                   mDeviceStateReceiver, prefVars, mgmtVars, conn, told, endPc,
                   stops, historyVars>>

Register ==
    /\ pc = "register"
    /\ mDeviceStateReceiver' = mManagement
    /\ pc' = "record"
    /\ hasty' = (hasty \/ ~Alive(cur))
    /\ UNCHANGED <<cur, queued, instance, stopSelfCalled, mStarting, mProcessThread,
                   mManagement, prefVars, mgmtVars, procVars, endVars,
                   stops, killed, overlap, missed, wanted>>

\* setConnectedVpnProfile()
Record ==
    /\ pc = "record"
    /\ Apply(cur)
    /\ pc' = "idle"
    /\ hasty' = (hasty \/ ~Alive(cur))
    /\ UNCHANGED <<cur, queued, serviceVars, mgmtVars, procVars, endVars, stops,
                   killed, overlap, missed, wanted>>

--------------------------------------------------------------------------------
(* Process s and the threads that serve it.                                *)

\* man_connect(): to whoever listens on the path now, or the process exits.
Connect(s) ==
    /\ proc[s] = "starting"
    /\ listener # None
    /\ proc' = [proc EXCEPT ![s] = "backlog"]
    /\ conn' = [conn EXCEPT ![s] = listener]
    /\ UNCHANGED <<mainVars, serviceVars, prefVars, mgmtVars, told, endVars,
                   stops, historyVars>>

\* At any time: an error, SIGTERM after "management-connect-failed" or
\* "management-exit", or what it was told.  Its thread reads the end of its
\* output and calls processDied().
Exit(s) ==
    /\ Alive(s)
    /\ proc' = [proc EXCEPT ![s] = "dead"]
    /\ endPc' = [endPc EXCEPT ![s] = IF @ = "off" THEN "thread" ELSE @]
    /\ UNCHANGED <<mainVars, serviceVars, prefVars, mgmtVars, conn, told, owner,
                   stops, historyVars>>

\* run(): into active first, then accept().
RegisteredCurrent(m) == active \cup {mManagement}
NotRegistered(m) == active
Registered(m) == active \cup {m}

MgmtRuns(m) ==
    /\ mgmt[m] = "new"
    /\ mgmt' = [mgmt EXCEPT ![m] = "listening"]
    /\ active' = Registered(m)
    /\ UNCHANGED <<mainVars, serviceVars, prefVars, listener, procVars, endVars,
                   stops, historyVars>>

\* accept(), after which the server socket is closed: a second process in the
\* backlog reads the end of its connection, which is how it is told to exit.
NoneRefused(m, s) == {}
Refused(m, s) == {r \in Session \ {s} : proc[r] = "backlog" /\ conn[r] = m}

Accept(m) ==
    \E s \in Session :
        /\ mgmt[m] = "listening"
        /\ proc[s] = "backlog" /\ conn[s] = m
        /\ mgmt' = [mgmt EXCEPT ![m] = "reading"]
        /\ proc' = [proc EXCEPT ![s] = "connected"]
        /\ listener' = IF listener = m THEN None ELSE listener
        /\ told' = told \cup Refused(m, s)
        /\ UNCHANGED <<mainVars, serviceVars, prefVars, active, conn, endVars,
                       stops, historyVars>>

ClientOf(m) == {s \in Session : conn[s] = m /\ proc[s] \in {"connected", "dead"}}

\* The end of the stream, or an exception when stopOpenVPN() closed the socket:
\* only the exception leads to active.remove(this).
StopsReading(m) ==
    /\ mgmt[m] = "reading"
    /\ ClientOf(m) \subseteq told \cup {s \in Session : proc[s] = "dead"}
    /\ mgmt' = [mgmt EXCEPT ![m] = "gone"]
    /\ active' \in {active, active \ {m}}
    /\ UNCHANGED <<mainVars, serviceVars, prefVars, listener, procVars, endVars,
                   stops, historyVars>>

--------------------------------------------------------------------------------
(* endVpnService(), in a process thread or in onRevoke(): what it does to  *)
(* its own instance, and to the profile recorded as connected.             *)

\* Waits while onStartCommand() sleeps with mProcessLock held.
LockFreeAlone(t) == pc # "sleep2" /\ \A u \in Thread \ {t} : ~Ending(u)
LockFree(t) == pc # "sleep2"

EndThread(t) ==
    /\ endPc[t] = "thread"
    /\ LockFree(t)
    /\ mProcessThread' = IF owner[t] = instance THEN None ELSE mProcessThread
    /\ endPc' = [endPc EXCEPT ![t] = "unregister"]
    /\ UNCHANGED <<mainVars, instance, stopSelfCalled, mStarting, mManagement,
                   mDeviceStateReceiver, prefVars, mgmtVars, procVars, owner,
                   stops, historyVars>>

ReceiverKept(t) == mDeviceStateReceiver
ReceiverLeft(t) == IF owner[t] = instance THEN None ELSE mDeviceStateReceiver

EndReceiver(t) ==
    /\ endPc[t] = "unregister"
    /\ mDeviceStateReceiver' = ReceiverLeft(t)
    /\ endPc' = [endPc EXCEPT ![t] = "disconnected"]
    /\ UNCHANGED <<mainVars, instance, stopSelfCalled, mStarting, mProcessThread,
                   mManagement, prefVars, mgmtVars, procVars, owner,
                   stops, historyVars>>

EndRecord(t) ==
    /\ endPc[t] = "disconnected"
    /\ Apply(None)
    /\ endPc' = [endPc EXCEPT ![t] = "stopSelf"]
    /\ UNCHANGED <<mainVars, serviceVars, mgmtVars, procVars, owner, stops,
                   historyVars>>

\* stopSelf() without a start id ends the object whatever is queued for it.
StopsThoughStarting(t) == owner[t] = instance
StopsService(t) == owner[t] = instance /\ ~mStarting

EndService(t) ==
    /\ endPc[t] = "stopSelf"
    /\ stopSelfCalled' = (stopSelfCalled \/ StopsService(t))
    /\ overlap' = (overlap \/ (StopsService(t) /\ queued = "start"))
    /\ endPc' = [endPc EXCEPT ![t] = "done"]
    /\ UNCHANGED <<mainVars, instance, mStarting, mProcessThread, mManagement,
                   mDeviceStateReceiver, prefVars, mgmtVars, procVars, owner,
                   stops, killed, missed, hasty, wanted>>

End(t) == EndThread(t) \/ EndReceiver(t) \/ EndRecord(t) \/ EndService(t)

--------------------------------------------------------------------------------
(* What else stops a session.                                              *)

NotReached == missed' = (missed \/ \E s \in Session \ told : Alive(s))

ProfileKept == UNCHANGED prefVars
ForgetProfile == Apply(None)

\* DisconnectVPN: forgets the profile, then stops through the service if the
\* activity is bound to it by now.
Disconnect(bound) ==
    /\ pc = "idle"
    /\ stops < MaxStops
    /\ stops' = stops + 1
    /\ ForgetProfile
    /\ wanted' = FALSE
    /\ IF bound /\ mManagement # None THEN Stop ELSE NotReached /\ UNCHANGED told
    /\ UNCHANGED <<mainVars, serviceVars, mgmtVars, proc, conn, endVars, killed,
                   overlap, hasty>>

\* disconnect() of the API, or processSignCommand() without a signature.
StopOnly ==
    /\ mManagement # None
    /\ stops < MaxStops
    /\ stops' = stops + 1
    /\ Stop
    /\ UNCHANGED <<mainVars, serviceVars, prefVars, mgmtVars, proc, conn, endVars,
                   killed, overlap, hasty, wanted>>

\* onRevoke(), which Android calls for a VPN that was established.
OnRevoke ==
    /\ endPc[Revoke] = "off"
    /\ mManagement # None
    /\ stops < MaxStops
    /\ stops' = stops + 1
    /\ \E s \in Session : proc[s] = "connected"
    /\ Stop
    /\ owner' = [owner EXCEPT ![Revoke] = instance]
    /\ endPc' = [endPc EXCEPT ![Revoke] = "thread"]
    /\ UNCHANGED <<mainVars, serviceVars, prefVars, mgmtVars, proc, conn,
                   killed, overlap, hasty, wanted>>

Fresh ==
    /\ instance' = instance + 1
    /\ stopSelfCalled' = FALSE /\ mStarting' = FALSE
    /\ mProcessThread' = None /\ mManagement' = None /\ mDeviceStateReceiver' = None

\* onDestroy(), behind the starts already queued for the object.
OnDestroy ==
    /\ pc = "idle" /\ stopSelfCalled /\ queued \in {"no", "nextInstance"}
    /\ IF mProcessThread # None THEN Stop ELSE UNCHANGED <<told, missed>>
    /\ Fresh
    /\ queued' = IF queued = "nextInstance" THEN "start" ELSE "no"
    /\ UNCHANGED <<pc, cur, prefVars, mgmtVars, proc, conn, endVars, stops,
                   killed, overlap, hasty, wanted>>

\* Android kills the app's process: threads and fields are gone, the sockets
\* are closed, the native processes live on.  Of the profile to restart, what was
\* in the file remains.  A sticky start is delivered again with a null intent.
Kill ==
    /\ KilledOnce /\ ~killed /\ cur # None /\ queued = "no"
    /\ killed' = TRUE
    /\ queued' \in {"no"} \cup IF stopSelfCalled THEN {} ELSE {"nullIntent"}
    /\ pc' = "idle"
    /\ Fresh
    /\ mgmt' = [m \in Session |-> IF mgmt[m] = "none" THEN "none" ELSE "gone"]
    /\ active' = {} /\ listener' = None
    /\ told' = told \cup {s \in Session : proc[s] \in {"backlog", "connected"}}
    /\ missed' = (missed \/ \E s \in Session : proc[s] = "starting")
    /\ endPc' = [t \in Thread |->
           IF endPc[t] = "off" /\ (t = Revoke \/ ~Alive(t)) THEN "off" ELSE "done"]
    /\ lastConnected' \in inFile
    /\ inFile' = {lastConnected'}
    /\ lost' = (lastConnected = None /\ lastConnected' # None)
    /\ UNCHANGED <<cur, proc, conn, owner, stops, overlap, hasty, wanted>>

--------------------------------------------------------------------------------
MainStep == Sleep1 \/ Lock \/ Sleep2 \/ ClearStarting \/ Bind \/ Listen \/ ListenFails
            \/ StartProcessThread \/ Register \/ Record
MgmtStep(m) == MgmtRuns(m) \/ Accept(m) \/ StopsReading(m)

Next ==
    \/ \E bound \in BOOLEAN : StartService(bound) \/ Disconnect(bound)
    \/ Begin \/ NothingToRestart \/ MainStep
    \/ \E s \in Session : Connect(s) \/ Exit(s) \/ MgmtStep(s)
    \/ \E t \in Thread : End(t)
    \/ StopOnly \/ OnRevoke \/ OnDestroy \/ Kill

Spec == Init /\ [][Next]_vars

\* Threads run, a sleep ends, and a process that was told to exit does.
Fairness ==
    /\ WF_vars(MainStep)
    /\ \A t \in Thread : WF_vars(End(t))
    /\ \A s \in Session : WF_vars(s \in told /\ Exit(s))
FairSpec == Spec /\ Fairness

--------------------------------------------------------------------------------
(* What holds.                                                             *)

\* A stop reaches every process that talks to the app: the management thread a
\* live process is connected to is in active and reads from it, whatever starts,
\* stops, destroyed services and stolen listeners came between
\* (OpenVpnManagementThread.run, stopOpenVPN).
ManagedStoppable ==
    \A s \in Session : proc[s] = "connected" /\ s \notin told =>
        conn[s] \in active /\ mgmt[conn[s]] = "reading"

\* One management thread serves at most one process: a process that is not the
\* one accepted is on its way out.
OneClient ==
    \A r, s \in Session : /\ r # s /\ conn[r] = conn[s] /\ conn[r] # None
                          /\ proc[r] = "connected" /\ Alive(s)
                          => s \in told

\* No session's end overlapped a later start, and no stop missed a process.
Undisturbed == ~overlap /\ ~missed

\* The service knows the session it runs: when the last session's process is
\* alive and nobody told it to exit, the service holds its thread, its receiver
\* talks to it, it is the profile to restart, and the service will not be
\* destroyed (lines 343-415 against endVpnService).
RunningIsKnown ==
    Undisturbed /\ pc = "idle" /\ cur # None =>
        (Alive(cur) /\ cur \notin told =>
            /\ mProcessThread = cur /\ mDeviceStateReceiver = cur
            /\ lastConnected = cur
            /\ ~stopSelfCalled)

Quiet ==
    /\ pc = "idle"
    /\ \A s \in Session : ~Alive(s)
    /\ \A t \in Thread : ~Ending(t)

\* When everything has ended, nothing is left behind: no thread, no registered
\* receiver, no profile to restart.  Except after a process that was dead before
\* onStartCommand() registered the receiver and the profile: then they stay.
QuietIsClean ==
    Quiet /\ ~hasty =>
        /\ mProcessThread = None /\ mDeviceStateReceiver = None
        /\ ~killed => lastConnected = None

\* A restart after the app was killed undoes no disconnect by the user but one that
\* the kill overtook on its way into the file (DisconnectVPN, endVpnService() and
\* setConnectedVpnProfile() against onStartCommand() with a null intent).
NoUnwantedRestart ==
    [][pc = "idle" /\ pc' # "idle" /\ queued = "nullIntent" => wanted \/ lost]_vars

\* When every live process was told to exit, the app ends up quiet unless
\* another start begins: no thread waits for a lock for ever.
StopEnds == (\A s \in Session : Alive(s) => s \in told) ~> (Quiet \/ pc # "idle")

\* onStartCommand() line 364: "An old running VPN should now be exited".
OldVPNExited ==
    pc = "bind" => \A s \in Session : ~Alive(s)
================================================================================
