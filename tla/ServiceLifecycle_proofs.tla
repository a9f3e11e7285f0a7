------------------------- MODULE ServiceLifecycle_proofs -----------------------
(***************************************************************************)
(* Types, who is in the list of management threads, who is connected to    *)
(* whom, what the service knows of the session it runs and what it leaves  *)
(* behind, for any number of sessions and stops.                           *)
(***************************************************************************)
EXTENDS ServiceLifecycle, TLAPS

\* The profile to restart, its file and what a kill lost go together.
USE DEF prefVars, Apply

\* The places of onStartCommand() before its session has a management thread, and
\* before it has a process.
BeforeListen == {"sleep1", "lock", "sleep2", "clear", "bind", "listen"}
BeforeProcess == BeforeListen \cup {"process"}

\* A session that has not begun has no threads and no process.
Places ==
    /\ pc # "idle" => cur # None
    /\ \A s \in Session :
           /\ s > cur \/ (s = cur /\ pc \in BeforeListen) => mgmt[s] = "none"
           /\ s > cur \/ (s = cur /\ pc \in BeforeProcess) =>
                  proc[s] = "none" /\ conn[s] = None

TypeInv == TypeOK /\ Places

--------------------------------------------------------------------------------
(* Types.                                                                  *)

LEMMA StopTypes ==
    ASSUME TypeOK, Stop \/ (NotReached /\ UNCHANGED told)
    PROVE  told' \subseteq Session /\ missed' \in BOOLEAN /\ told \subseteq told'
<1>1. told' \subseteq Session /\ told \subseteq told'
  BY DEF Stop, Reached, TypeOK
<1>2. missed' \in BOOLEAN BY Zenon DEF Stop, NotReached
<1> QED BY <1>1, <1>2

LEMMA StartTypes ==
    ASSUME TypeInv,
           \/ \E bound \in BOOLEAN : StartService(bound)
           \/ NothingToRestart \/ Sleep1 \/ Lock \/ Sleep2 \/ Bind \/ ListenFails
    PROVE  TypeInv'
<1> USE DEF TypeInv, TypeOK, Places, BeforeListen, BeforeProcess, mainVars, serviceVars,
            mgmtVars, procVars, endVars, historyVars
<1>1. CASE \E bound \in BOOLEAN : StartService(bound) BY ZenonT(30), <1>1 DEF StartService
<1>2. CASE NothingToRestart BY <1>2 DEF NothingToRestart
<1>3. CASE Sleep1 BY <1>3 DEF Sleep1
<1>4. CASE Lock BY <1>4 DEF Lock
<1>5. CASE Sleep2 BY <1>5 DEF Sleep2
<1>6. CASE Bind BY <1>6 DEF Bind
<1>7. CASE ListenFails BY <1>7 DEF ListenFails
<1> QED BY <1>1, <1>2, <1>3, <1>4, <1>5, <1>6, <1>7

LEMMA BeginTypes == TypeInv /\ Begin => TypeInv'
<1> SUFFICES ASSUME TypeInv, Begin PROVE TypeInv'
  OBVIOUS
<1>1. told' \subseteq Session /\ missed' \in BOOLEAN
  <2>1. CASE mManagement # None
    <3>1. Stop BY <2>1 DEF Begin
    <3> QED BY <3>1, StopTypes, Zenon DEF TypeInv
  <2>2. CASE mManagement = None BY <2>2 DEF Begin, TypeInv, TypeOK
  <2> QED BY <2>1, <2>2
<1>2. cur \in Nat /\ cur' = cur + 1 /\ cur' \in Session /\ cur' # None
      /\ pc' \in {"sleep1", "lock"}
  BY LifecycleBounds DEF Begin, TypeInv, TypeOK, Session, None
<1>3. TypeOK'
  BY <1>1, <1>2 DEF Begin, TypeInv, TypeOK, mgmtVars, endVars
<1>4. \A s \in Session : s \in Nat /\ (s > cur' \/ s = cur' => s > cur)
  BY <1>2 DEF Session
<1>5. UNCHANGED <<mgmt, proc, conn>> BY DEF Begin, mgmtVars
<1> QED BY <1>2, <1>3, <1>4, <1>5 DEF TypeInv, Places

LEMMA SessionTypes ==
    ASSUME TypeInv,
           ClearStarting \/ Listen \/ StartProcessThread \/ Register \/ Record
    PROVE  TypeInv'
<1> USE DEF TypeInv, TypeOK, Places, BeforeListen, BeforeProcess, mainVars, serviceVars,
            mgmtVars, procVars, endVars, historyVars
<1>0. cur \in Session
  BY DEF ClearStarting, Listen, StartProcessThread, Register, Record
<1>1. CASE ClearStarting
  <2>1. overlap' \in BOOLEAN BY <1>1, Zenon DEF ClearStarting
  <2> QED BY <1>1, <2>1 DEF ClearStarting
<1>2. CASE Listen BY <1>0, <1>2 DEF Listen, Session
<1>3. CASE StartProcessThread
  <2>1. /\ proc' \in [Session -> ProcState]
        /\ \A s \in Session : s # cur => proc'[s] = proc[s]
    BY <1>0, <1>3 DEF StartProcessThread, ProcState
  <2>2. owner' \in [Thread -> Nat]
    BY <1>3 DEF StartProcessThread
  <2>3. TypeOK' BY <1>0, <1>3, <2>1, <2>2 DEF StartProcessThread
  <2>4. cur \in Nat /\ cur' = cur /\ UNCHANGED <<mgmt, conn>> /\ pc' = "register"
    BY <1>0, <1>3 DEF StartProcessThread, Session
  <2>5. pc = "process" BY <1>3 DEF StartProcessThread
  <2> QED BY <1>0, <2>1, <2>3, <2>4, <2>5
<1>4. CASE Register
  <2>1. hasty' \in BOOLEAN BY <1>4, Zenon DEF Register
  <2> QED BY <1>4, <2>1 DEF Register
<1>5. CASE Record
  <2>1. hasty' \in BOOLEAN BY <1>5, Zenon DEF Record
  <2> QED BY <1>0, <1>5, <2>1 DEF Record
<1> QED BY <1>1, <1>2, <1>3, <1>4, <1>5

LEMMA ProcessTypes ==
    ASSUME TypeInv, NEW s \in Session, Connect(s) \/ Exit(s) \/ MgmtStep(s)
    PROVE  TypeInv'
<1> USE DEF TypeInv, TypeOK, Places, mainVars, serviceVars, mgmtVars, procVars, endVars,
            historyVars, ProcState, BeforeListen, BeforeProcess
<1>1. CASE Connect(s) BY <1>1 DEF Connect
<1>2. CASE Exit(s) BY <1>2 DEF Exit, EndStep, Alive, Thread
<1>3. CASE MgmtRuns(s) BY <1>3 DEF MgmtRuns, Registered
<1>4. CASE Accept(s) BY <1>4 DEF Accept, Refused
<1>5. CASE StopsReading(s) BY <1>5 DEF StopsReading
<1> QED BY <1>1, <1>2, <1>3, <1>4, <1>5 DEF MgmtStep

LEMMA EndTypes == ASSUME TypeInv, NEW t \in Thread, End(t) PROVE TypeInv'
<1> USE DEF TypeInv, TypeOK, Places, mainVars, serviceVars, mgmtVars, procVars, endVars,
            historyVars, EndStep
<1>1. CASE EndThread(t) BY <1>1 DEF EndThread
<1>2. CASE EndReceiver(t) BY <1>2 DEF EndReceiver, ReceiverLeft
<1>3. CASE EndRecord(t) BY <1>3 DEF EndRecord
<1>4. CASE EndService(t)
  <2>1. stopSelfCalled' \in BOOLEAN /\ overlap' \in BOOLEAN
    BY <1>4, Zenon DEF EndService
  <2> QED BY <1>4, <2>1 DEF EndService
<1> QED BY <1>1, <1>2, <1>3, <1>4 DEF End

LEMMA StopsTypes ==
    ASSUME TypeInv,
           (\E bound \in BOOLEAN : Disconnect(bound)) \/ StopOnly \/ OnRevoke \/ OnDestroy
    PROVE  TypeInv'
<1> USE DEF mainVars, serviceVars, mgmtVars, endVars
<1>1. told' \subseteq Session /\ missed' \in BOOLEAN
  <2>1. CASE Stop \/ (NotReached /\ UNCHANGED told) BY <2>1, StopTypes DEF TypeInv
  <2>2. CASE UNCHANGED <<told, missed>> BY <2>2 DEF TypeInv, TypeOK
  <2>3. \/ Stop \/ (NotReached /\ UNCHANGED told)
        \/ UNCHANGED <<told, missed>>
    <3>1. CASE \E bound \in BOOLEAN : Disconnect(bound)
      BY <3>1, Zenon DEF Disconnect
    <3>2. CASE StopOnly \/ OnRevoke BY <3>2, Zenon DEF StopOnly, OnRevoke
    <3>3. CASE OnDestroy BY <3>3, Zenon DEF OnDestroy
    <3> QED BY <3>1, <3>2, <3>3
  <2> QED BY <2>1, <2>2, <2>3
<1>2. stops' \in 0 .. MaxStops
  BY LifecycleBounds DEF Disconnect, StopOnly, OnRevoke, OnDestroy, TypeInv, TypeOK
<1>3. CASE \E bound \in BOOLEAN : Disconnect(bound)
  BY <1>1, <1>2, <1>3 DEF Disconnect, ForgetProfile, TypeInv, TypeOK, Places
<1>4. CASE StopOnly BY <1>1, <1>2, <1>4 DEF StopOnly, TypeInv, TypeOK, Places
<1>5. CASE OnRevoke
  BY <1>1, <1>2, <1>5 DEF OnRevoke, TypeInv, TypeOK, Places, EndStep, Thread, Revoke
<1>6. CASE OnDestroy
  <2>1. UNCHANGED <<pc, cur, mgmt, proc, conn>> BY <1>6 DEF OnDestroy
  <2>2. queued' \in {"no", "start", "nextInstance", "nullIntent"} /\ instance' \in Nat
    BY <1>6 DEF OnDestroy, Fresh, TypeInv, TypeOK
  <2>3. TypeOK'
    BY <1>1, <1>2, <1>6, <2>1, <2>2 DEF OnDestroy, Fresh, TypeInv, TypeOK
  <2> QED BY <2>1, <2>3 DEF TypeInv, Places
<1> QED BY <1>3, <1>4, <1>5, <1>6

LEMMA KillTypes == TypeInv /\ Kill => TypeInv'
<1> SUFFICES ASSUME TypeInv, Kill PROVE TypeInv'
  OBVIOUS
<1> USE DEF Kill, TypeInv, TypeOK
<1>1. told' \subseteq Session /\ missed' \in BOOLEAN
  <2>1. told' \subseteq Session OBVIOUS
  <2>2. missed' \in BOOLEAN BY Zenon
  <2> QED BY <2>1, <2>2
<1>2. mgmt' \in [Session -> {"none", "new", "listening", "reading", "gone"}]
      /\ \A s \in Session : mgmt[s] = "none" => mgmt'[s] = "none"
  OBVIOUS
<1>3. endPc' \in [Thread -> EndStep] BY DEF EndStep
<1>4. TypeOK'
  <2>1. queued' \in {"no", "start", "nextInstance", "nullIntent"} /\ instance' \in Nat
    BY DEF Fresh
  <2>2. active' = {} /\ listener' = None /\ pc' = "idle" /\ killed' = TRUE
    OBVIOUS
  <2>3. UNCHANGED <<cur, proc, conn, owner, stops, overlap, hasty, wanted>>
    OBVIOUS
  <2>4. lastConnected' \in Session \cup {None} /\ inFile' \subseteq Session \cup {None}
    OBVIOUS
  <2>5. lost' \in BOOLEAN BY Zenon
  <2> QED BY <1>1, <1>2, <1>3, <2>1, <2>2, <2>3, <2>4, <2>5 DEF Fresh
<1>5. UNCHANGED <<cur, proc, conn>> /\ pc' = "idle" OBVIOUS
<1> QED BY <1>2, <1>4, <1>5 DEF Places, BeforeListen, BeforeProcess

\* The types of the service's fields, its threads and the processes never break,
\* whatever sessions, stops, revocations and kills follow each other.
THEOREM LifecycleTypes == Spec => []TypeInv
<1>1. Init => TypeInv
  <2> SUFFICES ASSUME Init PROVE TypeInv
    OBVIOUS
  <2>1. /\ mgmt \in [Session -> {"none", "new", "listening", "reading", "gone"}]
        /\ proc \in [Session -> ProcState] /\ conn \in [Session -> Session \cup {None}]
        /\ owner \in [Thread -> Nat] /\ endPc \in [Thread -> EndStep]
    BY DEF Init, ProcState, EndStep
  <2>3. stops \in 0 .. MaxStops BY LifecycleBounds DEF Init
  <2>4. TypeOK BY <2>1, <2>3 DEF Init, TypeOK
  <2>2. Places BY DEF Init, Places
  <2> QED BY <2>2, <2>4 DEF TypeInv
<1>2. TypeInv /\ [Next]_vars => TypeInv'
  <2> SUFFICES ASSUME TypeInv, [Next]_vars PROVE TypeInv'
    OBVIOUS
  <2>1. CASE Next
    BY <2>1, StartTypes, BeginTypes, SessionTypes, ProcessTypes, EndTypes, StopsTypes,
       KillTypes
    DEF Next, MainStep
  <2>2. CASE UNCHANGED vars
    BY <2>2 DEF vars, TypeInv, TypeOK, Places, mainVars, serviceVars, mgmtVars, procVars,
                endVars, historyVars
  <2> QED BY <2>1, <2>2
<1> QED BY <1>1, <1>2, PTL DEF Spec

--------------------------------------------------------------------------------
(* Who is connected to whom.                                               *)

\* A management thread that serves or will serve a process is in the list.
InActive == \A m \in Session : mgmt[m] \in {"listening", "reading"} => m \in active

\* Who listens on the path has not accepted yet, and who was accepted by a thread
\* finds it reading or gone.
PathOK == listener # None => mgmt[listener] \in {"new", "listening"}
ConnOK ==
    \A s \in Session :
        /\ proc[s] \in {"none", "starting"} => conn[s] = None
        /\ proc[s] = "connected" =>
               conn[s] \in Session /\ mgmt[conn[s]] \in {"reading", "gone"}

LinkInv == TypeInv /\ InActive /\ PathOK /\ ConnOK /\ ManagedStoppable /\ OneClient

\* A step that connects nobody and tells more processes to exit keeps the links.
LEMMA LinksKept ==
    ASSUME LinkInv, TypeInv', UNCHANGED <<mgmt, active, listener, conn>>, told \subseteq told',
           \A s \in Session : proc'[s] = proc[s] \/ proc'[s] = "dead"
    PROVE  LinkInv'
<1>1. InActive' /\ PathOK' BY DEF LinkInv, InActive, PathOK
<1>2. ConnOK' BY DEF LinkInv, ConnOK
<1>3. ManagedStoppable' BY DEF LinkInv, ManagedStoppable
<1>4. OneClient' BY DEF LinkInv, OneClient, Alive
<1> QED BY <1>1, <1>2, <1>3, <1>4 DEF LinkInv

\* A new management thread takes the path; nobody is connected to it.
LEMMA ListenLinks ==
    ASSUME LinkInv, TypeInv', Bind \/ Listen \/ StartProcessThread
    PROVE  LinkInv'
<1>1. CASE Bind
  <2>1. UNCHANGED <<mgmt, active, proc, conn, told>> /\ listener' = None
    BY <1>1 DEF Bind, procVars
  <2> QED BY <2>1 DEF LinkInv, InActive, PathOK, ConnOK, ManagedStoppable, OneClient, Alive
<1>2. CASE Listen
  <2>1. /\ cur \in Session /\ mgmt[cur] = "none"
        /\ mgmt' = [mgmt EXCEPT ![cur] = "new"] /\ listener' = cur
        /\ UNCHANGED <<active, proc, conn, told>>
    BY <1>2 DEF Listen, procVars, LinkInv, TypeInv, TypeOK, Places, BeforeListen
  <2>2. mgmt \in [Session -> {"none", "new", "listening", "reading", "gone"}]
    BY DEF LinkInv, TypeInv, TypeOK
  <2>3. \A m \in Session : mgmt'[m] = mgmt[m] \/ (m = cur /\ mgmt'[m] = "new")
    BY <2>1, <2>2
  <2>4. \A s \in Session : proc[s] = "connected" => conn[s] \in Session /\ conn[s] # cur
    BY <2>1 DEF LinkInv, ConnOK
  <2>5. InActive' /\ PathOK'
    BY <2>1, <2>2, <2>3 DEF LinkInv, InActive, PathOK
  <2>6. ConnOK' BY <2>1, <2>3, <2>4 DEF LinkInv, ConnOK
  <2>7. ManagedStoppable' BY <2>1, <2>3, <2>4 DEF LinkInv, ManagedStoppable
  <2>8. OneClient' BY <2>1 DEF LinkInv, OneClient, Alive
  <2> QED BY <2>5, <2>6, <2>7, <2>8 DEF LinkInv
<1>3. CASE StartProcessThread
  <2>1. /\ cur \in Session /\ conn[cur] = None
        /\ proc' = [proc EXCEPT ![cur] = "starting"]
        /\ UNCHANGED <<mgmt, active, listener, conn, told>>
    BY <1>3 DEF StartProcessThread, mgmtVars, LinkInv, TypeInv, TypeOK, Places,
                BeforeProcess
  <2>2. \A s \in Session : proc'[s] = proc[s] \/ (s = cur /\ proc'[s] = "starting")
    BY <2>1 DEF LinkInv, TypeInv, TypeOK
  <2>3. InActive' /\ PathOK' BY <2>1 DEF LinkInv, InActive, PathOK
  <2>4. ConnOK' BY <2>1, <2>2 DEF LinkInv, ConnOK
  <2>5. ManagedStoppable' BY <2>1, <2>2 DEF LinkInv, ManagedStoppable
  <2>6. OneClient' BY <2>1, <2>2 DEF LinkInv, OneClient, Alive
  <2> QED BY <2>3, <2>4, <2>5, <2>6 DEF LinkInv
<1> QED BY <1>1, <1>2, <1>3

\* A process joins the backlog of a thread that has accepted nobody.
LEMMA ConnectLinks ==
    ASSUME LinkInv, TypeInv', NEW s \in Session, Connect(s)
    PROVE  LinkInv'
<1>1. /\ proc[s] = "starting" /\ listener \in Session
      /\ mgmt[listener] \in {"new", "listening"}
      /\ proc' = [proc EXCEPT ![s] = "backlog"] /\ conn' = [conn EXCEPT ![s] = listener]
      /\ UNCHANGED <<mgmt, active, listener, told>>
  BY DEF Connect, mgmtVars, LinkInv, TypeInv, TypeOK, PathOK
<1>2. /\ \A r \in Session \ {s} : proc'[r] = proc[r] /\ conn'[r] = conn[r]
      /\ proc'[s] = "backlog" /\ conn'[s] = listener
  BY <1>1 DEF LinkInv, TypeInv, TypeOK
<1>3. InActive' /\ PathOK' BY <1>1 DEF LinkInv, InActive, PathOK
<1>4. ConnOK' BY <1>1, <1>2 DEF LinkInv, ConnOK
<1>5. ManagedStoppable' BY <1>1, <1>2 DEF LinkInv, ManagedStoppable
<1>6. OneClient'
  <2> SUFFICES ASSUME NEW q \in Session, NEW r \in Session, q # r,
                      conn'[q] = conn'[r], conn'[q] # None,
                      proc'[q] = "connected", Alive(r)'
               PROVE  r \in told'
    BY DEF OneClient
  <2>1. q # s /\ proc[q] = "connected" BY <1>2
  <2>2. mgmt[conn[q]] \in {"reading", "gone"} BY <2>1 DEF LinkInv, ConnOK
  <2>3. r # s BY <1>1, <1>2, <2>1, <2>2
  <2>4. Alive(r) BY <1>2, <2>3 DEF Alive
  <2> QED BY <1>1, <1>2, <2>1, <2>3, <2>4 DEF LinkInv, OneClient
<1> QED BY <1>3, <1>4, <1>5, <1>6 DEF LinkInv

\* The accepted process is the thread's only one: the others in its backlog were
\* refused with the closing of the server socket.
LEMMA AcceptLinks ==
    ASSUME LinkInv, TypeInv', NEW m \in Session, Accept(m)
    PROVE  LinkInv'
<1>1. PICK s \in Session :
          /\ mgmt[m] = "listening" /\ proc[s] = "backlog" /\ conn[s] = m
          /\ mgmt' = [mgmt EXCEPT ![m] = "reading"]
          /\ proc' = [proc EXCEPT ![s] = "connected"]
          /\ listener' = IF listener = m THEN None ELSE listener
          /\ told' = told \cup Refused(m, s)
          /\ UNCHANGED <<active, conn>>
  BY DEF Accept
<1>2. /\ \A n \in Session \ {m} : mgmt'[n] = mgmt[n]
      /\ mgmt'[m] = "reading"
      /\ \A r \in Session \ {s} : proc'[r] = proc[r]
      /\ proc'[s] = "connected"
  BY <1>1 DEF LinkInv, TypeInv, TypeOK
<1>3. \A r \in Session : proc[r] = "connected" => conn[r] \in Session /\ conn[r] # m
  BY <1>1 DEF LinkInv, ConnOK
<1>4. InActive' BY <1>1, <1>2 DEF LinkInv, InActive
<1>5. PathOK'
  <2>1. listener \in Session \cup {None} BY DEF LinkInv, TypeInv, TypeOK
  <2> QED BY <1>1, <1>2, <2>1 DEF LinkInv, PathOK
<1>6. ConnOK' BY <1>1, <1>2, <1>3 DEF LinkInv, ConnOK
<1>7. ManagedStoppable' BY <1>1, <1>2, <1>3 DEF LinkInv, ManagedStoppable, InActive
<1>8. OneClient'
  <2> SUFFICES ASSUME NEW q \in Session, NEW r \in Session, q # r,
                      conn[q] = conn[r], conn[q] # None,
                      proc'[q] = "connected", Alive(r)'
               PROVE  r \in told'
    BY <1>1 DEF OneClient
  <2>1. CASE q = s
    <3>1. conn[r] = m /\ proc'[r] = proc[r] /\ Alive(r) BY <1>1, <1>2, <2>1 DEF Alive
    <3>2. proc[r] = "backlog" BY <1>1, <1>3, <3>1 DEF Alive, LinkInv, ConnOK
    <3> QED BY <1>1, <2>1, <3>1, <3>2 DEF Refused
  <2>2. CASE q # s
    <3>1. proc[q] = "connected" BY <1>2, <2>2
    <3>2. r # s BY <1>1, <1>3, <3>1
    <3>3. Alive(r) BY <1>2, <3>2 DEF Alive
    <3> QED BY <1>1, <3>1, <3>3 DEF LinkInv, OneClient
  <2> QED BY <2>1, <2>2
<1> QED BY <1>4, <1>5, <1>6, <1>7, <1>8 DEF LinkInv

\* A thread enters the list before it accepts, and leaves it only once its process
\* is dead or told to exit.
LEMMA MgmtLinks ==
    ASSUME LinkInv, TypeInv', NEW m \in Session, MgmtRuns(m) \/ StopsReading(m)
    PROVE  LinkInv'
<1>1. UNCHANGED <<listener, proc, conn, told>>
  BY DEF MgmtRuns, StopsReading, procVars
<1>2. mgmt \in [Session -> {"none", "new", "listening", "reading", "gone"}]
  BY DEF LinkInv, TypeInv, TypeOK
<1>3. OneClient' BY <1>1 DEF LinkInv, OneClient, Alive
<1>4. CASE MgmtRuns(m)
  <2>1. /\ mgmt[m] = "new" /\ mgmt'[m] = "listening" /\ active' = active \cup {m}
        /\ \A n \in Session \ {m} : mgmt'[n] = mgmt[n]
    BY <1>2, <1>4 DEF MgmtRuns, Registered
  <2>2. InActive' BY <2>1 DEF LinkInv, InActive
  <2>3. PathOK'
    <3>1. listener \in Session \cup {None} BY DEF LinkInv, TypeInv, TypeOK
    <3> QED BY <1>1, <2>1, <3>1 DEF LinkInv, PathOK
  <2>4. ConnOK' BY <1>1, <2>1 DEF LinkInv, ConnOK
  <2>5. ManagedStoppable' BY <1>1, <2>1 DEF LinkInv, ManagedStoppable, ConnOK
  <2> QED BY <1>3, <2>2, <2>3, <2>4, <2>5 DEF LinkInv
<1>5. CASE StopsReading(m)
  <2>1. /\ mgmt[m] = "reading" /\ mgmt'[m] = "gone"
        /\ active \ {m} \subseteq active' /\ active' \subseteq active
        /\ \A n \in Session \ {m} : mgmt'[n] = mgmt[n]
    BY <1>2, <1>5 DEF StopsReading
  <2>2. \A s \in Session : proc[s] = "connected" /\ conn[s] = m => s \in told
    BY <1>5 DEF StopsReading, ClientOf
  <2>3. InActive' BY <2>1 DEF LinkInv, InActive
  <2>4. PathOK'
    <3>1. listener \in Session \cup {None} BY DEF LinkInv, TypeInv, TypeOK
    <3> QED BY <1>1, <2>1, <3>1 DEF LinkInv, PathOK
  <2>5. ConnOK' BY <1>1, <2>1 DEF LinkInv, ConnOK
  <2>6. ManagedStoppable' BY <1>1, <2>1, <2>2 DEF LinkInv, ManagedStoppable, ConnOK
  <2> QED BY <1>3, <2>3, <2>4, <2>5, <2>6 DEF LinkInv
<1> QED BY <1>4, <1>5

\* The app's death closes every connection, and with it tells every process that
\* has one.
LEMMA KillLinks ==
    ASSUME LinkInv, TypeInv', Kill
    PROVE  LinkInv'
<1>1. /\ UNCHANGED <<proc, conn>> /\ active' = {} /\ listener' = None
      /\ told' = told \cup {s \in Session : proc[s] \in {"backlog", "connected"}}
      /\ mgmt' = [m \in Session |-> IF mgmt[m] = "none" THEN "none" ELSE "gone"]
  BY DEF Kill
<1>2. InActive' /\ PathOK' BY <1>1 DEF InActive, PathOK
<1>3. ConnOK' BY <1>1 DEF LinkInv, ConnOK
<1>4. ManagedStoppable' BY <1>1 DEF ManagedStoppable
<1>5. OneClient' BY <1>1 DEF LinkInv, OneClient, Alive
<1> QED BY <1>2, <1>3, <1>4, <1>5 DEF LinkInv

THEOREM LinksInvariant == Spec => []LinkInv
<1>1. Init => InActive /\ PathOK /\ ConnOK /\ ManagedStoppable /\ OneClient
  BY DEF Init, InActive, PathOK, ConnOK, ManagedStoppable, OneClient
<1>2. LinkInv /\ TypeInv' /\ [Next]_vars => LinkInv'
  <2> SUFFICES ASSUME LinkInv, TypeInv', [Next]_vars PROVE LinkInv'
    OBVIOUS
  <2> DEFINE Same == /\ UNCHANGED <<mgmt, active, listener, conn>>
                     /\ told \subseteq told'
                     /\ \A s \in Session : proc'[s] = proc[s] \/ proc'[s] = "dead"
  <2>1. Same => LinkInv' BY LinksKept
  <2>2. ASSUME NEW s \in Session, Connect(s) \/ MgmtStep(s) PROVE LinkInv'
    BY <2>2, ConnectLinks, AcceptLinks, MgmtLinks DEF MgmtStep
  <2>3. CASE Kill BY <2>3, KillLinks
  <2>4. CASE Bind \/ Listen \/ StartProcessThread BY <2>4, ListenLinks
  <2>5. CASE \/ \E bound \in BOOLEAN : StartService(bound)
             \/ NothingToRestart \/ Sleep1 \/ Lock \/ Sleep2 \/ ClearStarting
             \/ ListenFails \/ Register \/ Record
    BY <2>1, <2>5 DEF StartService, NothingToRestart, Sleep1, Lock, Sleep2, ClearStarting,
                      ListenFails, Register, Record, mgmtVars, procVars
  <2>6. CASE \E t \in Thread : End(t)
    BY <2>1, <2>6 DEF End, EndThread, EndReceiver, EndRecord, EndService, mgmtVars,
                      procVars
  <2>7. CASE \E s \in Session : Exit(s)
    BY <2>1, <2>7 DEF Exit, mgmtVars, LinkInv, TypeInv, TypeOK
  <2>8. CASE \/ Begin \/ StopOnly \/ OnRevoke \/ OnDestroy
             \/ \E bound \in BOOLEAN : Disconnect(bound)
    <3>1. UNCHANGED <<mgmt, active, listener, proc, conn>>
      BY <2>8 DEF Begin, StopOnly, OnRevoke, OnDestroy, Disconnect, mgmtVars
    <3>2. told \subseteq told'
      BY <2>8 DEF Begin, StopOnly, OnRevoke, OnDestroy, Disconnect, Stop
    <3> QED BY <2>1, <3>1, <3>2
  <2>9. CASE UNCHANGED vars BY <2>1, <2>9 DEF vars, mgmtVars, procVars
  <2> QED BY <2>2, <2>3, <2>4, <2>5, <2>6, <2>7, <2>8, <2>9 DEF Next, MainStep
<1> QED BY <1>1, <1>2, LifecycleTypes, PTL DEF Spec, LinkInv

\* Whatever was started, stopped, revoked or killed: a stop reaches every process
\* that talks to the app.
THEOREM StopReachesAll == Spec => []ManagedStoppable
<1>1. LinkInv => ManagedStoppable BY DEF LinkInv
<1> QED BY <1>1, LinksInvariant, PTL

\* ... and no management thread serves two processes that may both stay.
THEOREM OneClientOnly == Spec => []OneClient
<1>1. LinkInv => OneClient BY DEF LinkInv
<1> QED BY <1>1, LinksInvariant, PTL

\* The type invariant alone.
THEOREM LifecycleTypesOK == Spec => []TypeOK
<1>1. TypeInv => TypeOK BY DEF TypeInv
<1> QED BY <1>1, LifecycleTypes, PTL

--------------------------------------------------------------------------------
(* What a restart after the app was killed undoes.                         *)

\* A profile is recorded for a restart only while the user has not disconnected
\* since the start that recorded it: DisconnectVPN runs in the main thread, which
\* is never in the middle of a start then, and forgets the profile.  A kill brings
\* an older profile back only when it loses that.
RecordedIsWanted ==
    /\ pc # "idle" => wanted
    /\ lastConnected # None => wanted \/ lost
    /\ lost => killed

\* A restart after the app was killed (onStartCommand() with a null intent) undoes
\* no disconnect by the user but one that the kill overtook on its way into the file.
THEOREM RestartIsWanted == Spec => NoUnwantedRestart
<1>1. Init => RecordedIsWanted
  BY DEF Init, RecordedIsWanted
<1>2. TypeInv /\ RecordedIsWanted /\ [Next]_vars => RecordedIsWanted'
  <2> SUFFICES ASSUME TypeInv, RecordedIsWanted, [Next]_vars PROVE RecordedIsWanted'
    OBVIOUS
  <2> USE DEF RecordedIsWanted
  <2>1. CASE Begin BY <2>1 DEF Begin
  <2>2. CASE MainStep
    <3>1. pc # "idle" /\ UNCHANGED <<wanted, lost, killed>>
      BY <2>2 DEF MainStep, Sleep1, Lock, Sleep2, ClearStarting, Bind, Listen, ListenFails,
                  StartProcessThread, Register, Record, historyVars
    <3> QED BY <3>1
  <2>3. CASE \E bound \in BOOLEAN : Disconnect(bound)
    BY <2>3 DEF Disconnect, ForgetProfile, mainVars
  <2>4. CASE \/ \E bound \in BOOLEAN : StartService(bound)
             \/ NothingToRestart \/ StopOnly \/ OnRevoke \/ OnDestroy
             \/ \E s \in Session : Connect(s) \/ Exit(s) \/ MgmtStep(s)
    BY <2>4 DEF StartService, NothingToRestart, StopOnly, OnRevoke, OnDestroy, Connect, Exit,
                MgmtStep, MgmtRuns, Accept, StopsReading, mainVars, historyVars
  <2>5. CASE \E t \in Thread : End(t)
    BY <2>5 DEF End, EndThread, EndReceiver, EndRecord, EndService, mainVars, historyVars
  <2>6. CASE Kill
    <3>1. pc' = "idle" /\ killed' /\ wanted' = wanted /\ ~lost BY <2>6 DEF Kill
    <3>2. lastConnected = None /\ lastConnected' # None => lost' BY <2>6, Zenon DEF Kill
    <3> QED BY <3>1, <3>2
  <2>7. CASE UNCHANGED vars BY <2>7 DEF vars, mainVars, historyVars
  <2> QED BY <2>1, <2>2, <2>3, <2>4, <2>5, <2>6, <2>7 DEF Next
<1>3. RecordedIsWanted /\ [Next]_vars =>
          [pc = "idle" /\ pc' # "idle" /\ queued = "nullIntent" => wanted \/ lost]_vars
  <2> SUFFICES ASSUME RecordedIsWanted, Next, pc = "idle", pc' # "idle",
                      queued = "nullIntent"
               PROVE  wanted \/ lost
    OBVIOUS
  <2>1. Begin
    BY DEF Next, StartService, Disconnect, NothingToRestart, MainStep, Sleep1, Lock, Sleep2,
           ClearStarting, Bind, Listen, ListenFails, StartProcessThread, Register, Record,
           Connect, Exit, MgmtStep, MgmtRuns, Accept, StopsReading, End, EndThread,
           EndReceiver, EndRecord, EndService, StopOnly, OnRevoke, OnDestroy, Kill, mainVars
  <2> QED BY <2>1 DEF Begin, RecordedIsWanted
<1> QED BY <1>1, <1>2, <1>3, LifecycleTypes, PTL DEF Spec, NoUnwantedRestart

--------------------------------------------------------------------------------
(* What the service knows of the session it runs.                          *)

\* A start keeps stopSelf() away until its thread has taken its place, and its
\* management thread is the one it registers.
StartInv ==
    /\ pc \in {"sleep1", "lock", "sleep2", "clear"} => mStarting
    /\ pc \in {"process", "register"} => mManagement = cur

\* The app that Android restarts has nothing of the former one left to end.
RestartInv ==
    queued = "nullIntent" =>
        /\ pc = "idle" /\ ~stopSelfCalled /\ mManagement = None
        /\ \A t \in Thread : ~Ending(t)
        /\ \A s \in Session : Alive(s) => endPc[s] = "done"

Ended(S) == (\A s \in S : ~Alive(s)) /\ \A t \in Thread : ~Ending(t)

\* The last session's process lives, and nobody told it to exit.
LastRuns ==
    /\ pc \in {"register", "record", "idle"} /\ cur # None
    /\ Alive(cur) /\ cur \notin told

\* What RunningIsKnown needs to be inductive: no end of a former session is left
\* when a start takes its place, and from then on the service holds what it has
\* set so far.
KnownInv ==
    Undisturbed =>
        /\ queued = "start" \/ pc \notin {"register", "record", "idle"} => ~stopSelfCalled
        /\ pc \in {"bind", "listen", "process"} => Ended(Session)
        /\ LastRuns =>
              /\ Ended(Session \ {cur})
              /\ mProcessThread = cur /\ ~stopSelfCalled
              /\ pc # "register" => mDeviceStateReceiver = cur
              /\ pc = "idle" => lastConnected = cur

\* What once went wrong is remembered.
LEMMA HistoryGrows ==
    ASSUME [Next]_vars
    PROVE  /\ overlap => overlap'
           /\ missed => missed'
           /\ hasty => hasty'
           /\ killed => killed'
<1> USE DEF historyVars
<1>1. ASSUME Stop \/ NotReached PROVE missed => missed'
  BY <1>1, Zenon DEF Stop, NotReached
<1>2. CASE \/ \E bound \in BOOLEAN : StartService(bound)
           \/ NothingToRestart \/ UNCHANGED vars
           \/ \E s \in Session : Connect(s) \/ Exit(s) \/ MgmtStep(s)
  BY <1>2 DEF StartService, NothingToRestart, vars, Connect, Exit, MgmtStep, MgmtRuns, Accept,
              StopsReading
<1>3. CASE Begin BY <1>1, <1>3 DEF Begin
<1>4. CASE \/ \E bound \in BOOLEAN : Disconnect(bound)
           \/ StopOnly \/ OnRevoke \/ OnDestroy
  BY <1>1, <1>4 DEF Disconnect, StopOnly, OnRevoke, OnDestroy
<1>5. CASE MainStep
  <2>1. CASE ClearStarting BY <2>1, Zenon DEF ClearStarting
  <2>2. CASE Register \/ Record
    <3>1. hasty => hasty' BY <2>2, Zenon DEF Register, Record
    <3> QED BY <2>2, <3>1 DEF Register, Record
  <2>3. CASE ~ClearStarting /\ ~Register /\ ~Record
    BY <1>5, <2>3 DEF MainStep, Sleep1, Lock, Sleep2, Bind, Listen, ListenFails,
                      StartProcessThread
  <2> QED BY <2>1, <2>2, <2>3
<1>6. ASSUME NEW t \in Thread, End(t) PROVE (overlap => overlap') /\ UNCHANGED <<missed, hasty, killed>>
  <2>1. CASE EndService(t) BY <2>1, Zenon DEF EndService
  <2>2. CASE ~EndService(t) BY <1>6, <2>2 DEF End, EndThread, EndReceiver, EndRecord
  <2> QED BY <2>1, <2>2
<1>7. CASE Kill
  <2>1. missed => missed' BY <1>7, Zenon DEF Kill
  <2> QED BY <1>7, <2>1 DEF Kill
<1> QED BY <1>2, <1>3, <1>4, <1>5, <1>6, <1>7 DEF Next

\* A stop that misses nobody has told every process to exit.
LEMMA StopTellsAll ==
    ASSUME Stop \/ (NotReached /\ UNCHANGED told), ~missed'
    PROVE  \A s \in Session : Alive(s) => s \in told'
<1>1. CASE Stop
  <2>1. ~ \E s \in Session \ (Reached \cup told) : Alive(s) BY <1>1, Zenon DEF Stop
  <2> QED BY <1>1, <2>1 DEF Stop
<1>2. CASE NotReached /\ UNCHANGED told
  <2>1. ~ \E s \in Session \ told : Alive(s) BY <1>2, Zenon DEF NotReached
  <2> QED BY <1>2, <2>1
<1> QED BY <1>1, <1>2

LEMMA StartInvariant == Spec => []StartInv
<1>1. Init => StartInv BY DEF Init, StartInv
<1>2. StartInv /\ [Next]_vars => StartInv'
  <2> SUFFICES ASSUME StartInv, [Next]_vars PROVE StartInv'
    OBVIOUS
  <2> USE DEF StartInv, mainVars, serviceVars
  <2>1. CASE Begin BY <2>1 DEF Begin
  <2>2. CASE MainStep
    BY <2>2 DEF MainStep, Sleep1, Lock, Sleep2, ClearStarting, Bind, Listen, ListenFails,
                StartProcessThread, Register, Record
  <2>3. CASE OnDestroy \/ Kill BY <2>3 DEF OnDestroy, Kill
  <2>4. CASE UNCHANGED <<pc, cur, mStarting, mManagement>> BY <2>4
  <2>5. CASE \/ \E bound \in BOOLEAN : StartService(bound) \/ Disconnect(bound)
             \/ NothingToRestart \/ StopOnly \/ OnRevoke \/ UNCHANGED vars
             \/ \E s \in Session : Connect(s) \/ Exit(s) \/ MgmtStep(s)
    BY <2>4, <2>5 DEF StartService, Disconnect, NothingToRestart, StopOnly, OnRevoke, vars,
                      Connect, Exit, MgmtStep, MgmtRuns, Accept, StopsReading
  <2>6. CASE \E t \in Thread : End(t)
    BY <2>4, <2>6 DEF End, EndThread, EndReceiver, EndRecord, EndService
  <2> QED BY <2>1, <2>2, <2>3, <2>5, <2>6 DEF Next
<1> QED BY <1>1, <1>2, PTL DEF Spec

LEMMA RestartInvariant == Spec => []RestartInv
<1>1. Init => RestartInv BY DEF Init, RestartInv
<1>2. TypeInv /\ RestartInv /\ [Next]_vars => RestartInv'
  <2> SUFFICES ASSUME TypeInv, RestartInv, [Next]_vars, queued' = "nullIntent"
               PROVE  RestartInv'
    BY DEF RestartInv
  <2> USE DEF RestartInv, mainVars, serviceVars, endVars, procVars
  <2>1. CASE Kill
    <3>1. /\ pc' = "idle" /\ stopSelfCalled' = FALSE /\ mManagement' = None
          /\ endPc' = [t \in Thread |->
                 IF endPc[t] = "off" /\ (t = Revoke \/ ~Alive(t)) THEN "off" ELSE "done"]
          /\ proc' = proc
      BY <2>1 DEF Kill, Fresh
    <3>2. \A t \in Thread : ~Ending(t)' BY <3>1 DEF Ending
    <3>3. \A s \in Session : s \in Thread /\ s # Revoke BY DEF Session, Thread, Revoke
    <3>4. \A s \in Session : Alive(s)' => endPc'[s] = "done" BY <3>1, <3>3 DEF Alive
    <3> QED BY <3>1, <3>2, <3>4
  <2>2. CASE ~Kill
    <3>1. queued = "nullIntent"
      BY <2>2 DEF Next, StartService, Disconnect, Begin, NothingToRestart, MainStep, Sleep1,
                  Lock, Sleep2, ClearStarting, Bind, Listen, ListenFails, StartProcessThread,
                  Register, Record, Connect, Exit, MgmtStep, MgmtRuns, Accept, StopsReading,
                  End, EndThread, EndReceiver, EndRecord, EndService, StopOnly, OnRevoke,
                  OnDestroy, vars
    <3>2. ~MainStep /\ ~OnRevoke /\ ~StopOnly /\ ~OnDestroy /\ ~Begin /\ ~NothingToRestart
          /\ \A bound : ~StartService(bound)
      BY <2>2, <3>1 DEF MainStep, Sleep1, Lock, Sleep2, ClearStarting, Bind, Listen, ListenFails,
                  StartProcessThread, Register, Record, OnRevoke, StopOnly, OnDestroy, Begin,
                  NothingToRestart, StartService
    <3>3. \A t \in Thread : ~End(t)
      BY <3>1 DEF End, EndThread, EndReceiver, EndRecord, EndService, Ending
    <3>4. UNCHANGED <<pc, stopSelfCalled, mManagement>>
      BY <2>2, <3>2, <3>3 DEF Next, Disconnect, Connect, Exit, MgmtStep, MgmtRuns, Accept,
                  StopsReading, vars
    <3>5. CASE \E s \in Session : Exit(s)
      <4>1. PICK s \in Session : Exit(s) BY <3>5
      <4>2. /\ endPc[s] = "done" /\ endPc' = [endPc EXCEPT ![s] = endPc[s]]
            /\ proc' = [proc EXCEPT ![s] = "dead"]
        BY <3>1, <4>1 DEF Exit
      <4>3. endPc' = endPc BY <4>2 DEF TypeInv, TypeOK
      <4>4. \A r \in Session : Alive(r)' => Alive(r) BY <4>2 DEF Alive, TypeInv, TypeOK
      <4> QED BY <3>1, <3>4, <4>3, <4>4 DEF Ending
    <3>6. CASE ~ \E s \in Session : Exit(s)
      <4>1. endPc' = endPc
        BY <2>2, <3>2, <3>3, <3>6 DEF Next, Disconnect, Connect, MgmtStep, MgmtRuns, Accept,
                  StopsReading, vars
      <4>2. \A r \in Session : Alive(r)' => Alive(r)
        BY <2>2, <3>2, <3>3, <3>6 DEF Next, Disconnect, Connect, MgmtStep, MgmtRuns, Accept,
                  StopsReading, vars, Alive, TypeInv, TypeOK
      <4> QED BY <3>1, <3>4, <4>1, <4>2 DEF Ending
    <3> QED BY <3>5, <3>6
  <2> QED BY <2>1, <2>2
<1> QED BY <1>1, <1>2, LifecycleTypes, PTL DEF Spec

\* A step that starts nothing, forgets nothing and ends nothing leaves the service
\* to know as much as before.
LEMMA KnownKept ==
    ASSUME KnownInv, Undisturbed' => Undisturbed, told \subseteq told',
           UNCHANGED <<pc, cur, mProcessThread, mDeviceStateReceiver, lastConnected, endPc>>,
           stopSelfCalled' => stopSelfCalled,
           queued' = "start" => queued = "start" \/ ~stopSelfCalled',
           \A s \in Session : Alive(s)' => Alive(s),
           cur \in Session \cup {None}
    PROVE  KnownInv'
<1> SUFFICES ASSUME Undisturbed' PROVE KnownInv'
  BY DEF KnownInv
<1>1. queued' = "start" \/ pc' \notin {"register", "record", "idle"} => ~stopSelfCalled'
  BY DEF KnownInv
<1>2. \A S \in SUBSET Session : Ended(S) => Ended(S)'
  BY DEF Ended, Ending
<1>3. pc' \in {"bind", "listen", "process"} => Ended(Session)'
  BY <1>2 DEF KnownInv
<1>4. LastRuns' => LastRuns
  BY DEF LastRuns
<1>5. LastRuns => Ended(Session \ {cur})'
  BY <1>2 DEF KnownInv
<1> QED BY <1>1, <1>3, <1>4, <1>5 DEF KnownInv

\* onStartCommand() itself.
LEMMA MainKnown ==
    ASSUME TypeInv, StartInv, RestartInv, KnownInv, Undisturbed' => Undisturbed,
           Begin \/ NothingToRestart \/ MainStep
    PROVE  KnownInv'
<1> SUFFICES ASSUME Undisturbed', Undisturbed PROVE KnownInv'
  BY DEF KnownInv
<1> USE DEF KnownInv, mainVars, serviceVars, mgmtVars, procVars, endVars
<1>0. /\ cur \in Session \cup {None}
      /\ pc # "idle" => cur # None
      /\ proc \in [Session -> ProcState]
  BY DEF TypeInv, TypeOK, Places
<1>a. ASSUME UNCHANGED <<proc, endPc>>, NEW S, Ended(S) PROVE Ended(S)'
  BY <1>a DEF Ended, Alive, Ending
<1>1. CASE Begin
  <2>1. ~stopSelfCalled' /\ pc' \in {"sleep1", "lock"}
    BY <1>1 DEF Begin, RestartInv
  <2> QED BY <2>1 DEF LastRuns
<1>2. CASE NothingToRestart
  <2>1. ~LastRuns BY <1>2 DEF NothingToRestart, LastRuns
  <2>2. ~LastRuns' BY <1>2, <2>1 DEF NothingToRestart, LastRuns, Alive
  <2> QED BY <1>2, <2>2 DEF NothingToRestart
<1>3. CASE Sleep1 \/ Lock \/ Sleep2
  BY <1>3 DEF Sleep1, Lock, Sleep2, LastRuns
<1>4. CASE ClearStarting
  <2>1. ~overlap' BY DEF Undisturbed
  <2>2. ~(Ending(Revoke) \/ \E s \in Session : Unfinished(s))
    BY <1>4, <2>1, Zenon DEF ClearStarting
  <2>3. Ended(Session) BY <2>2 DEF Ended, Unfinished, Thread
  <2>4. Ended(Session)' BY <1>4, <1>a, <2>3 DEF ClearStarting
  <2> QED BY <1>4, <2>4 DEF ClearStarting, LastRuns
<1>5. CASE Bind \/ Listen
  <2>1. Ended(Session)' BY <1>5, <1>a DEF Bind, Listen
  <2> QED BY <1>5, <2>1 DEF Bind, Listen, LastRuns
<1>6. CASE ListenFails
  <2>1. ~Alive(cur) BY <1>0, <1>6 DEF ListenFails, Ended
  <2> QED BY <1>6, <2>1 DEF ListenFails, LastRuns, Alive
<1>7. CASE StartProcessThread
  <2>1. \A s \in Session \ {cur} : proc'[s] = proc[s]
    BY <1>0, <1>7 DEF StartProcessThread
  <2>2. Ended(Session \ {cur})'
    BY <1>7, <2>1 DEF StartProcessThread, Ended, Alive, Ending
  <2> QED BY <1>7, <2>2 DEF StartProcessThread
<1>8. CASE Register \/ Record
  <2>1. LastRuns' => LastRuns BY <1>8 DEF Register, Record, LastRuns, Alive
  <2>2. LastRuns => Ended(Session \ {cur})' BY <1>8, <1>a DEF Register, Record
  <2> QED BY <1>8, <2>1, <2>2 DEF Register, Record, StartInv
<1> QED BY <1>1, <1>2, <1>3, <1>4, <1>5, <1>6, <1>7, <1>8 DEF MainStep

\* The end of a session passes the service only when the last session is none that
\* runs, and stops it only when no start has begun or is queued.
LEMMA EndKnown ==
    ASSUME TypeInv, StartInv, KnownInv, Undisturbed' => Undisturbed,
           NEW t \in Thread, End(t)
    PROVE  KnownInv'
<1> SUFFICES ASSUME Undisturbed', Undisturbed PROVE KnownInv'
  BY DEF KnownInv
<1> USE DEF KnownInv, mainVars, serviceVars, procVars
<1>1. Ending(t) /\ UNCHANGED <<pc, cur, queued, proc, told>>
  BY DEF End, EndThread, EndReceiver, EndRecord, EndService, Ending
<1>2. pc \notin {"bind", "listen", "process"} /\ ~LastRuns
  BY <1>1 DEF Ended
<1>3. ~LastRuns' BY <1>1, <1>2 DEF LastRuns, Alive
<1>4. ASSUME queued = "start" \/ pc \notin {"register", "record", "idle"}
      PROVE  ~stopSelfCalled'
  <2>1. ~stopSelfCalled BY <1>4
  <2>2. CASE EndService(t)
    <3>1. ~overlap' BY DEF Undisturbed
    <3>2. ~(StopsService(t) /\ queued = "start") BY <2>2, <3>1, Zenon DEF EndService
    <3>3. pc \in {"idle", "sleep1", "lock", "sleep2", "clear", "bind", "listen", "process",
                   "register", "record"}
      BY DEF TypeInv, TypeOK
    <3>4. ~StopsService(t) BY <1>2, <1>4, <3>2, <3>3 DEF StartInv, StopsService
    <3> QED BY <2>1, <2>2, <3>4 DEF EndService
  <2>3. CASE ~EndService(t)
    BY <2>1, <2>3 DEF End, EndThread, EndReceiver, EndRecord
  <2> QED BY <2>2, <2>3
<1> QED BY <1>1, <1>2, <1>3, <1>4

\* What stops a session has told it to exit, or is known to have missed it.
LEMMA StopsKnown ==
    ASSUME TypeInv, KnownInv, Undisturbed' => Undisturbed,
           \/ \E bound \in BOOLEAN : Disconnect(bound)
           \/ StopOnly \/ OnRevoke \/ OnDestroy \/ Kill
    PROVE  KnownInv'
<1> SUFFICES ASSUME Undisturbed', Undisturbed PROVE KnownInv'
  BY DEF KnownInv
<1> USE DEF KnownInv, mainVars, serviceVars, procVars, endVars
<1>0. ~missed' /\ cur \in Session \cup {None} BY DEF Undisturbed, TypeInv, TypeOK
<1>a. ASSUME \A s \in Session : Alive(s) => s \in told', UNCHANGED <<cur, proc>>
      PROVE  ~LastRuns'
  BY <1>0, <1>a DEF LastRuns, Alive
<1>1. CASE \E bound \in BOOLEAN : Disconnect(bound)
  <2>1. Stop \/ (NotReached /\ UNCHANGED told) BY <1>1 DEF Disconnect
  <2>2. ~LastRuns' BY <1>0, <1>1, <1>a, <2>1, StopTellsAll DEF Disconnect
  <2> QED BY <1>1, <2>2 DEF Disconnect
<1>2. CASE StopOnly
  <2>1. ~LastRuns' BY <1>0, <1>2, <1>a, StopTellsAll DEF StopOnly
  <2>2. Ended(Session) => Ended(Session)' BY <1>2 DEF StopOnly, Ended, Alive, Ending
  <2> QED BY <1>2, <2>1, <2>2 DEF StopOnly
<1>3. CASE OnRevoke
  <2>1. ~LastRuns' BY <1>0, <1>3, <1>a, StopTellsAll DEF OnRevoke
  <2>2. ~Ended(Session) BY <1>3 DEF OnRevoke, Ended, Alive
  <2> QED BY <1>3, <2>1, <2>2 DEF OnRevoke
<1>4. CASE OnDestroy
  <2>1. ~LastRuns BY <1>4 DEF OnDestroy
  <2>2. told \subseteq told' BY <1>4 DEF OnDestroy, Stop
  <2>3. ~LastRuns' BY <1>4, <2>1, <2>2 DEF OnDestroy, LastRuns, Alive
  <2>4. ~stopSelfCalled' /\ pc' = "idle" BY <1>4 DEF OnDestroy, Fresh
  <2> QED BY <2>3, <2>4
<1>5. CASE Kill
  <2>1. ~(\E s \in Session : proc[s] = "starting") BY <1>0, <1>5, Zenon DEF Kill
  <2>2. ~LastRuns' BY <1>5, <1>a, <2>1 DEF Kill, Alive
  <2>3. ~stopSelfCalled' /\ pc' = "idle" BY <1>5 DEF Kill, Fresh
  <2> QED BY <2>2, <2>3
<1> QED BY <1>1, <1>2, <1>3, <1>4, <1>5

\* The death of a process ends what the service knew of it, and a process that
\* lives beside the last one is a thing of a disturbed past.
LEMMA ExitKnown ==
    ASSUME TypeInv, KnownInv, Undisturbed' => Undisturbed, NEW s \in Session, Exit(s)
    PROVE  KnownInv'
<1> SUFFICES ASSUME Undisturbed', Undisturbed PROVE KnownInv'
  BY DEF KnownInv
<1> USE DEF KnownInv, mainVars, serviceVars
<1>1. /\ Alive(s)
      /\ proc \in [Session -> ProcState] /\ proc' = [proc EXCEPT ![s] = "dead"]
      /\ UNCHANGED <<pc, cur, queued, stopSelfCalled, told>>
  BY DEF Exit, TypeInv, TypeOK
<1>2. pc \notin {"bind", "listen", "process"} BY <1>1 DEF Ended
<1>3. ~LastRuns'
  <2>1. \A r \in Session : Alive(r)' => Alive(r) /\ r # s BY <1>1 DEF Alive
  <2>2. cur \in Session \cup {None} BY DEF TypeInv, TypeOK
  <2>3. LastRuns' => LastRuns /\ cur # s BY <1>1, <2>1, <2>2 DEF LastRuns
  <2> QED BY <1>1, <2>3 DEF Ended
<1> QED BY <1>1, <1>2, <1>3

LEMMA KnownInvariant == Spec => []KnownInv
<1>1. Init => KnownInv BY DEF Init, KnownInv, LastRuns
<1>2. TypeInv /\ StartInv /\ RestartInv /\ KnownInv /\ [Next]_vars => KnownInv'
  <2> SUFFICES ASSUME TypeInv, StartInv, RestartInv, KnownInv, [Next]_vars PROVE KnownInv'
    OBVIOUS
  <2>0. /\ Undisturbed' => Undisturbed
        /\ cur \in Session \cup {None}
    BY HistoryGrows DEF Undisturbed, TypeInv, TypeOK
  <2> DEFINE Same ==
        /\ told \subseteq told'
        /\ UNCHANGED <<pc, cur, mProcessThread, mDeviceStateReceiver, lastConnected, endPc>>
        /\ stopSelfCalled' => stopSelfCalled
        /\ queued' = "start" => queued = "start" \/ ~stopSelfCalled'
        /\ \A s \in Session : Alive(s)' => Alive(s)
  <2>1. Same => KnownInv' BY <2>0, KnownKept
  <2> USE DEF mainVars, serviceVars, endVars, procVars
  <2>2. CASE \E bound \in BOOLEAN : StartService(bound)
    BY <2>1, <2>2 DEF StartService, Alive
  <2>3. CASE \E s \in Session : Connect(s) \/ MgmtStep(s)
    BY <2>1, <2>3 DEF Connect, MgmtStep, MgmtRuns, Accept, StopsReading, Alive, TypeInv, TypeOK
  <2>4. CASE UNCHANGED vars
    BY <2>1, <2>4 DEF vars, Alive
  <2>5. CASE Begin \/ NothingToRestart \/ MainStep
    BY <2>0, <2>5, MainKnown
  <2>6. ASSUME NEW t \in Thread, End(t) PROVE KnownInv'
    BY <2>0, <2>6, EndKnown
  <2>7. CASE \/ \E bound \in BOOLEAN : Disconnect(bound)
             \/ StopOnly \/ OnRevoke \/ OnDestroy \/ Kill
    BY <2>0, <2>7, StopsKnown
  <2>8. ASSUME NEW s \in Session, Exit(s) PROVE KnownInv'
    BY <2>0, <2>8, ExitKnown
  <2> QED BY <2>2, <2>3, <2>4, <2>5, <2>6, <2>7, <2>8 DEF Next
<1> QED BY <1>1, <1>2, LifecycleTypes, StartInvariant, RestartInvariant, PTL DEF Spec

\* Where no end of a session overlapped a later start and no stop missed a process,
\* the service knows the session it runs: it holds its thread, the receiver talks
\* to it, it is the profile to restart and the service will not be destroyed
\* (onStartCommand() lines 343-415 against endVpnService()).
THEOREM RunningSessionIsKnown == Spec => []RunningIsKnown
<1>1. KnownInv => RunningIsKnown
  BY DEF KnownInv, RunningIsKnown, LastRuns
<1> QED BY <1>1, KnownInvariant, PTL

--------------------------------------------------------------------------------
(* What is left when everything has ended.                                 *)

\* Session s has still to pass one of these steps of endVpnService().
ToPass(s, steps) == (Alive(s) /\ endPc[s] = "off") \/ endPc[s] \in steps

\* What QuietIsClean needs to be inductive: what the service holds belongs to a
\* session of this instance whose end has still to pass the step that gives it up.
LeftInv ==
    /\ \A s \in Session : proc[s] = "none" => endPc[s] = "off"
    /\ pc \in {"register", "record"} =>
           owner[cur] = instance /\ (Alive(cur) => endPc[cur] = "off")
    /\ mProcessThread # None =>
           owner[mProcessThread] = instance /\ ToPass(mProcessThread, {"thread"})
    /\ ~hasty /\ mDeviceStateReceiver # None =>
           /\ owner[mDeviceStateReceiver] = instance
           /\ ToPass(mDeviceStateReceiver, {"thread", "unregister"})
    /\ ~hasty /\ ~killed /\ lastConnected # None =>
           ToPass(lastConnected, {"thread", "unregister", "disconnected"})

\* A step that registers nothing keeps this, even if it forgets the profile.
LEMMA LeftKept ==
    ASSUME TypeInv, LeftInv, ~hasty' => ~hasty, ~killed' => ~killed,
           pc' \in {"register", "record"} => pc' = pc /\ cur' = cur,
           UNCHANGED <<instance, mProcessThread, mDeviceStateReceiver>>,
           lastConnected' \in {lastConnected, None},
           \A s \in Session :
               /\ endPc'[s] = endPc[s] /\ owner'[s] = owner[s]
               /\ (Alive(s))' <=> Alive(s)
               /\ proc'[s] = "none" => proc[s] = "none"
    PROVE  LeftInv'
<1>0. /\ {mProcessThread, mDeviceStateReceiver, lastConnected} \subseteq Session \cup {None}
      /\ cur \in Session \cup {None} /\ (pc # "idle" => cur # None)
  BY DEF TypeInv, TypeOK, Places
<1>1. \A steps : \A s \in Session : ToPass(s, steps) => ToPass(s, steps)'
  BY DEF ToPass
<1>2. \A s \in Session : proc'[s] = "none" => endPc'[s] = "off"
  BY DEF LeftInv
<1>3. pc' \in {"register", "record"} =>
          owner'[cur'] = instance' /\ (Alive(cur)' => endPc'[cur'] = "off")
  BY <1>0 DEF LeftInv
<1>4. mProcessThread' # None =>
          owner'[mProcessThread'] = instance' /\ ToPass(mProcessThread, {"thread"})'
  BY <1>0, <1>1 DEF LeftInv
<1>5. ~hasty' /\ mDeviceStateReceiver' # None =>
          /\ owner'[mDeviceStateReceiver'] = instance'
          /\ ToPass(mDeviceStateReceiver, {"thread", "unregister"})'
  BY <1>0, <1>1 DEF LeftInv
<1>6. ~hasty' /\ ~killed' /\ lastConnected' # None =>
          ToPass(lastConnected, {"thread", "unregister", "disconnected"})'
  <2> SUFFICES ASSUME ~hasty', ~killed', lastConnected' # None
               PROVE  ToPass(lastConnected, {"thread", "unregister", "disconnected"})'
    OBVIOUS
  <2>1. lastConnected' = lastConnected /\ lastConnected \in Session BY <1>0
  <2>2. ToPass(lastConnected, {"thread", "unregister", "disconnected"}) BY <2>1 DEF LeftInv
  <2> QED BY <2>1, <2>2 DEF ToPass
<1> QED BY <1>2, <1>3, <1>4, <1>5, <1>6 DEF LeftInv

\* What a start takes is taken for a session that has not ended: otherwise it was
\* hasty.
LEMMA TakenLeft ==
    ASSUME TypeInv, StartInv, LeftInv, ~hasty' => ~hasty,
           StartProcessThread \/ Register \/ Record
    PROVE  LeftInv'
<1>0. /\ {mProcessThread, mDeviceStateReceiver, lastConnected} \subseteq Session \cup {None}
      /\ cur \in Session /\ None \notin Session
      /\ proc \in [Session -> ProcState] /\ owner \in [Thread -> Nat]
      /\ \A s \in Session : s \in Thread
      /\ pc = "process" => proc[cur] = "none"
  BY DEF StartProcessThread, Register, Record, TypeInv, TypeOK, Places, Session, None, Thread,
         BeforeProcess
<1> USE DEF serviceVars, mgmtVars, procVars, endVars
<1>1. CASE StartProcessThread
  <2>1. /\ proc'[cur] = "starting" /\ owner'[cur] = instance
        /\ \A s \in Session \ {cur} : proc'[s] = proc[s] /\ owner'[s] = owner[s]
        /\ mProcessThread' = cur /\ pc' = "register"
        /\ UNCHANGED <<cur, instance, mDeviceStateReceiver, lastConnected, endPc, hasty, killed>>
    BY <1>0, <1>1 DEF StartProcessThread, historyVars
  <2>2. endPc[cur] = "off" /\ ~Alive(cur) /\ \A steps : ToPass(cur, steps) => "off" \in steps
    BY <1>0, <1>1 DEF LeftInv, StartProcessThread, ToPass, Alive
  <2>3. \A steps : \A s \in Session \ {cur} : ToPass(s, steps) => ToPass(s, steps)'
    BY <2>1 DEF ToPass, Alive
  <2>4. ToPass(cur, {"thread"})' BY <2>1, <2>2 DEF ToPass, Alive
  <2>5. ~hasty' /\ mDeviceStateReceiver' # None =>
            /\ owner'[mDeviceStateReceiver'] = instance'
            /\ ToPass(mDeviceStateReceiver, {"thread", "unregister"})'
    <3> SUFFICES ASSUME ~hasty, mDeviceStateReceiver # None
                 PROVE  /\ owner'[mDeviceStateReceiver'] = instance'
                        /\ ToPass(mDeviceStateReceiver, {"thread", "unregister"})'
      BY <2>1
    <3>1. /\ owner[mDeviceStateReceiver] = instance
          /\ ToPass(mDeviceStateReceiver, {"thread", "unregister"})
      BY DEF LeftInv
    <3>2. mDeviceStateReceiver \in Session \ {cur} BY <1>0, <2>2, <3>1
    <3> QED BY <2>1, <3>1, <3>2 DEF ToPass, Alive
  <2>6. ~hasty' /\ ~killed' /\ lastConnected' # None =>
            ToPass(lastConnected, {"thread", "unregister", "disconnected"})'
    <3> SUFFICES ASSUME ~hasty, ~killed, lastConnected # None
                 PROVE  ToPass(lastConnected, {"thread", "unregister", "disconnected"})'
      BY <2>1
    <3>1. ToPass(lastConnected, {"thread", "unregister", "disconnected"})
      BY DEF LeftInv
    <3>2. lastConnected \in Session \ {cur} BY <1>0, <2>2, <3>1
    <3> QED BY <2>1, <3>1, <3>2 DEF ToPass, Alive
  <2>7. \A s \in Session : proc'[s] = "none" => endPc'[s] = "off"
    BY <2>1 DEF LeftInv
  <2>8. mProcessThread' # None =>
            owner'[mProcessThread'] = instance' /\ ToPass(mProcessThread, {"thread"})'
    BY <2>1, <2>2 DEF ToPass, Alive
  <2> QED BY <2>1, <2>2, <2>5, <2>6, <2>7, <2>8 DEF LeftInv
<1>2. CASE Register
  <2>1. ~hasty' => Alive(cur) BY <1>2, Zenon DEF Register
  <2>2. mDeviceStateReceiver' = cur BY <1>2 DEF Register, StartInv
  <2>3. owner[cur] = instance /\ (Alive(cur) => endPc[cur] = "off")
    BY <1>2 DEF Register, LeftInv
  <2>4. UNCHANGED <<cur, instance, mProcessThread, lastConnected, proc, endPc, owner, killed>>
        /\ pc' = "record"
    BY <1>2 DEF Register
  <2> QED BY <2>1, <2>2, <2>3, <2>4 DEF LeftInv, ToPass, Alive
<1>3. CASE Record
  <2>1. ~hasty' => Alive(cur) BY <1>3, Zenon DEF Record
  <2>2. Alive(cur) => endPc[cur] = "off" BY <1>3 DEF Record, LeftInv
  <2>3. UNCHANGED <<cur, instance, mProcessThread, mDeviceStateReceiver, proc, endPc, owner, killed>>
        /\ pc' = "idle" /\ lastConnected' = cur
    BY <1>3 DEF Record
  <2> QED BY <2>1, <2>2, <2>3 DEF LeftInv, ToPass, Alive
<1> QED BY <1>1, <1>2, <1>3

\* A process that dies has its end before it.
LEMMA ExitLeft ==
    ASSUME TypeInv, LeftInv, NEW s \in Session, Exit(s)
    PROVE  LeftInv'
<1>1. /\ proc[s] # "none" /\ proc'[s] = "dead" /\ Alive(s)
      /\ \A r \in Session \ {s} : proc'[r] = proc[r] /\ endPc'[r] = endPc[r]
      /\ endPc'[s] = IF endPc[s] = "off" THEN "thread" ELSE endPc[s]
  BY DEF Exit, TypeInv, TypeOK, Alive, Thread
<1>2. UNCHANGED <<pc, cur, instance, mProcessThread, mDeviceStateReceiver, lastConnected, owner,
                  hasty, killed>>
  BY DEF Exit, mainVars, serviceVars, historyVars
<1>3. \A steps : \A r \in Session : "thread" \in steps /\ ToPass(r, steps) => ToPass(r, steps)'
  BY <1>1 DEF ToPass, Alive
<1>4. \A r \in Session : Alive(r)' => Alive(r) /\ r # s
  BY <1>1 DEF Alive
<1>5. /\ {mProcessThread, mDeviceStateReceiver, lastConnected} \subseteq Session \cup {None}
      /\ pc # "idle" => cur \in Session
  BY DEF TypeInv, TypeOK, Places
<1>6. \A r \in Session : proc'[r] = "none" => endPc'[r] = "off"
  BY <1>1 DEF LeftInv
<1>7. pc' \in {"register", "record"} =>
          owner'[cur'] = instance' /\ (Alive(cur)' => endPc'[cur'] = "off")
  BY <1>1, <1>2, <1>4, <1>5 DEF LeftInv
<1>8. mProcessThread' # None =>
          owner'[mProcessThread'] = instance' /\ ToPass(mProcessThread, {"thread"})'
  BY <1>2, <1>3, <1>5 DEF LeftInv
<1>9. ~hasty' /\ mDeviceStateReceiver' # None =>
          /\ owner'[mDeviceStateReceiver'] = instance'
          /\ ToPass(mDeviceStateReceiver, {"thread", "unregister"})'
  BY <1>2, <1>3, <1>5 DEF LeftInv
<1>10. ~hasty' /\ ~killed' /\ lastConnected' # None =>
          ToPass(lastConnected, {"thread", "unregister", "disconnected"})'
  BY <1>2, <1>3, <1>5 DEF LeftInv
<1> QED BY <1>6, <1>7, <1>8, <1>9, <1>10 DEF LeftInv

\* Each step of endVpnService() gives up what it is there for, if it is the
\* instance's own.
LEMMA EndLeft ==
    ASSUME TypeInv, LeftInv, NEW t \in Thread, End(t)
    PROVE  LeftInv'
<1>0. /\ {mProcessThread, mDeviceStateReceiver, lastConnected} \subseteq Session \cup {None}
      /\ endPc \in [Thread -> EndStep] /\ (\A s \in Session : s \in Thread)
      /\ pc # "idle" => cur \in Session
  BY DEF TypeInv, TypeOK, Places, Thread
<1>1. /\ UNCHANGED <<pc, cur, instance, proc, owner, hasty, killed>>
      /\ endPc[t] \notin {"off", "done"}
      /\ \A s \in Session : s # t => endPc'[s] = endPc[s]
  BY <1>0 DEF End, EndThread, EndReceiver, EndRecord, EndService, mainVars, serviceVars,
              procVars, historyVars
<1>2. \A s \in Session : s # t => \A steps : ToPass(s, steps) => ToPass(s, steps)'
  BY <1>1 DEF ToPass, Alive
<1>3. \A s \in Session : proc'[s] = "none" => endPc'[s] = "off"
  BY <1>1 DEF LeftInv
<1>4. pc' \in {"register", "record"} =>
          owner'[cur'] = instance' /\ (Alive(cur)' => endPc'[cur'] = "off")
  BY <1>0, <1>1 DEF LeftInv, Alive
<1>5. mProcessThread' # None =>
          owner'[mProcessThread'] = instance' /\ ToPass(mProcessThread, {"thread"})'
  <2> SUFFICES ASSUME mProcessThread' # None
               PROVE  owner'[mProcessThread'] = instance' /\ ToPass(mProcessThread, {"thread"})'
    OBVIOUS
  <2>1. mProcessThread' = mProcessThread
    BY DEF End, EndThread, EndReceiver, EndRecord, EndService, serviceVars
  <2>2. owner[mProcessThread] = instance /\ ToPass(mProcessThread, {"thread"})
    BY <2>1 DEF LeftInv
  <2>3. mProcessThread # t
    BY <1>1, <2>1, <2>2 DEF ToPass, End, EndThread, EndReceiver, EndRecord, EndService
  <2> QED BY <1>0, <1>1, <2>1, <2>2, <2>3 DEF ToPass, Alive
<1>6. ~hasty' /\ mDeviceStateReceiver' # None =>
          /\ owner'[mDeviceStateReceiver'] = instance'
          /\ ToPass(mDeviceStateReceiver, {"thread", "unregister"})'
  <2> SUFFICES ASSUME ~hasty, mDeviceStateReceiver' # None
               PROVE  /\ owner'[mDeviceStateReceiver'] = instance'
                      /\ ToPass(mDeviceStateReceiver, {"thread", "unregister"})'
    BY <1>1
  <2>1. mDeviceStateReceiver' = mDeviceStateReceiver
    BY DEF End, EndThread, EndReceiver, EndRecord, EndService, ReceiverLeft, serviceVars
  <2>2. /\ owner[mDeviceStateReceiver] = instance
        /\ ToPass(mDeviceStateReceiver, {"thread", "unregister"})
    BY <2>1 DEF LeftInv
  <2>3. CASE mDeviceStateReceiver # t
    BY <1>0, <1>1, <2>1, <2>2, <2>3 DEF ToPass, Alive
  <2>4. CASE mDeviceStateReceiver = t
    <3>1. EndThread(t)
      BY <1>1, <2>1, <2>2, <2>4 DEF ToPass, End, EndThread, EndReceiver, EndRecord, EndService,
                                         ReceiverLeft, serviceVars
    <3>2. endPc'[t] = "unregister" BY <1>0, <3>1 DEF EndThread
    <3> QED BY <1>1, <2>1, <2>2, <2>4, <3>2 DEF ToPass
  <2> QED BY <2>3, <2>4
<1>7. ~hasty' /\ ~killed' /\ lastConnected' # None =>
          ToPass(lastConnected, {"thread", "unregister", "disconnected"})'
  <2> SUFFICES ASSUME ~hasty, ~killed, lastConnected' # None
               PROVE  ToPass(lastConnected, {"thread", "unregister", "disconnected"})'
    BY <1>1
  <2>1. lastConnected' = lastConnected /\ ~EndRecord(t)
    BY DEF End, EndThread, EndReceiver, EndRecord, EndService, serviceVars
  <2>2. ToPass(lastConnected, {"thread", "unregister", "disconnected"})
    BY <2>1 DEF LeftInv
  <2>3. CASE lastConnected # t
    BY <1>0, <1>1, <2>1, <2>2, <2>3 DEF ToPass, Alive
  <2>4. CASE lastConnected = t
    <3>1. EndThread(t) \/ EndReceiver(t)
      BY <1>1, <2>1, <2>2, <2>4 DEF ToPass, End, EndThread, EndReceiver, EndRecord, EndService
    <3>2. endPc'[t] \in {"unregister", "disconnected"} BY <1>0, <3>1 DEF EndThread, EndReceiver
    <3> QED BY <1>1, <2>1, <2>2, <2>4, <3>2 DEF ToPass
  <2> QED BY <2>3, <2>4
<1> QED BY <1>3, <1>4, <1>5, <1>6, <1>7 DEF LeftInv

\* A revocation ends in a thread of its own.
LEMMA RevokeLeft ==
    ASSUME TypeInv, LeftInv, OnRevoke
    PROVE  LeftInv'
<1>1. \A s \in Session : s \in Thread /\ s # Revoke BY DEF Session, Thread, Revoke
<1>2. \A s \in Session : endPc'[s] = endPc[s] /\ owner'[s] = owner[s]
  BY <1>1 DEF OnRevoke, TypeInv, TypeOK
<1>3. UNCHANGED <<pc, cur, instance, mProcessThread, mDeviceStateReceiver, lastConnected, proc,
                  hasty, killed>>
  BY DEF OnRevoke, mainVars, serviceVars
<1> QED BY <1>2, <1>3, LeftKept DEF Alive

\* A new instance holds nothing of the former one.
LEMMA FreshLeft ==
    ASSUME TypeInv, LeftInv, ~hasty' => ~hasty, OnDestroy \/ Kill
    PROVE  LeftInv'
<1>1. /\ mProcessThread' = None /\ mDeviceStateReceiver' = None /\ pc' = "idle"
      /\ proc' = proc
  BY DEF OnDestroy, Kill, Fresh
<1>2. \A s \in Session : proc'[s] = "none" => endPc'[s] = "off"
  <2>1. CASE OnDestroy BY <1>1, <2>1 DEF OnDestroy, endVars, LeftInv
  <2>2. CASE Kill
    <3>1. \A s \in Session : s \in Thread BY DEF Thread
    <3> QED BY <1>1, <2>2, <3>1 DEF Kill, LeftInv, Alive
  <2> QED BY <2>1, <2>2
<1>3. ~hasty' /\ ~killed' /\ lastConnected' # None =>
          ToPass(lastConnected, {"thread", "unregister", "disconnected"})'
  <2>1. CASE OnDestroy
    BY <1>1, <2>1 DEF OnDestroy, endVars, LeftInv, ToPass, Alive
  <2>2. CASE Kill BY <2>2 DEF Kill
  <2> QED BY <2>1, <2>2
<1> QED BY <1>1, <1>2, <1>3 DEF LeftInv

LEMMA LeftInvariant == Spec => []LeftInv
<1>1. Init => LeftInv BY DEF Init, LeftInv, Thread
<1>2. TypeInv /\ StartInv /\ LeftInv /\ [Next]_vars => LeftInv'
  <2> SUFFICES ASSUME TypeInv, StartInv, LeftInv, [Next]_vars PROVE LeftInv'
    OBVIOUS
  <2>0. (~hasty' => ~hasty) /\ (~killed' => ~killed)
    BY HistoryGrows
  <2> DEFINE Same ==
        /\ pc' \in {"register", "record"} => pc' = pc /\ cur' = cur
        /\ UNCHANGED <<instance, mProcessThread, mDeviceStateReceiver, endPc, owner>>
        /\ lastConnected' \in {lastConnected, None}
        /\ \A s \in Session : /\ (Alive(s))' <=> Alive(s)
                              /\ proc'[s] = "none" => proc[s] = "none"
  <2>1. Same => LeftInv' BY <2>0, LeftKept
  <2> USE DEF mainVars, serviceVars, endVars, procVars
  <2>2. CASE \E s \in Session : Connect(s) \/ MgmtStep(s)
    BY <2>1, <2>2 DEF Connect, MgmtStep, MgmtRuns, Accept, StopsReading, Alive, TypeInv, TypeOK
  <2>3. CASE \/ \E bound \in BOOLEAN : StartService(bound) \/ Disconnect(bound)
             \/ Begin \/ NothingToRestart \/ StopOnly \/ UNCHANGED vars
    BY <2>1, <2>3 DEF StartService, Disconnect, ForgetProfile, Begin, NothingToRestart, StopOnly,
                      vars, Alive
  <2>4. CASE Sleep1 \/ Lock \/ Sleep2 \/ ClearStarting \/ Bind \/ Listen \/ ListenFails
    BY <2>1, <2>4 DEF Sleep1, Lock, Sleep2, ClearStarting, Bind, Listen, ListenFails, Alive
  <2>5. CASE StartProcessThread \/ Register \/ Record
    BY <2>0, <2>5, TakenLeft
  <2>6. CASE OnDestroy \/ Kill
    BY <2>0, <2>6, FreshLeft
  <2> QED BY <2>2, <2>3, <2>4, <2>5, <2>6, ExitLeft, EndLeft, RevokeLeft DEF Next, MainStep
<1> QED BY <1>1, <1>2, LifecycleTypes, StartInvariant, PTL DEF Spec

\* When everything has ended, no thread and no registered receiver is left, and no
\* profile to restart unless Android killed the app: whatever ends overlapped
\* whatever starts, except after a process that was dead before onStartCommand()
\* registered the receiver and the profile (onStartCommand(), endVpnService()).
THEOREM QuietLeavesNothing == Spec => []QuietIsClean
<1>1. TypeInv /\ LeftInv => QuietIsClean
  <2> SUFFICES ASSUME TypeInv, LeftInv, Quiet, ~hasty
               PROVE  /\ mProcessThread = None /\ mDeviceStateReceiver = None
                      /\ ~killed => lastConnected = None
    BY DEF QuietIsClean
  <2>1. \A s \in Session :
            ~ToPass(s, {"thread"}) /\ ~ToPass(s, {"thread", "unregister"})
            /\ ~ToPass(s, {"thread", "unregister", "disconnected"})
    BY DEF Quiet, ToPass, Ending, Thread
  <2>2. {mProcessThread, mDeviceStateReceiver, lastConnected} \subseteq Session \cup {None}
    BY DEF TypeInv, TypeOK
  <2> QED BY <2>1, <2>2 DEF LeftInv
<1> QED BY <1>1, LifecycleTypes, LeftInvariant, PTL
================================================================================
