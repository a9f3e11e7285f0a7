-------------------------- MODULE HoldProtocol_proofs --------------------------
(***************************************************************************)
(* For every number of networks and every bound, however threads and reads *)
(* overlap: the fields and sockets of HoldProtocol keep their types, a     *)
(* process in hold is never forgotten, a wakeup is lost by one race only,  *)
(* a pause by two, and the protocol implements PauseControl and keeps what *)
(* that module proves.                                                     *)
(***************************************************************************)
EXTENDS HoldProtocol, FiniteSetTheorems, TLAPS

(***************************************************************************)
(* The receiver is the one of PauseControl, and what that module proves of *)
(* its handlers is true of it here.                                        *)
(***************************************************************************)
Kept == INSTANCE PauseControl_proofs WITH counting <- (pc["mgmt"] = "count")

LEMMA SameCallsKept ==
    /\ Kept!Threads = Threads /\ Kept!Calls = Calls /\ Kept!NoCall = NoCall
    /\ \A r : Kept!Pause(r) = Pause(r)
    /\ \A t, c : Kept!Issue(t, c) <=> Issue(t, c)
    /\ \A n, s, u : Kept!Connected(n, s, u) = Connected(n, s, u)
    /\ \A n, s, u : Kept!GetPauseReason(n, s, u) = GetPauseReason(n, s, u)
    /\ \A s : Kept!SettleScreen(s) = SettleScreen(s)
    /\ (Kept!ShouldBeConnected) = ShouldBeConnected
BY DEF Kept!Threads, Threads, Kept!Calls, Calls, Kept!NoCall, NoCall, Kept!Pause, Pause,
       Kept!Resume, Resume, Kept!Reconnect, Reconnect, Kept!NetworkChange, NetworkChange,
       Kept!ReleaseHold, ReleaseHold, Kept!ForgetReason, ForgetReason, Kept!PauseReason,
       PauseReason, Kept!Issue, Issue, Kept!Connected, Connected, Kept!GetPauseReason,
       GetPauseReason, Kept!SettleScreen, SettleScreen, Kept!ShouldBeConnected,
       ShouldBeConnected

LEMMA SameReceiver ==
    /\ Kept!DeviceTypeOK <=> DeviceTypeOK
    /\ (Kept!DeviceTypeOK)' <=> DeviceTypeOK'
    /\ Kept!DeviceInit <=> DeviceInit
    /\ Kept!MainEvent <=> MainEvent
    /\ \A t : Kept!UserRequest(t) <=> UserRequest(t)
    /\ Kept!ScreenOffPause <=> ScreenOffPause
BY SameCallsKept
   DEF Kept!DeviceTypeOK, DeviceTypeOK, Kept!ConnectState, ConnectState, Kept!DeviceInit,
       DeviceInit, Kept!MainEvent, MainEvent, Kept!NetworkConnected, NetworkConnected,
       Kept!NetworkLost, NetworkLost, Kept!ScreenOff, ScreenOff, Kept!ScreenOn, ScreenOn,
       Kept!EditPreference, EditPreference, Kept!UserRequest, UserRequest, Kept!UserPause,
       UserPause, Kept!UserResume, UserResume, Kept!ScreenOffPause, ScreenOffPause,
       Kept!NetworkChange, NetworkChange, Kept!Resume, Resume, Kept!Reconnect, Reconnect,
       Kept!ReleaseDecided, ReleaseDecided, Kept!ReleaseHold, ReleaseHold

\* Its handlers keep the types of its fields.
LEMMA ReceiverTypes ==
    /\ DeviceInit => DeviceTypeOK
    /\ DeviceTypeOK /\ MainEvent => DeviceTypeOK'
    /\ DeviceTypeOK /\ ScreenOffPause => DeviceTypeOK'
    /\ \A t \in Threads : DeviceTypeOK /\ UserRequest(t) => DeviceTypeOK'
BY SameReceiver, SameCallsKept, NetworksAssumption, RequestersAssumption, SwitchesAssumption,
   Kept!DeviceInitType, Kept!MainEventType, Kept!UserRequestType, Kept!ScreenOffPauseType

\* A pause call carries its reason, and what a call leaves to do is a call.
LEMMA CallTypes ==
    /\ {ReleaseHold, ForgetReason, NoCall} \subseteq Calls
    /\ \A c \in Calls : c.op = "pause" => c.reason \in PauseReason
BY DEF Calls, Pause, Resume, Reconnect, NetworkChange, ReleaseHold, ForgetReason,
       NoCall, PauseReason

\* A thread that carries out its call changes its own entry of call only.
LEMMA CallStepType ==
    ASSUME DeviceTypeOK, NEW t \in Threads, NEW c \in Calls, Issue(t, c),
           UNCHANGED receiverVars
    PROVE DeviceTypeOK'
BY DEF DeviceTypeOK, Issue, receiverVars

--------------------------------------------------------------------------------
(***************************************************************************)
(* The protocol: types, and a process in hold is never forgotten.          *)
(***************************************************************************)

LEMMA MainThread == {"main", "mgmt"} \subseteq Threads /\ Requesters \subseteq Threads
BY RequestersAssumption DEF Threads

LEMMA CommandsInTransit ==
    ASSUME toNative \in Seq(Command), NEW c \in Command, Send(c)
    PROVE /\ toNative' \in Seq(Command)
          /\ InFlight(c)'
          /\ \A d : InFlight(d) => InFlight(d)'
BY DEF Send, InFlight, Contains

\* The answers of a process in hold are notifications.
LEMMA NoticesType ==
    ASSUME NEW batch \in Seq(Command), NEW cmd
    PROVE Notices(Count(batch, cmd)) \in Seq({HOLD})
<1> DEFINE S == {i \in DOMAIN batch : batch[i] = cmd}
<1>1. IsFiniteSet(1 .. Len(batch))
    BY FS_Interval
<1>2. S \subseteq 1 .. Len(batch)
    OBVIOUS
<1>3. Cardinality(S) \in Nat
    BY <1>1, <1>2, FS_Subset, FS_CardinalityType
<1> QED BY <1>3 DEF Notices, Count

\* What the process reads are commands, and so is what it leaves unread.
LEMMA BatchType ==
    ASSUME toNative \in Seq(Command), NEW n \in 1 .. Len(toNative)
    PROVE /\ SubSeq(toNative, 1, n) \in Seq(Command)
          /\ SubSeq(toNative, n + 1, Len(toNative)) \in Seq(Command)
OBVIOUS

\* A step of a thread keeps the types, whichever step it is.
LEMMA StepType ==
    ASSUME HoldTypeOK, NEW t \in Threads, Step(t)
    PROVE HoldTypeOK'
<1> USE DEF HoldTypeOK, Goto, PC, historyVars
<1>1. ASSUME StartCall(t) PROVE HoldTypeOK'
    <2> USE <1>1 DEF StartCall
    <2>0. call[t] \in Calls
        BY DEF DeviceTypeOK
    <2>1. CASE CallPause(t)
        <3>1. call[t].reason \in PauseReason
            BY <2>0, <2>1, CallTypes DEF CallPause
        <3>2. DeviceTypeOK'
            BY <2>1, CallTypes, CallStepType DEF CallPause
        <3> QED BY <2>1, <3>1, <3>2 DEF CallPause
    <2>2. CASE CallReconnect(t)
        BY <2>2, CallTypes, CallStepType DEF CallReconnect
    <2>3. CASE CallReleaseHold(t)
        <3>1. DeviceTypeOK'
            BY <2>3, CallTypes, CallStepType DEF CallReleaseHold
        <3> QED BY <2>3, <3>1 DEF CallReleaseHold
    <2>4. CASE CallForgetReason(t)
        <3>1. DeviceTypeOK'
            BY <2>4, CallTypes, CallStepType DEF CallForgetReason
        <3> QED BY <2>4, <3>1 DEF CallForgetReason, PauseReason
    <2>5. CASE CallNetworkChange(t)
        BY <2>5, CallTypes, CallStepType DEF CallNetworkChange, fieldVars
    <2> QED BY <2>1, <2>2, <2>3, <2>4, <2>5
<1>2. ASSUME UNCHANGED deviceVars PROVE DeviceTypeOK'
    BY <1>2 DEF deviceVars, receiverVars, DeviceTypeOK
<1>3. CASE SendUnlessWaiting(t) /\ UNCHANGED deviceVars
    <2>1. toNative' \in Seq(Command)
        BY <1>3, CommandsInTransit DEF SendUnlessWaiting, Command
    <2> QED BY <1>2, <1>3, <2>1 DEF SendUnlessWaiting, fieldVars
<1>4. CASE CheckWaiting(t) /\ UNCHANGED deviceVars
    <2>1. raced' \in BOOLEAN
        BY <1>4, Zenon DEF CheckWaiting
    <2> QED BY <1>2, <1>4, <2>1 DEF CheckWaiting, fieldVars
<1>5. CASE ClearWaiting(t) /\ UNCHANGED deviceVars
    BY <1>2, <1>5 DEF ClearWaiting
<1>6. CASE SendRelease(t) /\ UNCHANGED deviceVars
    <2>1. toNative' \in Seq(Command)
        BY <1>6, CommandsInTransit DEF SendRelease, Command
    <2>2. outrun' \in BOOLEAN
        BY <1>6, Zenon DEF SendRelease
    <2> QED BY <1>2, <1>6, <2>1, <2>2 DEF SendRelease, fieldVars
<1>7. CASE SetWaiting(t) /\ UNCHANGED deviceVars
    <2>1. outrun' \in BOOLEAN
        BY <1>7, Zenon DEF SetWaiting
    <2> QED BY <1>2, <1>7, <2>1 DEF SetWaiting
<1> QED BY <1>1, <1>3, <1>4, <1>5, <1>6, <1>7 DEF Step

\* Reading and restarting keep the types of the sockets.
LEMMA NativeType ==
    ASSUME HoldTypeOK, NativeRead \/ NativeRestart
    PROVE HoldTypeOK'
<1> USE DEF HoldTypeOK, historyVars
<1>1. ASSUME UNCHANGED deviceVars PROVE DeviceTypeOK'
    BY <1>1 DEF deviceVars, receiverVars, DeviceTypeOK
<1>2. CASE NativeRead
    <2>1. PICK n \in 1 .. Len(toNative) :
              /\ ReadInHold(SubSeq(toNative, 1, n)) \/ ReadInRun(SubSeq(toNative, 1, n))
              /\ toNative' = SubSeq(toNative, n + 1, Len(toNative))
              /\ UNCHANGED <<deviceVars, fieldVars, pc, historyVars>>
        BY <1>2 DEF NativeRead
    <2> DEFINE batch == SubSeq(toNative, 1, n)
    <2>2. toJava' \in Seq({HOLD}) /\ native' \in {"hold", "run"}
        <3>1. CASE ReadInHold(batch)
            <4>1. Notices(Count(batch, "usr1")) \in Seq({HOLD})
                BY BatchType, NoticesType
            <4>2. toJava \o Notices(Count(batch, "usr1")) \in Seq({HOLD})
                BY <4>1
            <4> QED BY <3>1, <4>2 DEF ReadInHold
        <3>2. CASE ReadInRun(batch)
            <4>1. Append(toJava, HOLD) \in Seq({HOLD})
                OBVIOUS
            <4>2. toJava' \in {toJava, Append(toJava, HOLD)} /\ native' \in {"hold", "run"}
                BY <3>2 DEF ReadInRun, Restart
            <4> QED BY <4>1, <4>2
        <3> QED BY <2>1, <3>1, <3>2
    <2>3. toNative' \in Seq(Command)
        BY <2>1, BatchType
    <2> QED BY <1>1, <2>1, <2>2, <2>3 DEF fieldVars
<1>3. CASE NativeRestart
    BY <1>1, <1>3 DEF NativeRestart, Restart, fieldVars
<1> QED BY <1>2, <1>3

\* The fields of OpenVpnManagementThread, the program counters, the sockets
\* and the state of the process have their types in every reachable state.
THEOREM HoldTypeCorrect == HoldSpec => []HoldTypeOK
<1>1. HoldInit => HoldTypeOK
    <2> SUFFICES ASSUME HoldInit PROVE HoldTypeOK
        OBVIOUS
    <2>1. toNative \in Seq(Command) /\ toJava \in Seq({HOLD})
        BY DEF HoldInit
    <2>2. DeviceTypeOK /\ mReleaseHold \in BOOLEAN
        BY ReceiverTypes DEF HoldInit, DeviceInit
    <2> QED BY <2>1, <2>2 DEF HoldInit, HoldTypeOK, PC, PauseReason
<1>2. HoldTypeOK /\ [HoldNext]_holdVars => HoldTypeOK'
    <2> SUFFICES ASSUME HoldTypeOK, [HoldNext]_holdVars PROVE HoldTypeOK'
        OBVIOUS
    <2> USE DEF HoldTypeOK, historyVars
    <2>0. ASSUME UNCHANGED deviceVars PROVE DeviceTypeOK'
        BY <2>0 DEF deviceVars, receiverVars, DeviceTypeOK
    <2>1. CASE Event
        <3>1. DeviceTypeOK'
            BY <2>1, MainThread, ReceiverTypes DEF Event
        <3> QED BY <2>1, <3>1 DEF Event, fieldVars
    <2>2. ASSUME NEW t \in Threads, Step(t) PROVE HoldTypeOK'
        BY <2>2, StepType
    <2>3. CASE HandleHold
        <3>1. toJava' \in Seq({HOLD})
            BY <2>3 DEF HandleHold
        <3>2. pc' \in [Threads -> PC]
            BY <2>3 DEF HandleHold, Goto, PC
        <3> QED BY <2>0, <2>3, <3>1, <3>2 DEF HandleHold, fieldVars
    <2>4. CASE CountBytes \/ EnoughTraffic
        BY <2>0, <2>4 DEF CountBytes, EnoughTraffic, Goto, PC, fieldVars
    <2>5. CASE LowTraffic
        BY <2>5, ReceiverTypes DEF LowTraffic, Goto, PC, fieldVars
    <2>6. CASE NativeRead \/ NativeRestart
        BY <2>6, NativeType
    <2>7. CASE UNCHANGED holdVars
        BY <2>0, <2>7 DEF holdVars, fieldVars
    <2> QED BY <2>1, <2>2, <2>3, <2>4, <2>5, <2>6, <2>7 DEF HoldNext
<1> QED BY <1>1, <1>2, PTL DEF HoldSpec

--------------------------------------------------------------------------------
\* A read by a process in hold either brings it the release or leaves the
\* release in the socket.
LEMMA ReleaseNotLost ==
    ASSUME HoldTypeOK, NEW n \in 1 .. Len(toNative),
           ReadInHold(SubSeq(toNative, 1, n)),
           toNative' = SubSeq(toNative, n + 1, Len(toNative)),
           InFlight("release")
    PROVE native' = "run" \/ InFlight("release")'
<1>1. PICK i \in DOMAIN toNative : toNative[i] = "release"
    BY DEF InFlight, Contains
<1>2. toNative \in Seq(Command)
    BY DEF HoldTypeOK
<1>3. CASE i <= n
    <2>1. /\ i \in DOMAIN SubSeq(toNative, 1, n)
          /\ SubSeq(toNative, 1, n)[i] = "release"
        BY <1>1, <1>2, <1>3
    <2> QED BY <2>1 DEF ReadInHold, Contains
<1>4. CASE i > n
    <2>1. /\ i - n \in DOMAIN toNative'
          /\ toNative'[i - n] = "release"
        BY <1>1, <1>2, <1>4
    <2> QED BY <2>1 DEF InFlight, Contains
<1> QED BY <1>1, <1>2, <1>3, <1>4

\* A thread that starts to write the release is taken note of by its pc.
LEMMA StepTracked ==
    ASSUME HoldTypeOK, HoldTracked, NEW t \in Threads, Step(t)
    PROVE HoldTracked'
<1> SUFFICES ASSUME native = "hold" PROVE HoldTracked'
    BY DEF HoldTracked, Step, StartCall, SendUnlessWaiting, CheckWaiting, ClearWaiting,
           SendRelease, SetWaiting
<1> USE DEF HoldTypeOK, Goto, InFlight
<1>1. CASE StartCall(t)
    <2>1. UNCHANGED <<mWaitingForRelease, toNative, toJava, native>> /\ pc[t] = "ready"
        BY <1>1 DEF StartCall, CallPause, CallReconnect, CallReleaseHold,
                    CallForgetReason, CallNetworkChange, fieldVars
    <2>2. \A u \in Threads : pc[u] # "ready" => pc'[u] = pc[u]
        BY <1>1 DEF StartCall, CallPause, CallReconnect, CallReleaseHold,
                    CallForgetReason, CallNetworkChange
    <2> QED BY <2>1, <2>2, MainThread DEF HoldTracked
<1>2. CASE SendUnlessWaiting(t)
    <2>1. InFlight("release") => InFlight("release")'
        BY <1>2, CommandsInTransit DEF SendUnlessWaiting, Command
    <2> QED BY <1>2, <2>1, MainThread DEF SendUnlessWaiting, HoldTracked, fieldVars
<1>3. CASE CheckWaiting(t)
    BY <1>3, MainThread DEF CheckWaiting, HoldTracked, fieldVars
<1>4. CASE ClearWaiting(t)
    BY <1>4 DEF ClearWaiting, HoldTracked
<1>5. CASE SendRelease(t)
    BY <1>5, CommandsInTransit DEF SendRelease, HoldTracked, Command
<1>6. CASE SetWaiting(t)
    BY <1>6 DEF SetWaiting, HoldTracked
<1> QED BY <1>1, <1>2, <1>3, <1>4, <1>5, <1>6 DEF Step

\* A process in hold is never forgotten (HoldTracked), however the threads
\* overtake each other and however many commands the process reads at once.
\* With HoldTypeOK the invariant is inductive: the only step that takes the
\* last trace of a hold away is the read of the release, which ends the hold.
THEOREM HoldNeverForgotten == HoldSpec => []HoldTracked
<1>1. HoldInit => HoldTracked
    BY DEF HoldInit, HoldTracked
<1>2. HoldTypeOK /\ HoldTracked /\ [HoldNext]_holdVars => HoldTracked'
    <2> SUFFICES ASSUME HoldTypeOK, HoldTracked, [HoldNext]_holdVars PROVE HoldTracked'
        OBVIOUS
    <2>1. CASE Event
        BY <2>1 DEF Event, HoldTracked, InFlight, fieldVars
    <2>2. ASSUME NEW t \in Threads, Step(t) PROVE HoldTracked'
        BY <2>2, StepTracked
    <2>3. CASE HandleHold
        BY <2>3, MainThread DEF HandleHold, Goto, HoldTypeOK, HoldTracked
    <2>4. CASE CountBytes \/ EnoughTraffic \/ LowTraffic
        <3>1. /\ UNCHANGED <<mWaitingForRelease, toNative, toJava, native>>
              /\ pc["mgmt"] \in {"ready", "count"}
              /\ \A u \in Threads : u # "mgmt" => pc'[u] = pc[u]
            BY <2>4 DEF CountBytes, EnoughTraffic, LowTraffic, AtRest, Goto,
                        HoldTypeOK, fieldVars
        <3> QED BY <3>1 DEF HoldTracked, InFlight
    <2>5. CASE NativeRead
        <3>1. PICK n \in 1 .. Len(toNative) :
                  /\ \/ ReadInHold(SubSeq(toNative, 1, n))
                     \/ ReadInRun(SubSeq(toNative, 1, n))
                  /\ toNative' = SubSeq(toNative, n + 1, Len(toNative))
                  /\ UNCHANGED <<mWaitingForRelease, pc>>
            BY <2>5 DEF NativeRead, fieldVars
        <3>2. CASE ReadInRun(SubSeq(toNative, 1, n))
            BY <3>1, <3>2 DEF ReadInRun, Restart, HoldTracked, HoldTypeOK
        <3>3. CASE ReadInHold(SubSeq(toNative, 1, n))
            <4>1. toJava # <<>> => toJava' # <<>>
                BY <3>3, BatchType, NoticesType DEF ReadInHold, HoldTypeOK
            <4>2. InFlight("release") => native' = "run" \/ InFlight("release")'
                BY <3>1, <3>3, ReleaseNotLost
            <4> QED BY <3>1, <3>3, <4>1, <4>2 DEF HoldTracked, ReadInHold
        <3> QED BY <3>1, <3>2, <3>3
    <2>6. CASE NativeRestart
        BY <2>6 DEF NativeRestart, Restart, HoldTracked, HoldTypeOK
    <2>7. CASE UNCHANGED holdVars
        BY <2>7 DEF holdVars, fieldVars, HoldTracked, InFlight
    <2> QED BY <2>1, <2>2, <2>3, <2>4, <2>5, <2>6, <2>7 DEF HoldNext
<1> QED BY <1>1, <1>2, HoldTypeCorrect, PTL DEF HoldSpec

--------------------------------------------------------------------------------
\* PauseControl's copy of DeviceState is this module's: the calls, the two
\* operators on them and the handlers.
LEMMA SameCalls ==
    /\ Promise!Threads = Threads
    /\ Promise!NoCall = NoCall
    /\ Promise!Resume = Resume
    /\ Promise!Reconnect = Reconnect
    /\ Promise!NetworkChange = NetworkChange
    /\ Promise!ReleaseHold = ReleaseHold
    /\ Promise!ForgetReason = ForgetReason
    /\ \A r : Promise!Pause(r) = Pause(r)
BY DEF Promise!Threads, Threads, Promise!NoCall, NoCall, Promise!Resume, Resume,
       Promise!Reconnect, Reconnect, Promise!NetworkChange, NetworkChange,
       Promise!ReleaseHold, ReleaseHold, Promise!ForgetReason, ForgetReason,
       Promise!Pause, Pause

LEMMA SameIssue == ASSUME NEW t, NEW c PROVE Promise!Issue(t, c) <=> Issue(t, c)
BY DEF Promise!Issue, Issue

LEMMA SameOperators ==
    /\ \A n, s, u : Promise!Connected(n, s, u) <=> Connected(n, s, u)
    /\ Promise!ShouldBeConnected <=> ShouldBeConnected
    /\ \A n, s, u : Promise!GetPauseReason(n, s, u) = GetPauseReason(n, s, u)
    /\ \A s : Promise!SettleScreen(s) = SettleScreen(s)
    /\ Promise!ByteCountPauses <=> ByteCountPauses
BY DEF Promise!Connected, Connected, Promise!ShouldBeConnected, ShouldBeConnected,
       Promise!GetPauseReason, GetPauseReason, Promise!SettleScreen, SettleScreen,
       Promise!ByteCountPauses, ByteCountPauses

LEMMA SameHandlers ==
    /\ DeviceInit => Promise!DeviceInit
    /\ MainEvent => Promise!MainEvent
    /\ \A t : UserRequest(t) => Promise!UserRequest(t)
    /\ ScreenOffPause => Promise!ScreenOffPause
<1>1. DeviceInit => Promise!DeviceInit
    BY SameCalls DEF DeviceInit, Promise!DeviceInit
<1>2. ASSUME NEW n, NetworkConnected(n) PROVE Promise!NetworkConnected(n)
    BY <1>2, SameCalls, SameOperators, SameIssue
       DEF NetworkConnected, Promise!NetworkConnected
<1>3. NetworkLost => Promise!NetworkLost
    BY SameCalls, SameOperators, SameIssue DEF NetworkLost, Promise!NetworkLost
<1>4. ScreenOff => Promise!ScreenOff
    BY SameCalls DEF ScreenOff, Promise!ScreenOff
<1>5. ScreenOn => Promise!ScreenOn
    BY SameCalls, SameOperators, SameIssue
       DEF ScreenOn, Promise!ScreenOn, Connected, Promise!Connected,
           ShouldBeConnected, Promise!ShouldBeConnected
<1>6. EditPreference => Promise!EditPreference
    BY SameCalls DEF EditPreference, Promise!EditPreference
<1>7. MainEvent => Promise!MainEvent
    BY <1>2, <1>3, <1>4, <1>5, <1>6 DEF MainEvent, Promise!MainEvent
<1>8. ASSUME NEW t, UserRequest(t) PROVE Promise!UserRequest(t)
    <2>1. CASE UserPause(t)
        BY <2>1, SameCalls, SameIssue
           DEF UserPause, Promise!UserPause, Promise!UserRequest, ReleaseDecided,
               Promise!ReleaseDecided
    <2>2. CASE UserResume(t)
        BY <2>2, SameCalls, SameOperators, SameIssue
           DEF UserResume, Promise!UserResume, Promise!UserRequest
    <2> QED BY <1>8, <2>1, <2>2 DEF UserRequest
<1>9. ScreenOffPause => Promise!ScreenOffPause
    BY SameCalls, SameOperators, SameIssue DEF ScreenOffPause, Promise!ScreenOffPause
<1> QED BY <1>1, <1>7, <1>8, <1>9

\* A step of a thread carries out a call of PauseControl, or is none of its
\* business: the sockets and mWaitingForRelease are not its variables.
LEMMA StepRefines ==
    ASSUME HoldTypeOK, NEW t \in Threads, Step(t)
    PROVE Promise!Perform(t) \/ UNCHANGED Promise!pauseVars
<1> USE DEF HoldTypeOK, Goto
<1>1. CASE StartCall(t)
    <2>1. (pc["mgmt"] = "count")' = (pc["mgmt"] = "count")
        BY <1>1, MainThread DEF StartCall, CallPause, CallReconnect, CallReleaseHold,
                    CallForgetReason, CallNetworkChange
    <2> USE <1>1, <2>1, SameCalls, SameIssue DEF StartCall, receiverVars, Promise!receiverVars, Promise!Perform, Promise!Done
    <2>2. CASE CallPause(t)
        BY <2>2 DEF CallPause, Promise!DoPause
    <2>3. CASE CallReconnect(t)
        BY <2>3 DEF CallReconnect, Promise!DoReconnect
    <2>4. CASE CallReleaseHold(t)
        BY <2>4 DEF CallReleaseHold, Promise!DoReleaseHold
    <2>5. CASE CallForgetReason(t)
        BY <2>5 DEF CallForgetReason, Promise!DoForgetReason
    <2>6. CASE CallNetworkChange(t)
        BY <2>6 DEF CallNetworkChange, Promise!DoNetworkChange, fieldVars
    <2> QED BY <2>2, <2>3, <2>4, <2>5, <2>6
<1>2. CASE ~StartCall(t)
    <2>1. /\ UNCHANGED <<deviceVars, mReleaseHold, lastPauseReason>>
          /\ (pc["mgmt"] = "count")' = (pc["mgmt"] = "count")
        BY <1>2, MainThread DEF Step, SendUnlessWaiting, CheckWaiting, ClearWaiting,
                    SendRelease, SetWaiting, fieldVars
    <2> QED BY <2>1 DEF Promise!pauseVars, Promise!controlVars, Promise!deviceVars,
                      deviceVars, Promise!receiverVars, receiverVars
<1> QED BY <1>1, <1>2

\* The protocol of threads, sockets and process implements PauseControl: every
\* behaviour of it, seen through the receiver's fields and the two fields the
\* calls are about, is one of PauseControl.
THEOREM HoldImplementsPromise == HoldSpec => ImplementsPromise
<1>1. HoldInit => Promise!PauseInit
    BY MainThread, SameHandlers DEF HoldInit, Promise!PauseInit
<1>2. HoldTypeOK /\ [HoldNext]_holdVars => [Promise!PauseNext]_(Promise!pauseVars)
    <2> SUFFICES ASSUME HoldTypeOK, [HoldNext]_holdVars
                 PROVE Promise!PauseNext \/ UNCHANGED Promise!pauseVars
        OBVIOUS
    <2> USE SameCalls, SameHandlers, SameOperators
           DEF Promise!pauseVars, Promise!controlVars, Promise!deviceVars, deviceVars,
               Promise!receiverVars, receiverVars
    <2>1. CASE Event
        BY <2>1 DEF Event, fieldVars, Promise!PauseNext, Promise!Event
    <2>2. ASSUME NEW t \in Threads, Step(t)
          PROVE Promise!PauseNext \/ UNCHANGED Promise!pauseVars
        BY <2>2, StepRefines DEF Promise!PauseNext
    <2>3. CASE HandleHold
        <3>1. (pc["mgmt"] = "count")' = (pc["mgmt"] = "count")
            BY <2>3, MainThread DEF HandleHold, AtRest, Goto, HoldTypeOK
        <3> QED BY <2>3, <3>1 DEF HandleHold, fieldVars
    <2>4. CASE CountBytes
        BY <2>4, MainThread DEF CountBytes, AtRest, Goto, HoldTypeOK, fieldVars,
                    Promise!PauseNext, Promise!CountBytes
    <2>5. CASE EnoughTraffic
        BY <2>5, MainThread DEF EnoughTraffic, Goto, HoldTypeOK, fieldVars,
                    Promise!PauseNext, Promise!EnoughTraffic
    <2>6. CASE LowTraffic
        BY <2>6, MainThread DEF LowTraffic, Goto, HoldTypeOK, fieldVars,
                    Promise!PauseNext, Promise!LowTraffic
    <2>7. CASE NativeRead \/ NativeRestart \/ UNCHANGED holdVars
        BY <2>7 DEF NativeRead, NativeRestart, holdVars, fieldVars
    <2> QED BY <2>1, <2>2, <2>3, <2>4, <2>5, <2>6, <2>7 DEF HoldNext
<1> QED BY <1>1, <1>2, HoldTypeCorrect, PTL DEF HoldSpec, ImplementsPromise, Promise!PauseSpec

--------------------------------------------------------------------------------
(* What PauseControl proves of the user's pause, carried over to the       *)
(* protocol: both instances of PauseControl are the same specification.    *)
LEMMA SameHandlersKept ==
    /\ Kept!DeviceInit <=> Promise!DeviceInit
    /\ Kept!MainEvent <=> Promise!MainEvent
    /\ \A t : Kept!UserRequest(t) <=> Promise!UserRequest(t)
    /\ Kept!ByteCountPauses <=> Promise!ByteCountPauses
    /\ Kept!ScreenOffPause <=> Promise!ScreenOffPause
BY DEF Kept!DeviceInit, Promise!DeviceInit, Kept!Pause, Promise!Pause, Kept!Resume,
       Promise!Resume, Kept!Reconnect, Promise!Reconnect, Kept!NetworkChange,
       Promise!NetworkChange, Kept!ReleaseHold, Promise!ReleaseHold,
       Kept!ForgetReason, Promise!ForgetReason, Kept!NoCall, Promise!NoCall,
       Kept!Calls, Promise!Calls, Kept!Threads, Promise!Threads, Kept!ConnectState,
       Promise!ConnectState, Kept!PauseReason, Promise!PauseReason, Kept!deviceVars,
       Promise!deviceVars, Kept!ReleaseDecided, Promise!ReleaseDecided, Kept!Issue, Promise!Issue, Kept!Connected,
       Promise!Connected, Kept!ShouldBeConnected, Promise!ShouldBeConnected,
       Kept!GetPauseReason, Promise!GetPauseReason, Kept!SettleScreen,
       Promise!SettleScreen, Kept!NetworkConnected, Promise!NetworkConnected,
       Kept!NetworkLost, Promise!NetworkLost, Kept!ScreenOff, Promise!ScreenOff,
       Kept!ScreenOn, Promise!ScreenOn, Kept!UserPause, Promise!UserPause,
       Kept!UserResume, Promise!UserResume, Kept!EditPreference,
       Promise!EditPreference, Kept!MainEvent, Promise!MainEvent, Kept!UserRequest,
       Promise!UserRequest, Kept!ByteCountPauses, Promise!ByteCountPauses,
       Kept!ScreenOffPause, Promise!ScreenOffPause

LEMMA SameStepsKept ==
    /\ Kept!PauseInit <=> Promise!PauseInit
    /\ [Kept!PauseNext]_(Kept!pauseVars) <=> [Promise!PauseNext]_(Promise!pauseVars)
BY SameHandlersKept
   DEF Kept!PauseInit, Promise!PauseInit,
       Kept!Pause, Promise!Pause, Kept!Resume, Promise!Resume, Kept!Reconnect,
       Promise!Reconnect, Kept!NetworkChange, Promise!NetworkChange, Kept!ReleaseHold,
       Promise!ReleaseHold, Kept!ForgetReason, Promise!ForgetReason, Kept!NoCall,
       Promise!NoCall, Kept!Calls, Promise!Calls, Kept!Threads, Promise!Threads,
       Kept!deviceVars, Promise!deviceVars, Kept!receiverVars, Promise!receiverVars,
       Kept!controlVars, Promise!controlVars,
       Kept!pauseVars, Promise!pauseVars, Kept!Issue, Promise!Issue, Kept!Done,
       Promise!Done, Kept!DoPause, Promise!DoPause, Kept!DoReconnect,
       Promise!DoReconnect, Kept!DoReleaseHold, Promise!DoReleaseHold,
       Kept!DoForgetReason, Promise!DoForgetReason, Kept!DoNetworkChange,
       Promise!DoNetworkChange, Kept!Perform, Promise!Perform, Kept!CountBytes,
       Promise!CountBytes, Kept!LowTraffic, Promise!LowTraffic, Kept!EnoughTraffic,
       Promise!EnoughTraffic, Kept!Event, Promise!Event, Kept!PauseNext,
       Promise!PauseNext

LEMMA KeptBehaviour == HoldSpec => Kept!PauseSpec
BY HoldImplementsPromise, SameStepsKept, PTL
   DEF ImplementsPromise, Kept!PauseSpec, Promise!PauseSpec

LEMMA SamePromisesKept ==
    /\ Kept!UserPauseHolds <=> UserPauseHolds
    /\ Kept!NoNeedlessPause <=> NoNeedlessPause
    /\ Kept!ReasonIsTruthful <=> ReasonIsTruthful
BY DEF UserPauseHolds, Kept!UserPauseHolds, Promise!UserPauseHolds,
       NoNeedlessPause, Kept!NoNeedlessPause, Promise!NoNeedlessPause,
       ReasonIsTruthful, Kept!ReasonIsTruthful, Promise!ReasonIsTruthful,
       Kept!Wanted, Promise!Wanted, Kept!Idle, Promise!Idle, Kept!Threads,
       Promise!Threads, Kept!NoCall, Promise!NoCall

\* A VPN the user paused may not leave its hold, however the steps of the calls
\* overlap in the threads of the protocol (userPause, pause, resume, reconnect),
\* unless its pause crossed a release.
THEOREM HoldKeepsUserPause == HoldSpec => []UserPauseHolds
<1>1. Kept!PauseSpec => []Kept!UserPauseHolds
    BY NetworksAssumption, RequestersAssumption, SwitchesAssumption, Kept!UserPauseKept, PTL
<1> QED BY <1>1, KeptBehaviour, SamePromisesKept, PTL

\* Where requests arrive in the main thread only, the screen has no say and a
\* request always toggles the user's pause, the reason shown for a paused VPN is the true one (getPauseReason).
THEOREM HoldTellsTheReason ==
    ASSUME Requesters \subseteq {"main"}, ~AnyRequest, ~ScreenOffPref
    PROVE  HoldSpec => []ReasonIsTruthful
<1>1. Kept!PauseSpec => []Kept!ReasonIsTruthful
    BY NetworksAssumption, RequestersAssumption, SwitchesAssumption, Kept!ReasonIsTrue, PTL
<1> QED BY <1>1, KeptBehaviour, SamePromisesKept, PTL

\* Where the reconnect preference is left alone as well, a VPN that network and
\* user want is released, however the calls that pause, reconnect and release it
\* overlap with the management thread (networkStateChange, userPause, onReceive).
THEOREM HoldReleasesTheWanted ==
    ASSUME Requesters \subseteq {"main"}, ~AnyRequest, ~ScreenOffPref, ~PrefMayChange
    PROVE  HoldSpec => []NoNeedlessPause
<1>1. Kept!PauseSpec => []Kept!NoNeedlessPause
    BY NetworksAssumption, RequestersAssumption, SwitchesAssumption, Kept!WantedIsReleased, PTL
<1> QED BY <1>1, KeptBehaviour, SamePromisesKept, PTL

--------------------------------------------------------------------------------
(* A wakeup is lost by one race only.                                      *)

\* What LostOnlyByRace needs, with HoldTracked, to be inductive: a process that
\* may leave its hold is about to be asked about, told or found in the socket.
WakeupComes ==
    native = "hold" /\ mReleaseHold /\ ~raced =>
        \/ toJava # <<>>
        \/ \E t \in Threads : pc[t] \in {"check", "release", "send"}
        \/ InFlight("release")

\* The process touches nothing the threads share.
LEMMA NativeLeavesThreads ==
    NativeRead \/ NativeRestart => UNCHANGED <<deviceVars, fieldVars, pc, historyVars>>
BY DEF NativeRead, NativeRestart

\* A byte count takes the management thread from rest and back.
LEMMA CountingMoves ==
    ASSUME HoldTypeOK, CountBytes \/ EnoughTraffic \/ LowTraffic
    PROVE  /\ UNCHANGED <<fieldVars, toNative, toJava, native, historyVars>>
           /\ {pc["mgmt"], pc'["mgmt"]} \subseteq {"ready", "count"}
           /\ \A u \in Threads : u # "mgmt" => pc'[u] = pc[u]
BY MainThread DEF CountBytes, EnoughTraffic, LowTraffic, AtRest, Goto, HoldTypeOK

\* A releaseHold() that finds no process waiting leaves one in hold only to a
\* notification, to another release or to the race.
LEMMA StepWakes ==
    ASSUME HoldTypeOK, HoldTracked, WakeupComes, NEW t \in Threads, Step(t)
    PROVE  WakeupComes'
<1> USE DEF HoldTypeOK, Goto, WakeupComes, InFlight, historyVars
<1>1. CASE StartCall(t)
    <2>1. UNCHANGED <<toNative, toJava, native, raced>> /\ pc[t] = "ready"
        BY <1>1 DEF StartCall, CallPause, CallReconnect, CallReleaseHold,
                    CallForgetReason, CallNetworkChange
    <2>2. CASE CallReleaseHold(t)
        BY <2>2 DEF CallReleaseHold
    <2>3. CASE CallPause(t) \/ CallReconnect(t)
        BY <2>3 DEF CallPause, CallReconnect
    <2>4. CASE CallForgetReason(t) \/ CallNetworkChange(t)
        BY <2>1, <2>4 DEF CallForgetReason, CallNetworkChange, fieldVars
    <2> QED BY <1>1, <2>2, <2>3, <2>4 DEF StartCall
<1>2. CASE SendUnlessWaiting(t)
    <2>1. InFlight("release") => InFlight("release")'
        BY <1>2, CommandsInTransit DEF SendUnlessWaiting, Command
    <2> QED BY <1>2, <2>1 DEF SendUnlessWaiting, fieldVars
<1>3. CASE CheckWaiting(t)
    <2>1. CASE mWaitingForRelease
        BY <1>3, <2>1 DEF CheckWaiting
    <2>2. CASE ~mWaitingForRelease
        BY <1>3, <2>2 DEF CheckWaiting, HoldTracked, fieldVars
    <2> QED BY <2>1, <2>2
<1>4. CASE ClearWaiting(t)
    BY <1>4 DEF ClearWaiting
<1>5. CASE SendRelease(t)
    BY <1>5, CommandsInTransit DEF SendRelease, Command
<1>6. CASE SetWaiting(t)
    BY <1>6 DEF SetWaiting
<1> QED BY <1>1, <1>2, <1>3, <1>4, <1>5, <1>6 DEF Step

\* What the process has announced stays in the socket when it reads.
LEMMA ReadsNotify ==
    ASSUME HoldTypeOK, NativeRead, toJava # <<>>
    PROVE  toJava' # <<>>
<1>1. PICK n \in 1 .. Len(toNative) :
          \/ ReadInHold(SubSeq(toNative, 1, n))
          \/ ReadInRun(SubSeq(toNative, 1, n))
    BY DEF NativeRead
<1>2. CASE ReadInHold(SubSeq(toNative, 1, n))
    BY <1>2, BatchType, NoticesType DEF ReadInHold, HoldTypeOK
<1>3. CASE ReadInRun(SubSeq(toNative, 1, n))
    BY <1>3 DEF ReadInRun, Restart, HoldTypeOK
<1> QED BY <1>1, <1>2, <1>3

LEMMA NativeWakes ==
    ASSUME HoldTypeOK, WakeupComes, NativeRead \/ NativeRestart
    PROVE  WakeupComes'
<1>1. UNCHANGED <<mReleaseHold, pc, raced>>
    BY NativeLeavesThreads DEF fieldVars, historyVars
<1>2. CASE NativeRestart
    BY <1>2 DEF NativeRestart, Restart, WakeupComes, HoldTypeOK
<1>3. CASE NativeRead
    <2>1. PICK n \in 1 .. Len(toNative) :
              /\ \/ ReadInHold(SubSeq(toNative, 1, n))
                 \/ ReadInRun(SubSeq(toNative, 1, n))
              /\ toNative' = SubSeq(toNative, n + 1, Len(toNative))
        BY <1>3 DEF NativeRead
    <2>2. CASE ReadInRun(SubSeq(toNative, 1, n))
        BY <2>2 DEF ReadInRun, Restart, WakeupComes, HoldTypeOK
    <2>3. CASE ReadInHold(SubSeq(toNative, 1, n))
        <3>1. toJava # <<>> => toJava' # <<>>
            BY <1>3, ReadsNotify
        <3>2. InFlight("release") => native' = "run" \/ InFlight("release")'
            BY <2>1, <2>3, ReleaseNotLost
        <3> QED BY <1>1, <2>3, <3>1, <3>2 DEF WakeupComes, ReadInHold
    <2> QED BY <2>1, <2>2, <2>3
<1> QED BY <1>2, <1>3

\* That a wakeup is lost takes the race of releaseHold() with handleHold(): in any
\* other order of threads, signals, restarts and reads a process that may leave
\* its hold has left it when nothing is on the way any more.
THEOREM WakeupLostByRaceOnly == HoldSpec => []LostOnlyByRace
<1>1. HoldInit => WakeupComes
    BY DEF HoldInit, WakeupComes
<1>2. HoldTypeOK /\ HoldTracked /\ WakeupComes /\ [HoldNext]_holdVars => WakeupComes'
    <2> SUFFICES ASSUME HoldTypeOK, HoldTracked, WakeupComes, [HoldNext]_holdVars
                 PROVE  WakeupComes'
        OBVIOUS
    <2>1. CASE Event \/ UNCHANGED holdVars
        BY <2>1 DEF Event, holdVars, WakeupComes, InFlight, fieldVars, historyVars
    <2>2. ASSUME NEW t \in Threads, Step(t) PROVE WakeupComes'
        BY <2>2, StepWakes
    <2>3. CASE HandleHold
        BY <2>3, MainThread DEF HandleHold, Goto, HoldTypeOK, WakeupComes, fieldVars
    <2>4. CASE CountBytes \/ EnoughTraffic \/ LowTraffic
        BY <2>4, CountingMoves DEF WakeupComes, InFlight, fieldVars, historyVars
    <2>5. CASE NativeRead \/ NativeRestart
        BY <2>5, NativeWakes
    <2> QED BY <2>1, <2>2, <2>3, <2>4, <2>5 DEF HoldNext
<1>3. HoldTypeOK /\ WakeupComes => LostOnlyByRace
    BY DEF HoldTypeOK, WakeupComes, LostOnlyByRace, Quiescent, AtRest, InFlight, Contains
<1> QED BY <1>1, <1>2, <1>3, HoldTypeCorrect, HoldNeverForgotten, PTL DEF HoldSpec

--------------------------------------------------------------------------------
(* A pause is lost by two races only.                                      *)

\* A notification is still to be handled, or a thread is handling one.
Unsettled == toJava # <<>> \/ \E t \in Threads : pc[t] \in {"wait", "release"}

\* What PauseHonoured needs to be inductive: once the notifications are handled, a
\* process known to wait, or one that may not run, ends in hold, is about to be
\* signalled or has a thread on its way to release it.
PauseFollowed ==
    ~outrun =>
        /\ mWaitingForRelease =>
              \/ Unsettled
              \/ \E t \in Threads : pc[t] = "check"
              \/ EndsInHold /\ \A t \in Threads : pc[t] # "send"
        /\ ~mReleaseHold =>
              \/ Unsettled
              \/ EndsInHold
              \/ \E t \in Threads : pc[t] \in {"usr1", "send"}
              \/ mWaitingForRelease /\ \E t \in Threads : pc[t] = "check"

\* Behind a signal, or where the process ends in hold anyway, only a release
\* makes it run.
LEMMA SendEndsInHold ==
    ASSUME HoldTypeOK, NEW cmd \in {"usr1", "netchange"}, Send(cmd), UNCHANGED native,
           EndsInHold \/ cmd = "usr1"
    PROVE  EndsInHold'
<1>1. /\ DOMAIN toNative' = 1 .. Len(toNative) + 1
      /\ \A i \in DOMAIN toNative : toNative'[i] = toNative[i]
      /\ toNative'[Len(toNative) + 1] = cmd
      /\ DOMAIN toNative = 1 .. Len(toNative)
      /\ Len(toNative) \in Nat
    BY DEF HoldTypeOK, Send
<1>2. CASE cmd = "usr1"
    BY <1>1, <1>2 DEF EndsInHold
<1>3. CASE native = "hold" /\ ~InFlight("release")
    BY <1>1, <1>3 DEF EndsInHold, InFlight, Contains
<1>4. CASE \E i \in DOMAIN toNative :
               /\ toNative[i] = "usr1"
               /\ \A j \in DOMAIN toNative : j > i => toNative[j] # "release"
    BY <1>1, <1>4 DEF EndsInHold
<1> QED BY <1>2, <1>3, <1>4 DEF EndsInHold

\* A process in hold answers each signal it reads.
LEMMA SignalAnswered ==
    ASSUME NEW batch \in Seq(Command), Contains(batch, "usr1")
    PROVE  Notices(Count(batch, "usr1")) # <<>>
<1> DEFINE S == {i \in DOMAIN batch : batch[i] = "usr1"}
<1>1. IsFiniteSet(1 .. Len(batch)) /\ S \subseteq 1 .. Len(batch)
    BY FS_Interval
<1>2. IsFiniteSet(S) /\ Cardinality(S) \in Nat
    BY <1>1, FS_Subset, FS_CardinalityType
<1>3. S # {}
    BY DEF Contains
<1>4. Cardinality(S) # 0
    BY <1>2, <1>3, FS_EmptySet
<1> QED BY <1>2, <1>4 DEF Notices, Count

\* A process ends as it did before the read, or has announced a hold.
LEMMA ReadEndsInHold ==
    ASSUME HoldTypeOK, NativeRead, EndsInHold
    PROVE  EndsInHold' \/ toJava' # <<>>
<1>1. PICK n \in 1 .. Len(toNative) :
          /\ \/ ReadInHold(SubSeq(toNative, 1, n))
             \/ ReadInRun(SubSeq(toNative, 1, n))
          /\ toNative' = SubSeq(toNative, n + 1, Len(toNative))
    BY DEF NativeRead
<1> DEFINE batch == SubSeq(toNative, 1, n)
<1>2. toNative \in Seq(Command) /\ batch \in Seq(Command)
    BY BatchType DEF HoldTypeOK
<1>3. /\ DOMAIN toNative = 1 .. Len(toNative)
      /\ DOMAIN toNative' = 1 .. Len(toNative) - n
      /\ \A i \in DOMAIN toNative' : i + n \in DOMAIN toNative /\ toNative'[i] = toNative[i + n]
    BY <1>1, <1>2
<1>4. DOMAIN batch = 1 .. n /\ \A i \in 1 .. n : batch[i] = toNative[i]
    BY <1>1, <1>2
<1> HIDE DEF batch
<1>5. CASE native = "hold" /\ ~InFlight("release")
    <2>1. ~Contains(batch, "release")
        BY <1>3, <1>4, <1>5 DEF InFlight, Contains
    <2>2. native' = "hold"
        BY <1>1, <1>5, <2>1 DEF batch, ReadInHold, ReadInRun, Restart
    <2>3. ~InFlight("release")'
        BY <1>3, <1>5 DEF InFlight, Contains
    <2> QED BY <2>2, <2>3 DEF EndsInHold
<1>6. ASSUME NEW i \in DOMAIN toNative, toNative[i] = "usr1",
             \A j \in DOMAIN toNative : j > i => toNative[j] # "release"
      PROVE  EndsInHold' \/ toJava' # <<>>
    <2>1. CASE i <= n
        <3>1. Contains(batch, "usr1")
            BY <1>3, <1>4, <1>6, <2>1 DEF Contains
        <3>2. CASE ReadInHold(batch)
            <4>1. Notices(Count(batch, "usr1")) \in Seq({HOLD}) \ {<<>>}
                BY <1>2, <3>1, NoticesType, SignalAnswered
            <4> QED BY <3>2, <4>1 DEF ReadInHold, HoldTypeOK
        <3>3. CASE ReadInRun(batch)
            BY <3>1, <3>3 DEF ReadInRun, Restart, HoldTypeOK
        <3> QED BY <1>1, <3>2, <3>3 DEF batch
    <2>2. CASE i > n
        <3>1. i - n \in DOMAIN toNative' /\ toNative'[i - n] = "usr1"
            BY <1>2, <1>3, <1>6, <2>2
        <3>2. \A j \in DOMAIN toNative' : j > i - n => toNative'[j] # "release"
            BY <1>3, <1>6
        <3> QED BY <3>1, <3>2 DEF EndsInHold
    <2> QED BY <1>2, <2>1, <2>2
<1> QED BY <1>5, <1>6 DEF EndsInHold

\* A thread that does not outrun another leaves the process to end in hold.
LEMMA StepPauses ==
    ASSUME HoldTypeOK, PauseFollowed, NEW t \in Threads, Step(t)
    PROVE  PauseFollowed'
<1> USE DEF HoldTypeOK, Goto, PauseFollowed, Unsettled, historyVars
<1>a. ASSUME UNCHANGED <<toNative, native>> PROVE EndsInHold' <=> EndsInHold
    BY <1>a DEF EndsInHold, InFlight
<1>1. CASE StartCall(t)
    <2>0. /\ EndsInHold' <=> EndsInHold
          /\ pc[t] = "ready"
          /\ UNCHANGED toJava
        BY <1>1, <1>a DEF StartCall
    <2>1. CASE CallPause(t) \/ CallReconnect(t)
        BY <2>0, <2>1 DEF CallPause, CallReconnect
    <2>2. CASE CallReleaseHold(t)
        BY <2>0, <2>2 DEF CallReleaseHold
    <2>3. CASE CallForgetReason(t) \/ CallNetworkChange(t)
        BY <2>0, <2>3 DEF CallForgetReason, CallNetworkChange, fieldVars
    <2> QED BY <1>1, <2>1, <2>2, <2>3 DEF StartCall
<1>2. CASE SendUnlessWaiting(t)
    <2>0. /\ UNCHANGED <<mReleaseHold, mWaitingForRelease, toJava, native, outrun>>
          /\ pc[t] \in {"usr1", "netchange"} /\ pc' = [pc EXCEPT ![t] = "ready"]
        BY <1>2 DEF SendUnlessWaiting, fieldVars
    <2>1. CASE mWaitingForRelease
        <3>1. EndsInHold' <=> EndsInHold
            BY <1>2, <1>a, <2>1 DEF SendUnlessWaiting
        <3> QED BY <2>0, <2>1, <3>1
    <2>2. CASE ~mWaitingForRelease
        <3>1. EndsInHold \/ pc[t] = "usr1" => EndsInHold'
            BY <1>2, <2>0, <2>2, SendEndsInHold DEF SendUnlessWaiting
        <3> QED BY <2>0, <2>2, <3>1
    <2> QED BY <2>1, <2>2
<1>3. CASE CheckWaiting(t)
    <2>1. EndsInHold' <=> EndsInHold
        BY <1>3, <1>a DEF CheckWaiting
    <2> QED BY <1>3, <2>1 DEF CheckWaiting, fieldVars
<1>4. CASE ClearWaiting(t)
    <2>1. EndsInHold' <=> EndsInHold
        BY <1>4, <1>a DEF ClearWaiting
    <2> QED BY <1>4, <2>1 DEF ClearWaiting
<1>5. CASE SendRelease(t)
    BY <1>5 DEF SendRelease, fieldVars
<1>6. CASE SetWaiting(t)
    <2>1. EndsInHold' <=> EndsInHold
        BY <1>6, <1>a DEF SetWaiting
    <2> QED BY <1>6, <2>1 DEF SetWaiting
<1> QED BY <1>1, <1>2, <1>3, <1>4, <1>5, <1>6 DEF Step

\* A process that may not run is in hold when nothing is on the way any more,
\* however threads, restarts and reads overlap, unless since the last releaseHold()
\* releaseHoldCmd() slept through the pause, or handleHold() took a process to
\* wait that had been released.
THEOREM PauseLostByRacesOnly == HoldSpec => []PauseHonoured
<1>1. HoldInit => PauseFollowed
    BY DEF HoldInit, PauseFollowed, Unsettled
<1>2. HoldTypeOK /\ PauseFollowed /\ [HoldNext]_holdVars => PauseFollowed'
    <2> SUFFICES ASSUME HoldTypeOK, PauseFollowed, [HoldNext]_holdVars
                 PROVE  PauseFollowed'
        OBVIOUS
    <2> USE DEF PauseFollowed, Unsettled
    <2>0. ASSUME UNCHANGED <<toNative, native>> PROVE EndsInHold' <=> EndsInHold
        BY <2>0 DEF EndsInHold, InFlight
    <2>1. CASE Event \/ UNCHANGED holdVars
        BY <2>0, <2>1 DEF Event, holdVars, fieldVars, historyVars
    <2>2. ASSUME NEW t \in Threads, Step(t) PROVE PauseFollowed'
        BY <2>2, StepPauses
    <2>3. CASE HandleHold
        BY <2>3, MainThread DEF HandleHold, Goto, HoldTypeOK, fieldVars
    <2>4. CASE CountBytes \/ EnoughTraffic \/ LowTraffic
        BY <2>0, <2>4, CountingMoves DEF fieldVars, historyVars
    <2>5. CASE NativeRead
        <3>1. toJava # <<>> => toJava' # <<>>
            BY <2>5, ReadsNotify
        <3> QED BY <2>5, <3>1, ReadEndsInHold, NativeLeavesThreads DEF fieldVars, historyVars
    <2>6. CASE NativeRestart
        BY <2>6 DEF NativeRestart, Restart, HoldTypeOK
    <2> QED BY <2>1, <2>2, <2>3, <2>4, <2>5, <2>6 DEF HoldNext
<1>3. HoldTypeOK /\ PauseFollowed => PauseHonoured
    BY DEF HoldTypeOK, PauseFollowed, Unsettled, PauseHonoured, Quiescent, AtRest, EndsInHold
<1> QED BY <1>1, <1>2, <1>3, HoldTypeCorrect, PTL DEF HoldSpec
================================================================================
