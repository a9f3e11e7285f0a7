-------------------------- MODULE PauseControl_proofs --------------------------
(***************************************************************************)
(* For every set of networks, every setting of the preferences and         *)
(* requests from any thread: the fields keep their types, and a VPN the    *)
(* user paused stays paused, unless its pause crossed a release.  Where    *)
(* requests arrive in the main thread only, the screen has no say and a    *)
(* request always toggles the user's pause, the reason shown is the true   *)
(* one and a wanted VPN is not kept in hold.                               *)
(***************************************************************************)
EXTENDS PauseControl, TLAPS

(***************************************************************************)
(* What the handlers of DeviceStateReceiver leave behind.                  *)
(***************************************************************************)
\* getPauseReason() always finds a reason.
LEMMA PauseReasonType ==
    ASSUME NEW n, NEW s, NEW u
    PROVE GetPauseReason(n, s, u) \in PauseReason
BY DEF GetPauseReason, PauseReason

\* A pause call carries its reason, and every other call is one of five.
LEMMA CallTypes ==
    /\ \A r \in PauseReason : Pause(r) \in Calls
    /\ {Resume, Reconnect, NetworkChange, ReleaseHold, ForgetReason, NoCall} \subseteq Calls
    /\ \A c \in Calls : c.op = "pause" => c.reason \in PauseReason
BY DEF Calls, Pause, Resume, Reconnect, NetworkChange, ReleaseHold, ForgetReason,
       NoCall, PauseReason

\* A fresh receiver has the types of its fields.
LEMMA DeviceInitType == DeviceInit => DeviceTypeOK
BY CallTypes DEF DeviceInit, DeviceTypeOK, ConnectState

\* The handlers of the main thread keep the types of the receiver's fields.
LEMMA MainEventType == DeviceTypeOK /\ MainEvent => DeviceTypeOK'
<1> SUFFICES ASSUME DeviceTypeOK, MainEvent PROVE DeviceTypeOK'
    OBVIOUS
<1> USE DEF DeviceTypeOK, ConnectState, Issue
<1>0. "main" \in Threads
    BY DEF Threads
<1>1. ASSUME NEW n \in Networks, NetworkConnected(n) PROVE DeviceTypeOK'
    <2>1. call' \in [Threads -> Calls]
        BY <1>1, <1>0, CallTypes DEF NetworkConnected
    <2> QED BY <1>1, <2>1 DEF NetworkConnected, SettleScreen
<1>2. CASE NetworkLost
    <2>1. call' \in [Threads -> Calls]
        BY <1>2, <1>0, CallTypes, PauseReasonType DEF NetworkLost
    <2> QED BY <1>2, <2>1 DEF NetworkLost, SettleScreen
<1>3. CASE ScreenOff
    BY <1>3 DEF ScreenOff
<1>4. CASE ScreenOn
    <2>1. call' \in [Threads -> Calls]
        BY <1>4, <1>0, CallTypes, PauseReasonType DEF ScreenOn
    <2> QED BY <1>4, <2>1 DEF ScreenOn
<1>5. CASE EditPreference
    BY <1>5 DEF EditPreference
<1> QED BY <1>1, <1>2, <1>3, <1>4, <1>5 DEF MainEvent

\* So do the requests of the user.
LEMMA UserRequestType ==
    ASSUME DeviceTypeOK, NEW t \in Threads, UserRequest(t)
    PROVE DeviceTypeOK'
<1> USE DEF DeviceTypeOK, Issue
<1>1. CASE UserPause(t)
    <2>1. crossed' \in BOOLEAN
        BY <1>1, Zenon DEF UserPause, ReleaseDecided
    <2> QED BY <1>1, <2>1, CallTypes DEF UserPause, PauseReason
<1>2. CASE UserResume(t)
    <2>1. call' \in [Threads -> Calls]
        BY <1>2, CallTypes, PauseReasonType DEF UserResume
    <2> QED BY <1>2, <2>1 DEF UserResume
<1> QED BY <1>1, <1>2 DEF UserRequest

\* So does the pause that follows a minute of low traffic.
LEMMA ScreenOffPauseType == DeviceTypeOK /\ ScreenOffPause => DeviceTypeOK'
<1> SUFFICES ASSUME DeviceTypeOK, ScreenOffPause PROVE DeviceTypeOK'
    OBVIOUS
<1>1. call' \in [Threads -> Calls]
    BY CallTypes, PauseReasonType DEF DeviceTypeOK, ScreenOffPause, Issue, Threads
<1> QED BY <1>1 DEF DeviceTypeOK, ScreenOffPause, ConnectState

\* A thread that carries out its call keeps the types of the fields, because
\* all it changes is its own entry of call.
LEMMA CallStepType ==
    ASSUME DeviceTypeOK, NEW t \in Threads, NEW c \in Calls, Issue(t, c),
           UNCHANGED receiverVars
    PROVE DeviceTypeOK'
BY DEF DeviceTypeOK, Issue, receiverVars

--------------------------------------------------------------------------------
(***************************************************************************)
(* The receiver and the fields its calls are about.                        *)
(***************************************************************************)

LEMMA PauseThreads == {"main", "mgmt"} \subseteq Threads /\ Requesters \subseteq Threads
BY RequestersAssumption DEF Threads

\* A thread that carries out a call keeps the types.
LEMMA PerformType ==
    ASSUME PauseTypeOK, NEW t \in Threads, Perform(t)
    PROVE PauseTypeOK'
<1> USE DEF PauseTypeOK, Perform, Done
<1>0. call[t] \in Calls
    BY DEF DeviceTypeOK
<1>1. CASE DoPause(t)
    <2>1. call[t].reason \in PauseReason
        BY <1>0, <1>1, CallTypes DEF DoPause
    <2>2. DeviceTypeOK'
        BY <1>1, CallTypes, CallStepType DEF DoPause
    <2> QED BY <1>1, <2>1, <2>2 DEF DoPause
<1>2. CASE DoReconnect(t)
    BY <1>2, CallTypes, CallStepType DEF DoReconnect
<1>3. CASE DoReleaseHold(t)
    <2>1. DeviceTypeOK'
        BY <1>3, CallTypes, CallStepType DEF DoReleaseHold
    <2> QED BY <1>3, <2>1 DEF DoReleaseHold
<1>4. CASE DoForgetReason(t)
    <2>1. DeviceTypeOK'
        BY <1>4, CallTypes, CallStepType DEF DoForgetReason
    <2> QED BY <1>4, <2>1 DEF DoForgetReason, PauseReason
<1>5. CASE DoNetworkChange(t)
    BY <1>5, CallTypes, CallStepType DEF DoNetworkChange
<1> QED BY <1>1, <1>2, <1>3, <1>4, <1>5

\* The fields of the receiver and of the management thread have their types
\* in every reachable state.
THEOREM PauseTypeCorrect == PauseSpec => []PauseTypeOK
<1>1. PauseInit => PauseTypeOK
    BY DeviceInitType DEF PauseInit, PauseTypeOK, DeviceInit, PauseReason
<1>2. PauseTypeOK /\ [PauseNext]_pauseVars => PauseTypeOK'
    <2> SUFFICES ASSUME PauseTypeOK, [PauseNext]_pauseVars PROVE PauseTypeOK'
        OBVIOUS
    <2> USE DEF PauseTypeOK
    <2>0. ASSUME UNCHANGED deviceVars PROVE DeviceTypeOK'
        BY <2>0 DEF deviceVars, receiverVars, DeviceTypeOK
    <2>1. CASE Event
        BY <2>1, PauseThreads, MainEventType, UserRequestType DEF Event, controlVars
    <2>2. CASE CountBytes \/ EnoughTraffic
        BY <2>0, <2>2 DEF CountBytes, EnoughTraffic
    <2>3. CASE LowTraffic
        BY <2>3, ScreenOffPauseType DEF LowTraffic
    <2>4. ASSUME NEW t \in Threads, Perform(t) PROVE PauseTypeOK'
        BY <2>4, PerformType
    <2>5. CASE UNCHANGED pauseVars
        BY <2>0, <2>5 DEF pauseVars, controlVars
    <2> QED BY <2>1, <2>2, <2>3, <2>4, <2>5 DEF PauseNext
<1> QED BY <1>1, <1>2, PTL DEF PauseSpec

--------------------------------------------------------------------------------
\* What UserPauseHolds needs to be inductive: while a pause of the user lasts that
\* crossed no release, no thread is on its way to release the VPN, and one that
\* may still leave its hold is about to be paused.
PauseLasts ==
    userpause = "DISCONNECTED" /\ ~crossed =>
        /\ \A t \in Threads : call[t] \notin {Resume, Reconnect, ReleaseHold}
        /\ mReleaseHold => \E t \in Threads : call[t].op = "pause"

\* The calls differ from a pause and from no call.
LEMMA PauseDiffers ==
    /\ \A c \in {Resume, Reconnect, NetworkChange, ReleaseHold, ForgetReason, NoCall} :
          c.op # "pause"
    /\ \A r : Pause(r).op = "pause"
    /\ \A c \in {NetworkChange, ForgetReason, NoCall} : c \notin {Resume, Reconnect, ReleaseHold}
    /\ NoCall # Resume /\ NoCall # Reconnect /\ NoCall # ReleaseHold
BY DEF Resume, Reconnect, NetworkChange, ReleaseHold, ForgetReason, NoCall, Pause

\* A thread that had no call to make takes nothing away by getting one, and if
\* it is no release it harms no pause.
LEMMA CallAdded ==
    ASSUME PauseTypeOK, PauseLasts, NEW t \in Threads, NEW c, call[t] = NoCall, Issue(t, c),
           UNCHANGED <<userpause, crossed, mReleaseHold>>,
           userpause = "DISCONNECTED" => c \notin {Resume, Reconnect, ReleaseHold}
    PROVE  PauseLasts'
BY PauseDiffers DEF PauseLasts, PauseTypeOK, DeviceTypeOK, Issue

\* A handler makes no call that would undo the user's pause.
LEMMA EventPaused ==
    ASSUME PauseTypeOK, PauseLasts, Event
    PROVE PauseLasts'
<1> USE DEF Event, controlVars
<1>0. \A r : Pause(r) \notin {Resume, Reconnect, ReleaseHold}
    BY PauseDiffers
<1>1. ASSUME NEW n \in Networks, NetworkConnected(n) PROVE PauseLasts'
    <2>1. CASE lastNetwork = n
        BY <1>1, <2>1 DEF NetworkConnected, PauseLasts
    <2>2. CASE lastNetwork # n
        BY <1>1, <2>2, CallAdded, PauseThreads, PauseDiffers DEF NetworkConnected, Connected
    <2> QED BY <2>1, <2>2
<1>2. CASE NetworkLost
    <2>1. CASE sendusr1
        BY <1>0, <1>2, <2>1, CallAdded, PauseThreads DEF NetworkLost
    <2>2. CASE ~sendusr1
        BY <1>2, <2>2 DEF NetworkLost, PauseLasts
    <2> QED BY <2>1, <2>2
<1>3. CASE ScreenOff
    BY <1>3 DEF ScreenOff, PauseLasts
<1>4. CASE ScreenOn
    BY <1>0, <1>4, CallAdded, PauseThreads, PauseDiffers
       DEF ScreenOn, Connected, ShouldBeConnected
<1>5. CASE EditPreference
    BY <1>5 DEF EditPreference, PauseLasts
<1>6. ASSUME NEW t \in Requesters, UserPause(t) PROVE PauseLasts'
    <2>1. t \in Threads
        BY PauseThreads
    <2>2. SUFFICES ASSUME ~crossed'
                   PROVE  /\ \A u \in Threads : call'[u] \notin {Resume, Reconnect, ReleaseHold}
                          /\ call'[t].op = "pause"
        BY <2>1 DEF PauseLasts
    <2>3. \A u \in Threads \ {t} : call[u] \notin {Resume, Reconnect, ReleaseHold}
        BY <1>6, <2>2 DEF UserPause, ReleaseDecided
    <2> QED BY <1>0, <1>6, <2>1, <2>3, PauseDiffers
            DEF UserPause, Issue, PauseTypeOK, DeviceTypeOK
<1>7. ASSUME NEW t \in Requesters, UserResume(t) PROVE PauseLasts'
    BY <1>7 DEF UserResume, PauseLasts
<1> QED BY <1>1, <1>2, <1>3, <1>4, <1>5, <1>6, <1>7 DEF MainEvent, UserRequest

\* Carrying out the last pause takes the release back, and no other call than
\* those of PauseLasts gives it.
LEMMA PerformPaused ==
    ASSUME PauseTypeOK, PauseLasts, NEW t \in Threads, Perform(t)
    PROVE PauseLasts'
<1> SUFFICES ASSUME userpause = "DISCONNECTED", ~crossed
             PROVE  /\ \A u \in Threads : call'[u] \notin {Resume, Reconnect, ReleaseHold}
                    /\ mReleaseHold' => \E u \in Threads : call'[u].op = "pause"
    BY DEF PauseLasts, Perform, receiverVars
<1> USE PauseDiffers DEF PauseLasts, PauseTypeOK, DeviceTypeOK, Issue, Perform, Done
<1>1. CASE DoPause(t)
    BY <1>1 DEF DoPause
<1>2. CASE DoForgetReason(t)
    BY <1>2 DEF DoForgetReason
<1>3. CASE DoNetworkChange(t)
    BY <1>3 DEF DoNetworkChange
<1>4. ~DoReconnect(t) /\ ~DoReleaseHold(t)
    BY DEF DoReconnect, DoReleaseHold
<1> QED BY <1>1, <1>2, <1>3, <1>4

\* A VPN the user paused may not leave its hold once the calls are carried out,
\* whatever networks, screen events and preferences did before or since and
\* whichever threads they came in, unless the pause crossed a release that had
\* been decided.
THEOREM UserPauseKept == PauseSpec => []UserPauseHolds
<1>1. PauseInit => PauseLasts
    BY DEF PauseInit, DeviceInit, PauseLasts
<1>2. PauseTypeOK /\ PauseLasts /\ [PauseNext]_pauseVars => PauseLasts'
    <2> SUFFICES ASSUME PauseTypeOK, PauseLasts, [PauseNext]_pauseVars
                 PROVE PauseLasts'
        OBVIOUS
    <2>1. CASE Event
        BY <2>1, EventPaused
    <2>2. CASE CountBytes \/ EnoughTraffic
        BY <2>2 DEF CountBytes, EnoughTraffic, PauseLasts, deviceVars, receiverVars
    <2>3. CASE LowTraffic
        BY <2>3, CallAdded, PauseThreads, PauseDiffers DEF LowTraffic, ScreenOffPause
    <2>4. ASSUME NEW t \in Threads, Perform(t) PROVE PauseLasts'
        BY <2>4, PerformPaused
    <2>5. CASE UNCHANGED pauseVars
        BY <2>5 DEF pauseVars, deviceVars, receiverVars, controlVars, PauseLasts
    <2> QED BY <2>1, <2>2, <2>3, <2>4, <2>5 DEF PauseNext
<1>3. PauseLasts => UserPauseHolds
    BY PauseDiffers DEF PauseLasts, UserPauseHolds, Idle
<1> QED BY <1>1, <1>2, <1>3, PauseTypeCorrect, PTL DEF PauseSpec

--------------------------------------------------------------------------------
\* Where the screen has no say and requests arrive in the main thread, nothing is
\* ever pending or called in another thread.
AllInMain ==
    /\ screen = "SHOULDBECONNECTED"
    /\ ~counting
    /\ call["api"] = NoCall
    /\ call["mgmt"] = NoCall

\* What ReasonIsTruthful needs to be inductive: a pause on its way carries the
\* true reason, and what is forgotten is the reason of a VPN already released.
ReasonsTrue ==
    /\ \A r \in PauseReason :
           call["main"] = Pause(r) => (r = "userPause" <=> userpause = "DISCONNECTED")
    /\ call["main"] = ForgetReason => mReleaseHold
    /\ call["main"] \in {NoCall, NetworkChange} /\ ~mReleaseHold =>
           (lastPauseReason = "userPause" <=> userpause = "DISCONNECTED")

\* What NoNeedlessPause needs to be inductive: a network that is remembered is
\* up, and a wanted VPN is released or a call that releases it is under way.
ReleasedWhenWanted ==
    /\ lastNetwork # NoNetwork => network = "SHOULDBECONNECTED"
    /\ sendusr1 /\ network = "SHOULDBECONNECTED" /\ userpause = "SHOULDBECONNECTED" =>
          \/ call["main"] \in {Resume, Reconnect, ReleaseHold}
          \/ call["main"] \in {ForgetReason, NoCall} /\ mReleaseHold

\* The calls differ from each other, and pauses by their reason.
LEMMA CallsDiffer ==
    /\ \A r, s : Pause(r) = Pause(s) => r = s
    /\ \A r : Pause(r) \notin {Resume, Reconnect, NetworkChange, ReleaseHold, ForgetReason, NoCall}
    /\ \A r : Pause(r).op = "pause" /\ Pause(r).reason = r
    /\ \A c \in {Resume, Reconnect, NetworkChange, ReleaseHold, ForgetReason, NoCall} :
          c.op # "pause"
    /\ Resume \notin {Reconnect, NetworkChange, ReleaseHold, ForgetReason, NoCall}
    /\ Reconnect \notin {NetworkChange, ReleaseHold, ForgetReason, NoCall}
    /\ NetworkChange \notin {ReleaseHold, ForgetReason, NoCall}
    /\ ReleaseHold \notin {ForgetReason, NoCall}
    /\ ForgetReason # NoCall
<1>1. \A r : Pause(r).op = "pause" /\ Pause(r).reason = r
    BY DEF Pause
<1>2. /\ Resume.op = "resume" /\ Reconnect.op = "reconnect"
      /\ NetworkChange.op = "networkChange" /\ ReleaseHold.op = "releaseHold"
      /\ ForgetReason.op = "forgetReason" /\ NoCall.op = "none"
    BY DEF Resume, Reconnect, NetworkChange, ReleaseHold, ForgetReason, NoCall
<1> QED BY <1>1, <1>2

\* A lit screen leaves the reason to the user and the network: it is the user's
\* pause exactly when there is one, or when nothing stands against the VPN.
LEMMA LitReason ==
    ASSUME NEW n, NEW u, ~Connected(n, "SHOULDBECONNECTED", u),
           n \in {"SHOULDBECONNECTED", "DISCONNECTED"},
           u \in {"SHOULDBECONNECTED", "DISCONNECTED"}
    PROVE GetPauseReason(n, "SHOULDBECONNECTED", u) = "userPause" <=> u = "DISCONNECTED"
BY DEF Connected, GetPauseReason

\* Only the main thread ever has something to do.
LEMMA AllInMainStep ==
    ASSUME Requesters \subseteq {"main"}, ~ScreenOffPref,
           PauseTypeOK, AllInMain, [PauseNext]_pauseVars
    PROVE  AllInMain'
<1> USE DEF AllInMain, PauseTypeOK, DeviceTypeOK, Issue, Threads
<1>1. CASE Event
    <2> USE <1>1 DEF Event, controlVars
    <2>1. ASSUME NEW n \in Networks, NetworkConnected(n) PROVE AllInMain'
        BY <2>1 DEF NetworkConnected, SettleScreen
    <2>2. CASE NetworkLost
        BY <2>2 DEF NetworkLost, SettleScreen
    <2>3. CASE ScreenOff
        BY <2>3 DEF ScreenOff
    <2>4. CASE ScreenOn
        BY <2>4 DEF ScreenOn
    <2>5. CASE EditPreference
        BY <2>5 DEF EditPreference
    <2>6. ASSUME NEW t \in Requesters, UserRequest(t) PROVE AllInMain'
        <3>1. t = "main"
            OBVIOUS
        <3> QED BY <2>6, <3>1 DEF UserRequest, UserPause, UserResume
    <2> QED BY <2>1, <2>2, <2>3, <2>4, <2>5, <2>6 DEF MainEvent
<1>2. CASE CountBytes \/ LowTraffic \/ EnoughTraffic
    BY <1>2 DEF CountBytes, ByteCountPauses, LowTraffic, EnoughTraffic
<1>3. ASSUME NEW t \in Threads, Perform(t) PROVE AllInMain'
    <2>1. t = "main"
        BY <1>3, CallsDiffer DEF Perform, DoPause, DoReconnect, DoReleaseHold,
                                 DoForgetReason, DoNetworkChange
    <2> QED BY <1>3, <2>1 DEF Perform, DoPause, DoReconnect, DoReleaseHold,
                              DoForgetReason, DoNetworkChange, Done, receiverVars
<1>4. CASE UNCHANGED pauseVars
    BY <1>4 DEF pauseVars, deviceVars, receiverVars, controlVars
<1> QED BY <1>1, <1>2, <1>3, <1>4 DEF PauseNext

\* A handler leaves a call whose reason is true, or none where the reason stays.
LEMMA EventReasons ==
    ASSUME Requesters \subseteq {"main"}, ~AnyRequest, ~ScreenOffPref,
           PauseTypeOK, AllInMain, ReasonsTrue, Event
    PROVE  ReasonsTrue'
<1> USE CallsDiffer DEF AllInMain, ReasonsTrue, PauseTypeOK, DeviceTypeOK, Issue, Event,
                        controlVars, Threads
<1>1. ASSUME NEW n \in Networks, NetworkConnected(n) PROVE ReasonsTrue'
    <2>1. call["main"] = NoCall /\ userpause' = userpause
          /\ mReleaseHold' = mReleaseHold /\ lastPauseReason' = lastPauseReason
        BY <1>1 DEF NetworkConnected
    <2>2. \/ call'["main"] \in {NoCall, NetworkChange}
          \/ call'["main"] \in {Resume, Reconnect}
        BY <1>1, <2>1 DEF NetworkConnected
    <2> QED BY <2>1, <2>2
<1>2. CASE NetworkLost
    <2>1. SettleScreen(screen) = "SHOULDBECONNECTED"
        BY DEF SettleScreen
    <2>2. GetPauseReason("DISCONNECTED", "SHOULDBECONNECTED", userpause) = "userPause"
              <=> userpause = "DISCONNECTED"
        BY LitReason DEF Connected
    <2> QED BY <1>2, <2>1, <2>2 DEF NetworkLost
<1>3. CASE ScreenOff
    BY <1>3 DEF ScreenOff
<1>4. CASE ScreenOn
    <2>1. ShouldBeConnected <=> Connected(network, "SHOULDBECONNECTED", userpause)
        BY DEF ShouldBeConnected
    <2>2. CASE ShouldBeConnected
        BY <1>4, <2>2 DEF ScreenOn, ShouldBeConnected, Connected
    <2>3. CASE ~ShouldBeConnected
        <3>1. GetPauseReason(network, "SHOULDBECONNECTED", userpause) = "userPause"
                  <=> userpause = "DISCONNECTED"
            BY <2>1, <2>3, LitReason
        <3>2. /\ call'["main"] = Pause(GetPauseReason(network, "SHOULDBECONNECTED", userpause))
              /\ userpause' = userpause
            BY <1>4, <2>3 DEF ScreenOn, ShouldBeConnected, Connected
        <3> QED BY <3>1, <3>2
    <2> QED BY <2>2, <2>3
<1>5. CASE EditPreference
    BY <1>5 DEF EditPreference
<1>6. ASSUME NEW t \in Requesters, UserRequest(t) PROVE ReasonsTrue'
    <2>1. t = "main"
        OBVIOUS
    <2>2. CASE UserPause(t)
        BY <2>1, <2>2 DEF UserPause
    <2>3. CASE UserResume(t)
        <3>1. userpause = "DISCONNECTED" /\ userpause' = "SHOULDBECONNECTED"
            BY <2>3 DEF UserResume
        <3>2. ~ShouldBeConnected
            BY <3>1 DEF ShouldBeConnected, Connected
        <3>3. CASE Connected(network, screen, "SHOULDBECONNECTED")
            BY <2>1, <2>3, <3>1, <3>2, <3>3 DEF UserResume
        <3>4. CASE ~Connected(network, screen, "SHOULDBECONNECTED")
            <4>1. GetPauseReason(network, screen, "SHOULDBECONNECTED") # "userPause"
                BY <3>4, LitReason
            <4>2. call'["main"] = Pause(GetPauseReason(network, screen, "SHOULDBECONNECTED"))
                BY <2>1, <2>3, <3>4 DEF UserResume
            <4> QED BY <3>1, <4>1, <4>2
        <3> QED BY <3>3, <3>4
    <2> QED BY <1>6, <2>2, <2>3 DEF UserRequest
<1> QED BY <1>1, <1>2, <1>3, <1>4, <1>5, <1>6 DEF MainEvent

\* The only thread with something to do is the main thread.
LEMMA PerformedByMain ==
    ASSUME AllInMain, NEW t \in Threads, Perform(t)
    PROVE  t = "main"
BY CallsDiffer DEF AllInMain, Threads, Perform, DoPause, DoReconnect, DoReleaseHold,
                   DoForgetReason, DoNetworkChange

\* Carrying out a call tells the user its reason.
LEMMA PerformReasons ==
    ASSUME PauseTypeOK, AllInMain, ReasonsTrue, NEW t \in Threads, Perform(t)
    PROVE  ReasonsTrue'
<1>0. t = "main"
    BY PerformedByMain
<1> USE <1>0, CallsDiffer DEF ReasonsTrue, PauseTypeOK, DeviceTypeOK, Issue, Perform, Done,
                              receiverVars, Threads
<1>1. CASE DoPause(t)
    <2>1. PICK r \in PauseReason : call["main"] = Pause(r)
        BY <1>1 DEF DoPause, Calls
    <2> QED BY <1>1, <2>1 DEF DoPause
<1>2. CASE DoReconnect(t)
    BY <1>2 DEF DoReconnect
<1>3. CASE DoReleaseHold(t)
    BY <1>3 DEF DoReleaseHold
<1>4. CASE DoForgetReason(t)
    BY <1>4 DEF DoForgetReason
<1>5. CASE DoNetworkChange(t)
    BY <1>5 DEF DoNetworkChange
<1> QED BY <1>1, <1>2, <1>3, <1>4, <1>5

\* An event after which the VPN is wanted finds it released or calls for it.
LEMMA EventReleases ==
    ASSUME Requesters \subseteq {"main"}, ~AnyRequest, ~ScreenOffPref, ~PrefMayChange,
           PauseTypeOK, AllInMain, ReleasedWhenWanted, Event
    PROVE  ReleasedWhenWanted'
<1> USE CallsDiffer DEF AllInMain, ReleasedWhenWanted, PauseTypeOK, DeviceTypeOK, Issue,
                        Event, controlVars, Threads
<1>1. ASSUME NEW n \in Networks, NetworkConnected(n) PROVE ReleasedWhenWanted'
    <2>1. SettleScreen(screen) = "SHOULDBECONNECTED"
        BY DEF SettleScreen
    <2>2. CASE lastNetwork = n
        BY <1>1, <2>2, NetworksAssumption DEF NetworkConnected
    <2>3. CASE lastNetwork # n
        BY <1>1, <2>1, <2>3 DEF NetworkConnected, Connected
    <2> QED BY <2>2, <2>3
<1>2. CASE NetworkLost
    BY <1>2 DEF NetworkLost
<1>3. CASE ScreenOff
    BY <1>3 DEF ScreenOff
<1>4. CASE ScreenOn
    BY <1>4 DEF ScreenOn, ShouldBeConnected, Connected
<1>5. CASE EditPreference
    BY <1>5 DEF EditPreference
<1>6. ASSUME NEW t \in Requesters, UserRequest(t) PROVE ReleasedWhenWanted'
    <2>1. t = "main"
        OBVIOUS
    <2>2. CASE UserPause(t)
        BY <2>1, <2>2 DEF UserPause
    <2>3. CASE UserResume(t)
        <3>1. userpause = "DISCONNECTED"
            BY <2>3 DEF UserResume
        <3>2. ~ShouldBeConnected
            BY <3>1 DEF ShouldBeConnected, Connected
        <3>3. network = "SHOULDBECONNECTED" => call'["main"] = Resume
            BY <2>1, <2>3, <3>2 DEF UserResume, Connected
        <3> QED BY <2>1, <2>3, <3>3 DEF UserResume
    <2> QED BY <1>6, <2>2, <2>3 DEF UserRequest
<1> QED BY <1>1, <1>2, <1>3, <1>4, <1>5, <1>6 DEF MainEvent

\* Nothing but a call that releases the VPN in the end takes its release back
\* while it is wanted.
LEMMA PerformReleases ==
    ASSUME PauseTypeOK, AllInMain, ReleasedWhenWanted, NEW t \in Threads, Perform(t)
    PROVE  ReleasedWhenWanted'
<1>0. t = "main"
    BY PerformedByMain
<1> USE <1>0, CallsDiffer DEF ReleasedWhenWanted, PauseTypeOK, DeviceTypeOK, Issue, Perform,
                              Done, receiverVars, Threads
<1>1. CASE DoPause(t)
    BY <1>1 DEF DoPause
<1>2. CASE DoReconnect(t)
    BY <1>2 DEF DoReconnect
<1>3. CASE DoReleaseHold(t)
    BY <1>3 DEF DoReleaseHold
<1>4. CASE DoForgetReason(t)
    BY <1>4 DEF DoForgetReason
<1>5. CASE DoNetworkChange(t)
    BY <1>5 DEF DoNetworkChange
<1> QED BY <1>1, <1>2, <1>3, <1>4, <1>5

\* The byte count of the management thread finds no screen-off to act on.
LEMMA NothingCounted ==
    ASSUME AllInMain
    PROVE  ~CountBytes /\ ~LowTraffic /\ ~EnoughTraffic
BY DEF AllInMain, CountBytes, ByteCountPauses, LowTraffic, EnoughTraffic

LEMMA AllInMainInvariant ==
    ASSUME Requesters \subseteq {"main"}, ~ScreenOffPref
    PROVE  PauseSpec => []AllInMain
<1>1. PauseInit => AllInMain
    BY DEF PauseInit, DeviceInit, AllInMain, Threads
<1>2. PauseTypeOK /\ AllInMain /\ [PauseNext]_pauseVars => AllInMain'
    BY AllInMainStep
<1> QED BY <1>1, <1>2, PauseTypeCorrect, PTL DEF PauseSpec

\* Where the screen has no say and every request toggles the user's pause, the
\* user of a paused VPN is told that it was paused by hand exactly when it was,
\* however often networks and the reconnect preference change.
THEOREM ReasonIsTrue ==
    ASSUME Requesters \subseteq {"main"}, ~AnyRequest, ~ScreenOffPref
    PROVE  PauseSpec => []ReasonIsTruthful
<1>1. PauseInit => ReasonsTrue
    BY CallsDiffer DEF PauseInit, DeviceInit, ReasonsTrue, Threads
<1>2. PauseTypeOK /\ AllInMain /\ ReasonsTrue /\ [PauseNext]_pauseVars => ReasonsTrue'
    <2> SUFFICES ASSUME PauseTypeOK, AllInMain, ReasonsTrue, [PauseNext]_pauseVars
                 PROVE  ReasonsTrue'
        OBVIOUS
    <2>1. CASE Event
        BY <2>1, EventReasons
    <2>2. ASSUME NEW t \in Threads, Perform(t) PROVE ReasonsTrue'
        BY <2>2, PerformReasons
    <2>3. CASE UNCHANGED pauseVars
        BY <2>3 DEF pauseVars, deviceVars, receiverVars, controlVars, ReasonsTrue
    <2> QED BY <2>1, <2>2, <2>3, NothingCounted DEF PauseNext
<1>3. ReasonsTrue => ReasonIsTruthful
    BY DEF ReasonsTrue, ReasonIsTruthful, Idle, Threads
<1> QED BY <1>1, <1>2, <1>3, PauseTypeCorrect, AllInMainInvariant, PTL DEF PauseSpec

\* Where, besides, the reconnect preference is left alone, a VPN that network and
\* user want is not kept in hold once the calls are carried out.
THEOREM WantedIsReleased ==
    ASSUME Requesters \subseteq {"main"}, ~AnyRequest, ~ScreenOffPref, ~PrefMayChange
    PROVE  PauseSpec => []NoNeedlessPause
<1>1. PauseInit => ReleasedWhenWanted
    BY DEF PauseInit, DeviceInit, ReleasedWhenWanted
<1>2. PauseTypeOK /\ AllInMain /\ ReleasedWhenWanted /\ [PauseNext]_pauseVars
          => ReleasedWhenWanted'
    <2> SUFFICES ASSUME PauseTypeOK, AllInMain, ReleasedWhenWanted, [PauseNext]_pauseVars
                 PROVE  ReleasedWhenWanted'
        OBVIOUS
    <2>1. CASE Event
        BY <2>1, EventReleases
    <2>2. ASSUME NEW t \in Threads, Perform(t) PROVE ReleasedWhenWanted'
        BY <2>2, PerformReleases
    <2>3. CASE UNCHANGED pauseVars
        BY <2>3 DEF pauseVars, deviceVars, receiverVars, controlVars, ReleasedWhenWanted
    <2> QED BY <2>1, <2>2, <2>3, NothingCounted DEF PauseNext
<1>3. ReleasedWhenWanted => NoNeedlessPause
    BY CallsDiffer DEF ReleasedWhenWanted, NoNeedlessPause, Wanted, Idle, Threads
<1> QED BY <1>1, <1>2, <1>3, PauseTypeCorrect, AllInMainInvariant, PTL DEF PauseSpec
================================================================================
