------------------------------ MODULE DeviceState ------------------------------
(***************************************************************************)
(* DeviceStateReceiver: the broadcast receiver that turns connectivity,    *)
(* screen and user events into calls of the OpenVPNManagement interface.   *)
(*                                                                         *)
(* A handler assigns the receiver's fields and makes at most one call of   *)
(* the management object.  The call runs in the thread of the handler and  *)
(* is not atomic with it, so it is kept in call[t] until the modules that  *)
(* EXTEND this one (PauseControl, HoldProtocol) have carried it out.       *)
(* Broadcasts and the notification's buttons arrive in the application's   *)
(* main thread, requests of API clients in a binder thread, byte counts in *)
(* the thread that reads the management socket.                            *)
(***************************************************************************)
EXTENDS Naturals, FiniteSets

CONSTANTS
    Networks,        \* network types getActiveNetworkInfo() may report
    NoNetwork,       \* lastNetwork = -1
    ScreenOffPref,   \* the preference "screenoff"
    Requesters,      \* threads in which a pause or resume request can arrive:
                     \* "main" (the notification), "api" (IOpenVPNAPIService)
    AnyRequest,      \* TRUE: a request need not toggle the user's pause (an API
                     \* client, a button pressed twice); FALSE: it always does
    PrefMayChange    \* TRUE: "netchangereconnect" is edited while the VPN is up

ASSUME NetworksAssumption == Networks # {} /\ NoNetwork \notin Networks
ASSUME RequestersAssumption == Requesters \subseteq {"main", "api"}
ASSUME SwitchesAssumption == {ScreenOffPref, AnyRequest, PrefMayChange} \subseteq BOOLEAN

Threads == {"main", "api", "mgmt"}
ConnectState == {"SHOULDBECONNECTED", "PENDINGDISCONNECT", "DISCONNECTED"}
PauseReason == {"noNetwork", "userPause", "screenOff"}

\* The calls of the OpenVPNManagement interface the receiver makes.  ReleaseHold
\* and ForgetReason are no calls of the receiver but what is left to do of
\* reconnect() after its signalusr1() and of resume() after its releaseHold().
Pause(r) == [op |-> "pause", reason |-> r]
Resume == [op |-> "resume"]
Reconnect == [op |-> "reconnect"]
NetworkChange == [op |-> "networkChange"]
ReleaseHold == [op |-> "releaseHold"]
ForgetReason == [op |-> "forgetReason"]
NoCall == [op |-> "none"]
Calls == {Pause(r) : r \in PauseReason}
            \cup {Resume, Reconnect, NetworkChange, ReleaseHold, ForgetReason, NoCall}

VARIABLES
    network, screen, userpause,   \* the three connectState fields
    lastNetwork,                  \* type of the last connected network
    sendusr1,                     \* the preference "netchangereconnect"
    display,                      \* is the device's screen "on" or "off"
    call,                         \* management call each thread still has to make
    crossed                       \* history: the last pause of the user found another
                                  \* thread on its way to release the VPN

receiverVars == <<network, screen, userpause, lastNetwork, sendusr1, display, crossed>>
deviceVars == <<receiverVars, call>>

DeviceTypeOK ==
    /\ network \in {"SHOULDBECONNECTED", "DISCONNECTED"}
    /\ screen \in ConnectState
    /\ userpause \in {"SHOULDBECONNECTED", "DISCONNECTED"}
    /\ lastNetwork \in Networks \cup {NoNetwork}
    /\ sendusr1 \in BOOLEAN
    /\ display \in {"on", "off"}
    /\ call \in [Threads -> Calls]
    /\ crossed \in BOOLEAN

DeviceInit ==
    /\ network = "DISCONNECTED"
    /\ screen = "SHOULDBECONNECTED"
    /\ userpause = "SHOULDBECONNECTED"
    /\ lastNetwork = NoNetwork
    /\ sendusr1 \in BOOLEAN
    /\ display = "on"
    /\ call = [t \in Threads |-> NoCall]
    /\ crossed = FALSE

--------------------------------------------------------------------------------
\* Mutant: shouldBeConnected() without its test of the user's pause.
ConnectedThoughPaused(n, s, u) == s = "SHOULDBECONNECTED" /\ n = "SHOULDBECONNECTED"

\* shouldBeConnected().
Connected(n, s, u) ==
    /\ s = "SHOULDBECONNECTED"
    /\ u = "SHOULDBECONNECTED"
    /\ n = "SHOULDBECONNECTED"

ShouldBeConnected == Connected(network, screen, userpause)

\* Mutant: the missing network is looked at first.
NetworkReasonFirst(n, s, u) ==
    CASE n = "DISCONNECTED" -> "noNetwork"
      [] n # "DISCONNECTED" /\ u = "DISCONNECTED" -> "userPause"
      [] OTHER -> "screenOff"

\* getPauseReason(): the last line is reached when only a screen-off is pending.
GetPauseReason(n, s, u) ==
    CASE u = "DISCONNECTED" -> "userPause"
      [] u # "DISCONNECTED" /\ s = "DISCONNECTED" -> "screenOff"
      [] u # "DISCONNECTED" /\ s # "DISCONNECTED" /\ n = "DISCONNECTED" -> "noNetwork"
      [] OTHER -> "userPause"

\* A pending screen-off disconnect is made final when the network changes.
SettleScreen(s) == IF s = "PENDINGDISCONNECT" THEN "DISCONNECTED" ELSE s

Issue(t, c) == call' = [call EXCEPT ![t] = c]

\* Another thread has decided to release the VPN and not done so yet.
ReleaseDecided(t) ==
    \E u \in Threads \ {t} : call[u] \in {Resume, Reconnect, ReleaseHold}

--------------------------------------------------------------------------------
(* networkStateChange() when the active network is up and of type newnet.  *)
NetworkConnected(newnet) ==
    /\ call["main"] = NoCall
    /\ network' = "SHOULDBECONNECTED"
    /\ lastNetwork' = newnet
    /\ IF lastNetwork = newnet
       THEN UNCHANGED <<screen, call>>
       ELSE /\ screen' = SettleScreen(screen)
            /\ Issue("main",
                 IF ~Connected("SHOULDBECONNECTED", SettleScreen(screen), userpause)
                 THEN NoCall
                 ELSE IF ~sendusr1 THEN NetworkChange
                 ELSE IF lastNetwork = NoNetwork THEN Resume ELSE Reconnect)
    /\ UNCHANGED <<userpause, sendusr1, display, crossed>>

(* networkStateChange() when there is no active network.                   *)
NetworkLost ==
    /\ call["main"] = NoCall
    /\ lastNetwork' = NoNetwork
    /\ IF sendusr1
       THEN /\ network' = "DISCONNECTED"
            /\ screen' = SettleScreen(screen)
            /\ Issue("main",
                 Pause(GetPauseReason("DISCONNECTED", SettleScreen(screen), userpause)))
       ELSE UNCHANGED <<network, screen, call>>
    /\ UNCHANGED <<userpause, sendusr1, display, crossed>>

(* onReceive() of ACTION_SCREEN_OFF: schedules a pause that waits for the  *)
(* traffic to drop.                                                        *)
ScreenOff ==
    /\ call["main"] = NoCall
    /\ display = "on"
    /\ display' = "off"
    /\ screen' = IF ~ScreenOffPref THEN screen
                 ELSE IF "DISCONNECTED" \in {network, userpause} THEN "DISCONNECTED"
                 ELSE "PENDINGDISCONNECT"
    /\ UNCHANGED <<network, userpause, lastNetwork, sendusr1, call, crossed>>

(* onReceive() of ACTION_SCREEN_ON.                                        *)
ScreenOn ==
    /\ call["main"] = NoCall
    /\ display = "off"
    /\ display' = "on"
    /\ screen' = "SHOULDBECONNECTED"
    /\ LET now == Connected(network, "SHOULDBECONNECTED", userpause)
       IN Issue("main",
            IF now # ShouldBeConnected THEN Resume
            ELSE IF now THEN NoCall
            ELSE Pause(GetPauseReason(network, "SHOULDBECONNECTED", userpause)))
    /\ UNCHANGED <<network, userpause, lastNetwork, sendusr1, crossed>>

(* userPause(true): the pause button, or pause() of the external API.      *)
UserPause(t) ==
    /\ call[t] = NoCall
    /\ AnyRequest \/ userpause = "SHOULDBECONNECTED"
    /\ userpause' = "DISCONNECTED"
    /\ Issue(t, Pause("userPause"))
    /\ crossed' = ReleaseDecided(t)
    /\ UNCHANGED <<network, screen, lastNetwork, sendusr1, display>>

(* userPause(false): the resume button, or resume() of the external API.   *)
UserResume(t) ==
    /\ call[t] = NoCall
    /\ AnyRequest \/ userpause = "DISCONNECTED"
    /\ userpause' = "SHOULDBECONNECTED"
    /\ LET now == Connected(network, screen, "SHOULDBECONNECTED")
       IN Issue(t,
            IF now /\ ~ShouldBeConnected THEN Resume
            ELSE Pause(GetPauseReason(network, screen, "SHOULDBECONNECTED")))
    /\ UNCHANGED <<network, screen, lastNetwork, sendusr1, display, crossed>>

(* The user edits the preference "netchangereconnect".                     *)
EditPreference ==
    /\ PrefMayChange
    /\ call["main"] = NoCall
    /\ sendusr1' = ~sendusr1
    /\ UNCHANGED <<network, screen, userpause, lastNetwork, display, call, crossed>>

MainEvent ==
    \/ \E n \in Networks : NetworkConnected(n)
    \/ NetworkLost
    \/ ScreenOff
    \/ ScreenOn
    \/ EditPreference

UserRequest(t) == UserPause(t) \/ UserResume(t)

--------------------------------------------------------------------------------
\* updateByteCount(), lines 57-71: only a pending screen-off looks at the
\* traffic of the last minute.
ByteCountPauses == screen = "PENDINGDISCONNECT"

(* updateByteCount(), lines 72-76, in the management thread.               *)
ScreenOffPause ==
    /\ call["mgmt"] = NoCall
    /\ screen' = "DISCONNECTED"
    /\ Issue("mgmt", Pause(GetPauseReason(network, "DISCONNECTED", userpause)))
    /\ UNCHANGED <<network, userpause, lastNetwork, sendusr1, display, crossed>>
================================================================================
