----------------------------- MODULE PauseControl ------------------------------
(***************************************************************************)
(* What pausing promises: the receiver of DeviceState together with the    *)
(* two fields of OpenVpnManagementThread its calls are about.              *)
(* mReleaseHold says whether the VPN may leave the management hold, and    *)
(* lastPauseReason is what the user is told while it may not.  Signals and *)
(* commands to the native process are left to HoldProtocol, which          *)
(* implements this module.                                                 *)
(***************************************************************************)
EXTENDS DeviceState

VARIABLES
    mReleaseHold,
    lastPauseReason,
    counting         \* updateByteCount() is past its test of a pending screen-off

controlVars == <<mReleaseHold, lastPauseReason, counting>>
pauseVars == <<deviceVars, controlVars>>

\* Types of the receiver's and the management thread's fields.
PauseTypeOK ==
    /\ DeviceTypeOK
    /\ mReleaseHold \in BOOLEAN
    /\ lastPauseReason \in PauseReason
    /\ counting \in BOOLEAN

PauseInit ==
    /\ DeviceInit
    /\ mReleaseHold = ~sendusr1
    /\ lastPauseReason = "noNetwork"
    /\ counting = FALSE

--------------------------------------------------------------------------------
Done(t) == Issue(t, NoCall)

(* pause(reason): lastPauseReason = reason; signalusr1().                  *)
DoPause(t) ==
    /\ call[t].op = "pause"
    /\ lastPauseReason' = call[t].reason
    /\ mReleaseHold' = FALSE
    /\ Done(t)

(* reconnect(): signalusr1(), which leaves releaseHold() to do.            *)
DoReconnect(t) ==
    /\ call[t] = Reconnect
    /\ mReleaseHold' = FALSE
    /\ Issue(t, ReleaseHold)
    /\ UNCHANGED lastPauseReason

(* releaseHold(), of reconnect() or of resume().                           *)
DoReleaseHold(t) ==
    /\ call[t] \in {Resume, ReleaseHold}
    /\ mReleaseHold' = TRUE
    /\ Issue(t, IF call[t] = Resume THEN ForgetReason ELSE NoCall)
    /\ UNCHANGED lastPauseReason

(* The last line of resume().                                              *)
DoForgetReason(t) ==
    /\ call[t] = ForgetReason
    /\ lastPauseReason' = "noNetwork"
    /\ Done(t)
    /\ UNCHANGED mReleaseHold

(* networkChange() touches neither field.                                  *)
DoNetworkChange(t) ==
    /\ call[t] = NetworkChange
    /\ Done(t)
    /\ UNCHANGED <<mReleaseHold, lastPauseReason>>

Perform(t) ==
    /\ \/ DoPause(t)
       \/ DoReconnect(t)
       \/ DoReleaseHold(t)
       \/ DoForgetReason(t)
       \/ DoNetworkChange(t)
    /\ UNCHANGED <<receiverVars, counting>>

(* A byte count finds a screen-off pending, and acts on it when the        *)
(* traffic of the last minute is low.                                      *)
CountBytes ==
    /\ ~counting
    /\ call["mgmt"] = NoCall
    /\ ByteCountPauses
    /\ counting' = TRUE
    /\ UNCHANGED <<deviceVars, mReleaseHold, lastPauseReason>>

LowTraffic ==
    /\ counting
    /\ counting' = FALSE
    /\ ScreenOffPause
    /\ UNCHANGED <<mReleaseHold, lastPauseReason>>

EnoughTraffic ==
    /\ counting
    /\ counting' = FALSE
    /\ UNCHANGED <<deviceVars, mReleaseHold, lastPauseReason>>

Event ==
    /\ MainEvent \/ \E t \in Requesters : UserRequest(t)
    /\ UNCHANGED controlVars

PauseNext ==
    \/ Event
    \/ CountBytes
    \/ LowTraffic
    \/ EnoughTraffic
    \/ \E t \in Threads : Perform(t)

PauseSpec == PauseInit /\ [][PauseNext]_pauseVars

--------------------------------------------------------------------------------
Idle == \A t \in Threads : call[t] = NoCall

\* Once every call is carried out, a VPN the user paused may not leave its
\* hold, whatever network, screen and preference events came before or since
\* and in whichever threads they and the user's requests were handled
\* (DeviceStateReceiver.userPause, networkStateChange, onReceive), unless the
\* pause itself came between another thread's decision to release the VPN and
\* the release: nothing takes that back.
UserPauseHolds ==
    Idle /\ userpause = "DISCONNECTED" /\ ~crossed => ~mReleaseHold

\* What the device asks for: the screen is lit, a network is there and the user
\* has not paused.
Wanted ==
    /\ display = "on"
    /\ network = "SHOULDBECONNECTED"
    /\ userpause = "SHOULDBECONNECTED"

\* Once every call is carried out, a wanted VPN is not kept in hold while the
\* receiver reacts to networks with resume() and reconnect()
\* (networkStateChange, onReceive and userPause of DeviceStateReceiver).
NoNeedlessPause == Idle /\ sendusr1 /\ Wanted => mReleaseHold

\* While the VPN is paused the user is told that it was paused by hand exactly
\* when it was (getPauseReason() and the calls that only update the reason).
ReasonIsTruthful ==
    Idle /\ ~mReleaseHold =>
        (lastPauseReason = "userPause" <=> userpause = "DISCONNECTED")
================================================================================
