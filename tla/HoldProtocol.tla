------------------------------ MODULE HoldProtocol -----------------------------
(***************************************************************************)
(* The management hold between OpenVpnManagementThread and the native      *)
(* OpenVPN process: the calls of the receiver step by step, the two        *)
(* directions of the management socket, and the process, which either      *)
(* sits in management_hold() or runs.                                      *)
(*                                                                         *)
(* None of the fields below is guarded by a lock.  A thread's step is one  *)
(* access to a field other threads write, so a thread may be overtaken     *)
(* between a test and what it does about it, for 3 s and more when         *)
(* releaseHoldCmd() sleeps.                                                *)
(***************************************************************************)
EXTENDS DeviceState, Sequences

CONSTANT
    MaxQueue          \* bound: events start while fewer messages are in transit

ASSUME MaxQueueAssumption == MaxQueue \in Nat \ {0}

VARIABLES
    mReleaseHold, mWaitingForRelease, lastPauseReason,
    pc,          \* what each thread does next of the call or message it handles
    toNative,    \* management commands sent and not read yet
    toJava,      \* ">HOLD" notifications sent and not read yet
    native,      \* "hold": in management_hold(); "run": anywhere else
    raced,       \* history: releaseHold() looked at mWaitingForRelease while
                 \* handleHold() was about to set it
    outrun       \* history: since the last releaseHold() a release was sent
                 \* after a pause, or a process taken to wait that was released

fieldVars == <<mReleaseHold, mWaitingForRelease, lastPauseReason>>
historyVars == <<raced, outrun>>
holdVars == <<deviceVars, fieldVars, pc, toNative, toJava, native, historyVars>>

\* "usr1", "netchange", "check": test mWaitingForRelease; "release": about to
\* clear it; "send": about to write "hold release"; "wait": about to set it.
PC == {"ready", "usr1", "netchange", "check", "release", "send", "wait", "count"}
Command == {"usr1", "release", "netchange"}
HOLD == "HOLD"

\* Types of the fields, the sockets' contents and the process.
HoldTypeOK ==
    /\ DeviceTypeOK
    /\ mReleaseHold \in BOOLEAN
    /\ mWaitingForRelease \in BOOLEAN
    /\ lastPauseReason \in PauseReason
    /\ pc \in [Threads -> PC]
    /\ toNative \in Seq(Command)
    /\ toJava \in Seq({HOLD})
    /\ native \in {"hold", "run"}
    /\ raced \in BOOLEAN
    /\ outrun \in BOOLEAN

\* The process has connected to the management socket and entered its first
\* hold (do_hold in openvpn_main), which it announced.
HoldInit ==
    /\ DeviceInit
    /\ mReleaseHold = ~sendusr1
    /\ mWaitingForRelease = FALSE
    /\ lastPauseReason = "noNetwork"
    /\ pc = [t \in Threads |-> "ready"]
    /\ toNative = <<>>
    /\ toJava = <<HOLD>>
    /\ native = "hold"
    /\ raced = FALSE
    /\ outrun = FALSE

--------------------------------------------------------------------------------
Goto(t, label) == pc' = [pc EXCEPT ![t] = label]

Send(cmd) == toNative' = Append(toNative, cmd)

AtRest(t) == pc[t] = "ready" /\ call[t] = NoCall

InTransit == Len(toNative) + Len(toJava)

Count(cmds, cmd) == Cardinality({i \in DOMAIN cmds : cmds[i] = cmd})

Contains(cmds, cmd) == \E i \in DOMAIN cmds : cmds[i] = cmd

InFlight(cmd) == Contains(toNative, cmd)

\* What is in the socket leaves the process in hold: it is there and no release
\* comes, or none comes after the last signal.
EndsInHold ==
    \/ native = "hold" /\ ~InFlight("release")
    \/ \E i \in DOMAIN toNative :
          /\ toNative[i] = "usr1"
          /\ \A j \in DOMAIN toNative : j > i => toNative[j] # "release"

(* A broadcast, or a request of the user.                                  *)
Event ==
    /\ InTransit < MaxQueue
    /\ \/ AtRest("main") /\ MainEvent
       \/ \E t \in Requesters : AtRest(t) /\ UserRequest(t)
    /\ UNCHANGED <<fieldVars, pc, toNative, toJava, native, historyVars>>

\* Mutant: pause() without signalusr1().
PauseWithoutSignal(t) ==
    /\ call[t].op = "pause"
    /\ lastPauseReason' = call[t].reason
    /\ mReleaseHold' = FALSE
    /\ Issue(t, NoCall)
    /\ Goto(t, "ready")
    /\ UNCHANGED <<mWaitingForRelease, historyVars>>

(* pause(), and the first line of the signalusr1() it calls.               *)
CallPause(t) ==
    /\ call[t].op = "pause"
    /\ lastPauseReason' = call[t].reason
    /\ mReleaseHold' = FALSE
    /\ Issue(t, NoCall)
    /\ Goto(t, "usr1")
    /\ UNCHANGED <<mWaitingForRelease, historyVars>>

\* Mutant: reconnect() signals without taking the release back.
ReconnectKeepsRelease(t) ==
    /\ call[t] = Reconnect
    /\ Issue(t, ReleaseHold)
    /\ Goto(t, "usr1")
    /\ UNCHANGED <<fieldVars, historyVars>>

\* Mutant: reconnect() without releaseHold().
ReconnectWithoutRelease(t) ==
    /\ call[t] = Reconnect
    /\ mReleaseHold' = FALSE
    /\ Issue(t, NoCall)
    /\ Goto(t, "usr1")
    /\ UNCHANGED <<mWaitingForRelease, lastPauseReason, historyVars>>

(* reconnect(): signalusr1() first, releaseHold() when it returns.         *)
CallReconnect(t) ==
    /\ call[t] = Reconnect
    /\ mReleaseHold' = FALSE
    /\ Issue(t, ReleaseHold)
    /\ Goto(t, "usr1")
    /\ UNCHANGED <<mWaitingForRelease, lastPauseReason, historyVars>>

(* The first line of releaseHold().                                        *)
CallReleaseHold(t) ==
    /\ call[t] \in {Resume, ReleaseHold}
    /\ mReleaseHold' = TRUE
    /\ Issue(t, IF call[t] = Resume THEN ForgetReason ELSE NoCall)
    /\ Goto(t, "check")
    /\ outrun' = FALSE
    /\ UNCHANGED <<mWaitingForRelease, lastPauseReason, raced>>

\* Mutant: the reason is set to null.
ForgetReasonToNull(t) ==
    /\ call[t] = ForgetReason
    /\ lastPauseReason' = "null"
    /\ Issue(t, NoCall)
    /\ UNCHANGED <<mReleaseHold, mWaitingForRelease, pc, historyVars>>

(* The last line of resume().                                              *)
CallForgetReason(t) ==
    /\ call[t] = ForgetReason
    /\ lastPauseReason' = "noNetwork"
    /\ Issue(t, NoCall)
    /\ UNCHANGED <<mReleaseHold, mWaitingForRelease, pc, historyVars>>

CallNetworkChange(t) ==
    /\ call[t] = NetworkChange
    /\ Issue(t, NoCall)
    /\ Goto(t, "netchange")
    /\ UNCHANGED <<fieldVars, historyVars>>

StartCall(t) ==
    /\ pc[t] = "ready"
    /\ \/ CallPause(t)
       \/ CallReconnect(t)
       \/ CallReleaseHold(t)
       \/ CallForgetReason(t)
       \/ CallNetworkChange(t)
    /\ UNCHANGED <<receiverVars, toNative, toJava, native>>

--------------------------------------------------------------------------------
(* signalusr1() and networkChange(): a command, unless the process is known *)
(* to wait for a release.                                                  *)
SendUnlessWaiting(t) ==
    /\ pc[t] \in {"usr1", "netchange"}
    /\ IF mWaitingForRelease THEN UNCHANGED toNative ELSE Send(pc[t])
    /\ Goto(t, "ready")
    /\ UNCHANGED <<fieldVars, toJava, native, historyVars>>

\* Mutant: releaseHold() leaves the release to the next ">HOLD".
WaitingNotChecked(t) ==
    /\ pc[t] = "check"
    /\ Goto(t, "ready")
    /\ UNCHANGED <<fieldVars, toNative, toJava, native, historyVars>>

(* releaseHold(): if (mWaitingForRelease) releaseHoldCmd().                *)
CheckWaiting(t) ==
    /\ pc[t] = "check"
    /\ Goto(t, IF mWaitingForRelease THEN "release" ELSE "ready")
    /\ raced' = (~mWaitingForRelease /\ pc["mgmt"] = "wait")
    /\ UNCHANGED <<fieldVars, toNative, toJava, native, outrun>>

\* Mutant: a write error after the flag is cleared loses the release.
ClearWithoutSending(t) ==
    /\ pc[t] = "release"
    /\ mWaitingForRelease' = FALSE
    /\ Goto(t, "ready")
    /\ UNCHANGED <<mReleaseHold, lastPauseReason, toNative, toJava, native, historyVars>>

(* releaseHoldCmd() after its sleep: mWaitingForRelease = false.           *)
ClearWaiting(t) ==
    /\ pc[t] = "release"
    /\ mWaitingForRelease' = FALSE
    /\ Goto(t, "send")
    /\ UNCHANGED <<mReleaseHold, lastPauseReason, toNative, toJava, native, historyVars>>

(* releaseHoldCmd(): "hold release", with "bytecount" and "state on" behind *)
(* it, which change nothing here.  A pause may have come during its sleep.  *)
SendRelease(t) ==
    /\ pc[t] = "send"
    /\ Send("release")
    /\ Goto(t, "ready")
    /\ outrun' = (outrun \/ ~mReleaseHold)
    /\ UNCHANGED <<fieldVars, toJava, native, raced>>

(* handleHold(): the second half of the branch that waits.  The process may *)
(* have been released since it announced the hold that is handled.         *)
SetWaiting(t) ==
    /\ pc[t] = "wait"
    /\ mWaitingForRelease' = TRUE
    /\ Goto(t, "ready")
    /\ outrun' = (outrun \/ ~EndsInHold \/ \E u \in Threads : pc[u] = "send")
    /\ UNCHANGED <<mReleaseHold, lastPauseReason, toNative, toJava, native, raced>>

Step(t) ==
    \/ StartCall(t)
    \/ /\ \/ SendUnlessWaiting(t)
          \/ CheckWaiting(t)
          \/ ClearWaiting(t)
          \/ SendRelease(t)
          \/ SetWaiting(t)
       /\ UNCHANGED deviceVars

(* handleHold(): the management thread reads ">HOLD" and tests mReleaseHold. *)
HandleHold ==
    /\ AtRest("mgmt")
    /\ toJava # <<>>
    /\ toJava' = Tail(toJava)
    /\ Goto("mgmt", IF mReleaseHold THEN "release" ELSE "wait")
    /\ raced' = FALSE
    /\ UNCHANGED <<deviceVars, fieldVars, toNative, native, outrun>>

(* processByteCount() with a screen-off pending, then what it decides.     *)
CountBytes ==
    /\ InTransit < MaxQueue
    /\ AtRest("mgmt")
    /\ ByteCountPauses
    /\ Goto("mgmt", "count")
    /\ UNCHANGED <<deviceVars, fieldVars, toNative, toJava, native, historyVars>>

EnoughTraffic ==
    /\ pc["mgmt"] = "count"
    /\ Goto("mgmt", "ready")
    /\ UNCHANGED <<deviceVars, fieldVars, toNative, toJava, native, historyVars>>

LowTraffic ==
    /\ pc["mgmt"] = "count"
    /\ Goto("mgmt", "ready")
    /\ ScreenOffPause
    /\ UNCHANGED <<fieldVars, toNative, toJava, native, historyVars>>

--------------------------------------------------------------------------------
Notices(n) == [i \in 1 .. n |-> HOLD]

\* man_signal() answers a SIGUSR1 it ignores with the notification of the hold,
\* and the event loop of management_hold() ends after the read that brought a
\* release.
ReadInHold(batch) ==
    /\ native = "hold"
    /\ toJava' = toJava \o Notices(Count(batch, "usr1"))
    /\ native' = IF Contains(batch, "release") THEN "run" ELSE "hold"

\* Mutant: a hold after a restart is not announced.
SilentRestart ==
    /\ native = "run"
    /\ native' = "hold"
    /\ UNCHANGED toJava

\* A restart clears hold_release (management_clear_callback), whatever release
\* came with the signal, and announces the next hold.
Restart ==
    /\ native = "run"
    /\ native' = "hold"
    /\ toJava' = Append(toJava, HOLD)

\* network-change restarts a client whose address is pulled from a server that
\* does not know session ids, and only protects the socket again otherwise.
ReadInRun(batch) ==
    \/ /\ Contains(batch, "usr1") \/ Contains(batch, "netchange")
       /\ Restart
    \/ /\ ~Contains(batch, "usr1")
       /\ native = "run"
       /\ UNCHANGED <<toJava, native>>

(* One man_read() and the commands it found in the socket.                 *)
NativeRead ==
    \E n \in 1 .. Len(toNative) :
        /\ \/ ReadInHold(SubSeq(toNative, 1, n))
           \/ ReadInRun(SubSeq(toNative, 1, n))
        /\ toNative' = SubSeq(toNative, n + 1, Len(toNative))
        /\ UNCHANGED <<deviceVars, fieldVars, pc, historyVars>>

(* A restart of the process's own: ping-restart, a TLS or server error.    *)
NativeRestart ==
    /\ InTransit < MaxQueue
    /\ Restart
    /\ UNCHANGED <<deviceVars, fieldVars, pc, toNative, historyVars>>

HoldNext ==
    \/ Event
    \/ \E t \in Threads : Step(t)
    \/ HandleHold
    \/ CountBytes
    \/ EnoughTraffic
    \/ LowTraffic
    \/ NativeRead
    \/ NativeRestart

HoldSpec == HoldInit /\ [][HoldNext]_holdVars

\* A thread that has something to do goes on, a sleep ends, the process reads
\* what is sent to it, and the management thread, which reads its socket in
\* order, comes to every notification.
HoldFairness ==
    /\ \A t \in Threads : WF_holdVars(Step(t))
    /\ WF_holdVars(EnoughTraffic \/ LowTraffic)
    /\ WF_holdVars(NativeRead)
    /\ SF_holdVars(HandleHold)

FairHoldSpec == HoldSpec /\ HoldFairness

--------------------------------------------------------------------------------
\* The calls of the receiver have, step by step, the effect on the two fields
\* that PauseControl gives them as single steps.
Promise == INSTANCE PauseControl WITH counting <- (pc["mgmt"] = "count")
ImplementsPromise == Promise!PauseSpec

\* What PauseControl says of a paused VPN (it may not leave its hold), of a wanted
\* one (it is released) and of the reason shown to the user (it is the true one),
\* of the fields as the threads leave them.
UserPauseHolds == Promise!UserPauseHolds
NoNeedlessPause == Promise!NoNeedlessPause
ReasonIsTruthful == Promise!ReasonIsTruthful

\* A process in hold is never forgotten: it is known to wait, or its
\* notification or the release that ends its hold is on the way (handleHold,
\* releaseHoldCmd and man_hold, whatever threads and reads overlap).
HoldTracked ==
    native = "hold" =>
        \/ mWaitingForRelease
        \/ toJava # <<>>
        \/ pc["mgmt"] = "wait"
        \/ \E t \in Threads : pc[t] \in {"release", "send"}
        \/ InFlight("release")

Quiescent ==
    /\ \A t \in Threads : AtRest(t)
    /\ toNative = <<>>
    /\ toJava = <<>>

\* When nothing is on the way any more, a process that may leave its hold has
\* left it (handleHold and releaseHold).
NoLostWakeup == Quiescent /\ mReleaseHold => native = "run"

\* That a wakeup is lost takes a releaseHold() that looks at mWaitingForRelease
\* while handleHold() is between its test and its assignment, since the last
\* notification was handled: no other order of threads, signals, restarts and
\* reads leaves a process in hold that may run (handleHold, releaseHold).
LostOnlyByRace == Quiescent /\ mReleaseHold /\ ~raced => native = "run"

\* When nothing is on the way any more, a process that may not run is in hold
\* (pause, signalusr1 and management_hold), however many commands it read at
\* once.  The exceptions are those of the threads' own tests: since the last
\* releaseHold() a release was sent after the pause had come (releaseHoldCmd
\* slept), or the process was taken to wait that had been released already.
PauseHonoured == Quiescent /\ ~mReleaseHold /\ ~outrun => native = "hold"

\* A hold is answered: the process runs again, or the management thread knows
\* that it waits.
HoldAnswered == native = "hold" ~> (native = "run" \/ mWaitingForRelease)

\* A VPN that from some time on may run, and is not the victim of that race,
\* runs again and again, however often the process restarts itself.
ReleaseLeadsToRun == <>[](mReleaseHold /\ ~raced) => []<>(native = "run")
================================================================================
