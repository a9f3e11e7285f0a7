# 6in4-Android: a verification project

6in4-Android is a VPN client for Android, a fork of *OpenVPN for Android*
(ics-openvpn).  A Java application keeps the VPN service of the platform and
drives a native OpenVPN process, built from patched C sources, over a Unix
socket with OpenVPN's management protocol.  This directory holds TLA+ models
of the parts of it where several threads and processes have to agree, the TLC
configurations that check them, and theorems about them checked by TLAPS.

Paths below are relative to the repository, with these abbreviations:
`core/` is `main/src/main/java/de/blinkt/openvpn/core/`, `api/` the directory
beside it, `app/` is `main/src/main/java/cn/edu/bupt/niclab/`, and
`native/` is `main/openvpn/src/openvpn/`.  (`PROJECT.json` puts `src/` before
them.)

## The system

| Component | State it keeps | Operations | Talks to |
|---|---|---|---|
| Device state receiver, `core/DeviceStateReceiver.java` | three `connectState` fields (network, screen, user), type of the last network, a window of traffic samples | broadcasts (connectivity, screen), `userPause()`, `updateByteCount()` | calls the management interface; preferences |
| Management thread, `core/OpenVpnManagementThread.java` | `mReleaseHold`, `mWaitingForRelease`, `lastPauseReason`, socket, list of active threads | reads notifications; `pause()`, `resume()`, `reconnect()`, `networkChange()`, `stopVPN()` from other threads | socket to the native process; the service |
| VPN service, `core/OpenVPNService.java` | process thread, receiver, management object, collected tun configuration, last configuration | `onStartCommand()`, `processDied()`, `onRevoke()`, `onDestroy()`, `openTun()`, `getTunReopenStatus()` | Android's `VpnService.Builder`, everything above |
| Process thread, `core/OpenVPNThread.java` | the process | start, read its output, report its death | the service, status |
| Route calculation, `core/NetworkSpace.java`, `core/CIDRIP.java` | set of configured networks | `addIP()`, `clear()`, `generateIPList()`, `getPositiveIPList()` | called by the service |
| Status, `core/VpnStatus.java` | last state, log ring, byte counters, listeners | `updateStateString()`, `updateByteCount()`, logging | listeners in every component |
| Profiles, `core/ProfileManager.java`, `app/VpnProfile.java` | map of profiles, file per profile, list and last connected profile in preferences | save, load, remove, get | service, boot receiver, activities |
| Launch and disconnect, `app/LaunchVPN.java`, `app/activities/DisconnectVPN.java` | the chosen profile, what is still to ask | permission and password dialogs, start, stop | service |
| External API, `api/` | allowed applications, callbacks, most recent state | `startProfile()`, `pause()`, `resume()`, `disconnect()`, callbacks | binder threads into the service |
| Accounts, uploads, views, `app/account`, `app/services`, `app/fragments`, ... | current account; display state | login, upload of device information, dialogs | a web server; display |
| Native management, `native/manage.c` | hold and query state of the management connection | `management_hold()`, `man_signal()`, `management_query_user_pass()` | the socket |
| Native tun, `native/tun.c`, `init.c`, `route.c` | the tun descriptor, pushed options | `open_tun()`, `do_open_tun()`, `do_close_tun()` | queries over the socket |
| Native control channel and data path, `native/reliable.c`, `packet_id.c`, `fragment.c`, `ssl.c`, `forward.c` | send and receive windows, replay window, reassembly, key states | per packet and per timer | the server |
| Native server mode, `native/multi.c`, `pool.c`, `schedule.c` | - | never run by the app | - |

OpenSSL, LZO, snappy, the share SDK and the prebuilt libraries are third-party
code and left aside.

### What is hard about it

* **Threads without locks.**  The fields of the management thread and of the
  receiver are written by the main thread (broadcasts, notification buttons),
  by binder threads (API clients) and by the thread that reads the management
  socket (byte counts, notifications), none of them under a lock.  Some
  handlers sleep for seconds between a test and what they do about it.
* **Two sides of a socket.**  The process may restart, hold, or die while
  commands and answers are on their way; a signal it gets while it waits for
  an answer changes what it does with that answer.
* **State that outlives what it describes.**  The service's collected tun
  configuration, the list of active threads, the last connected profile and
  the last configuration survive connections, processes and restarts.
* **Crashes.**  Android kills the application at any time and restarts the
  service; profiles, preferences and accounts are written in several steps.
* **An algorithm with corner cases.**  Included and excluded networks may be
  nested and adjacent, and the platform wants disjoint included ones.
* **Lossy transport.**  The control channel builds reliable delivery, the data
  channel replay protection and reassembly, on UDP.

### What makes each component correct

* Receiver and management thread: a VPN the user paused stays paused; a VPN
  that is wanted is not kept in hold; the reason shown is the true one; a
  process in hold is never forgotten, and once released it runs.
* Route calculation: an address goes through the VPN exactly if the most
  specific network configured for it is included; the result is disjoint; the
  calculation ends and its assertions hold.
* Tun configuration: a connection that is up has exactly one device, the one
  the service remembers, with what was requested and nothing else; the two
  sides never wait for each other for good.
* Service lifecycle: a stop reaches the process that runs; an old process's
  death never stops the new VPN; when a VPN has ended nothing is left of it;
  a user who disconnected is not connected again by a restart.
* Status: listeners see states in order, and the last one is the real one.
* Profiles: whatever crash, a listed profile can be loaded or is dropped
  without harming others, and what a restart connects is what was connected.
* Control channel: delivered in order, once, and no window deadlocks.
  Replay protection: no packet is accepted twice.  Fragmentation: a datagram
  is made of its own fragments.

The same list, with every source file, is in `PROJECT.json` under
"components"; what can go wrong, at its line, under "hazards".

## The modules

```
DeviceState ──EXTENDS──> PauseControl          (what pausing promises)
     └───────EXTENDS──> HoldProtocol ──INSTANCE, refines──> PauseControl
NetworkSpace                                    (route calculation)
TunConfig                                       (opening the tun device)
ServiceLifecycle                                (starting and stopping VPNs)
ProfileStore                                    (profiles in memory and on disk)
OrderedDelivery                                 (what the control channel promises)
Reliable ──INSTANCE, refines──> OrderedDelivery
PacketId                                        (replay protection)

<module>_proofs: DeviceState, PauseControl, HoldProtocol, TunConfig,
                 ServiceLifecycle, Reliable, PacketId, ProfileStore
```

### DeviceState: the receiver's handlers

One action per handler of `DeviceStateReceiver`: `NetworkConnected`,
`NetworkLost` (the two halves of `networkStateChange()`), `ScreenOff`,
`ScreenOn` (`onReceive()`), `UserPause`, `UserResume` (`userPause()`) and
`ScreenOffPause` (`updateByteCount()` once it has decided).  A handler assigns
the receiver's fields and leaves the management call it makes in `call[t]`,
where `t` is the thread it runs in: the call is carried out later, so other
threads may come between.  `display` is the device's screen itself, which the
receiver only knows through its broadcasts.  The traffic window is abstracted
to a choice: the traffic is low, or it is not.  `crossed` is a history variable:
when the user paused, another thread had already decided to release the process.

### PauseControl: what pausing promises

The receiver with the two fields its calls are about, `mReleaseHold` and
`lastPauseReason`, and one step per call that touches them; `reconnect()` and
`resume()` take two, as their two assignments are visible to other threads.
`counting` is the moment in `updateByteCount()` between the test of line 57
and the pause of line 72.  `UserPauseHolds` is what it promises: a VPN the user
paused is not released, unless by a call that `crossed` the pause.  It is proved
here, and checked and proved of HoldProtocol, which implements PauseControl.

### HoldProtocol: the hold, step by step

Every read and write of `mReleaseHold` and `mWaitingForRelease` by a thread
that another thread may interfere with is a step of its own, `pc[t]` tells
which is next: `signalusr1()` and `networkChange()` test `mWaitingForRelease`
and send (`SendUnlessWaiting`); `releaseHold()` sets, tests and calls
`releaseHoldCmd()`, which sleeps 3 s, clears the flag and sends;
`handleHold()` tests `mReleaseHold` and either releases or sets
`mWaitingForRelease`.  `toNative` and `toJava` are the two directions of the
socket.  The process is in `management_hold()` or runs; one `man_read()`
handles as many commands as it finds (`NativeRead`), a
SIGUSR1 in hold is answered with the notification again, and a restart clears
a release that came with the signal and announces the next hold.  The process
restarts by itself at any time (`NativeRestart`).  Whether "network-change"
restarts it depends on the server, so it may or may not.

Threads overlap as they like.  Two history variables name the races that the
missing lock admits, so that the properties can say that nothing else goes wrong:
`raced` (since the last notification was taken up, a `releaseHold()` looked at
`mWaitingForRelease` while `handleHold()` was between its test and its assignment)
and `outrun` (since the last `releaseHold()`, a release was sent though a pause had
come, because `releaseHoldCmd()` slept, or `handleHold()` set `mWaitingForRelease`
of a process whose release was under way).

The model begins when the process has connected and announced its first hold.
That a handler's reads and assignments of the receiver's own fields are one
step is an abstraction.  `network` and `lastNetwork` have the main thread as
only writer; the race on `screen` between the main and the management thread
is in the model (`counting`), and that on `userpause` between the main and a
binder thread shows in the order of the calls that follow it.

### NetworkSpace: the route calculation

`generateIPList()` is a machine with one step per pass through its while
loop, one action for each branch (`PlaceCurrent`, `ForgetCurrent`,
`SplitNext`, `ForgetNext`, `SplitCurrent`, `PlaceLast`).  The PriorityQueue is
a bag, because it may hold the same network twice with different types, and
ties are broken any way.  The TreeSets ignore the type of a network, as
`compareTo()` does.  `getPositiveIPList()` is `PositiveIPs`, with the branch
for old Android versions.  The reference is `Routed`: longest-prefix matching
over the configured networks.

### TunConfig: opening the tun device

The process has the service open its device: queries for the address, routes,
DNS servers and domain in the order of `do_open_tun()` and `open_tun()`, then
`PERSIST_TUN_ACTION`, then `OPENTUN`, each waited for in
`management_query_user_pass()`.  `collected` is what the service's fields hold,
`mLastTunCfg` the last configuration, `fd` and `open` the device in use and
the devices held open.  A device is the configuration it was established with
and a number telling two open ones apart.  SIGUSR1 arrives at any time; the
process exits at any time; the service is restarted or goes on with the next
process.  The interface's address, mask and MTU are one value; IPv6 pieces,
which are handled the same way, and the remote gateway, which no property
distinguishes, are left out.  At most one server is pushed per connection.
An opening is refused by `establish()` or, without an address or with one that
the Builder does not take, by `openTun()` before it; both return null, and the
second leaves what was collected as it is.

A read that brings an answer and a SIGUSR1 together drops the answer.  The
model reads them one by one, and the states that follow are the same: either
the query is given up, or the process ends.

### ServiceLifecycle: starting and stopping VPNs

A session is a start of the service that passed its checks; it has a
management thread, a process thread and a native process.  `pc` is the main
thread's place in `onStartCommand()`: stop the old VPN and sleep (`Begin`,
`Sleep1`), take `mProcessLock`, interrupt the old process thread and sleep in
the lock (`Lock`, `Sleep2`), clear `mStarting`, open the socket and start the
management thread (`Bind`, `Listen`, `ListenFails`), start the process thread,
register the receiver, record LAST_CONNECTED_PROFILE (`Record`).
That profile is `lastConnected` in the memory of the app, which `apply()` changes
at once (`Apply`), and one of `inFile` in the preference file, which is written at
some later time: a kill leaves any of the values since the file was read last, and
`lost` is the history of a kill that undid a forgetting (ProfileManager lines 74 and
83).  `endVpnService()` runs in each process thread and in the binder thread of
`onRevoke()`; its steps are `EndThread`, `EndReceiver`, `EndRecord` and
`EndService`, the first under the lock.  Processes find a management thread by
the path of its socket: `Connect` puts a process in the backlog of the one that
listens there, `Accept` takes one and closes the server socket, so that other
processes in its backlog are refused and exit.  The static list `active` is
what `stopVPN()` goes through; `told` are the processes that got the SIGINT or
lost their socket.  The user's disconnect, the API's stop, `onRevoke()`,
`onDestroy()` and a kill of the whole app are actions.  `instance` counts
service objects, as threads of a destroyed one live on.

Left out: notifications (`mNotificationAlwaysVisible` is false), the second
attempt of a process without PIE (part of "starting"), the OpenVPN 3 branch,
the calls of VpnStatus.  A kill comes when no start is queued.  `accept()`, the assignment of `mSocket`
and the closing of the server socket are one step.  External: a process whose
connect fails or whose socket is closed exits (`native/manage.c` 1688, 1732
turn both into SIGTERM), and binding a path unlinks the old socket.

### Reliable and OrderedDelivery: the control channel

Two ends, each with the send buffer, the receive buffer and the list of
identifiers to acknowledge of `native/reliable.c`, driven as
`tls_process()` and `tls_pre_decrypt()` drive them: `HandOver` (a ciphertext
block gets an identifier and an entry), `FallsDue` (the retry time, left open),
`SendControl` with the acknowledgements that fit, `SendAck`, `Receive`
(`reliable_send_purge()`, then the test of buffer space, sequentiality and
replay, then acknowledgement and entry) and `TakeOut`.  The network loses,
duplicates and reorders.  A message is its number; the code's tests see only
`IdOf`, the number modulo the size of `packet_id_type`, and `InRange1`,
`InRange2` are its comparisons in unsigned arithmetic.  `OrderedDelivery` is
the abstract specification: per end a number of messages handed over and the
sequence taken.  Left out: session identifiers, the hard reset and its state
machine, authentication of control packets.

### PacketId: replay protection

The sender's counter (`packet_id_alloc_outgoing()`: time and number, the
number wrapping) and the receiver's window: `packet_id_reap_test()`,
`packet_id_test()` and `packet_id_add()` in the order `openvpn_decrypt()`
calls them, with the circular list written as a sequence, newest first, that a
push may make shorter than `seq_backtrack`.  Both modes are there, the window
of UDP and the strict successor of TCP, and both forms of identifier.  A
packet is refused for authentication outside the model, so what arrives was
sent.  That 2^32 packets take longer than a second is assumed where the
sender's number wraps.

### ProfileStore: profiles in memory and on disk

The callers' use of `core/ProfileManager.java`: each kind of call is a
sequence of steps (`Steps`), each of which changes one of the map, the file or
the list: an import adds, writes the file and saves the list; a new profile is
listed before its file is written; `removeProfile()` forgets, saves the list
and deletes.  `Open` and `Write` are the two halves of `saveProfile()`, which
truncates the file in place.  `listed` is the list as the process sees it,
`disk` as it is stored; `Commit` is the write that `apply()` left pending.
The first call of a process makes the instance and loads (`Create`,
`BeginLoad`, `Load`); a torn file ends its loading as the code's exception
handler does.  `Kill` may come between any two steps.  `LoadsOverlap` is
whether `get()`, which is not synchronized, may meet the load of another
thread.

Left out: what is in a profile, the temporary profile, data races on the
HashMap itself.  External: the preferences file is replaced atomically,
`putStringSet()` keeps a copy, UUIDs are new.

## What each run checks

| Run | Module | Instance | What it shows |
|---|---|---|---|
| HoldRaces | HoldProtocol | main, binder and management thread overlap, any batch per read, screen-off pause, preference edited, any request | wakeups, pauses and the user's pause are lost by the named races only |
| HoldOverlap | HoldProtocol | main and management thread overlap, any batch per read, three messages | no hold forgotten, every hold answered, a released VPN runs again and again; PauseControl is implemented; a wanted VPN is released, the reason is true |
| NetworkSpace | NetworkSpace | 3 bits, 2 + 2 networks | right routes for layered configurations, disjoint always, ends always |
| TunConfig | TunConfig | one value each, device kept or replaced, same or new service | exactly one device, the remembered one, nothing missing; opening ends |
| ServiceLifecycle | ServiceLifecycle | two sessions, one stop, one kill, sleeps of any effect | a stop reaches every connected process; a management thread serves one; the service knows what it runs; nothing is left in the end; no restart against a disconnect that was stored; a stop ends |
| Reliable | Reliable | both directions, from id 0 and across the wrap, one fault | OrderedDelivery is implemented; acknowledged is received; a full buffer is not stuck; ids tell messages apart |
| ReliableArrives | Reliable | three messages one way, two faults | everything arrives and is acknowledged |
| PacketId | PacketId | windows of 0, 1, 2, both forms, wrap after 3, a reap every other second | nothing accepted twice; a late packet is accepted while it is in time and refused from one reap interval later; no identifier reused |
| ProfileStore | ProfileStore | two profiles of the user, one of the API, two threads | a stored profile is kept until its own rewrite or removal; what is shown is saved |
| HoldLostWakeup | HoldProtocol | threads overlap | **violated**: release lost, VPN never connects |
| TunStale | TunConfig | as TunConfig | **violated**: pieces of the last connection in the next device |
| OldVPNExited | ServiceLifecycle | two sessions, no stop, sleeps long enough | **violated**: the old process is not told to exit and runs on beside the new one |

The violated runs are disagreements between the code and what its
documentation, comments or interface say.  `PROJECT.json` quotes both under
"findings".  The passing runs state what holds in spite of them: HoldRaces
shows that signals are lost by the races it names and in no other way, HoldOverlap
what holds whatever is lost, `NothingMissing` that stale pieces are only ever
too many, `RoutesRight` which configurations the calculation is right about,
and ServiceLifecycle what remains true with two processes about: the stop that
follows a start reaches whichever of them is connected, and `RunningIsKnown`
says what the service knows when no end of a session overlapped a later start
and no stop missed a process (`Undisturbed`).

### Bounds, and why they are enough

* Two network types: a switch needs two, and handlers only compare the new
  type with the last.
* `MaxQueue` messages in transit when a new event starts; messages that
  handlers then send are not bounded.  The races need a notification, a signal
  and a release at once, which one event of each thread makes: HoldRaces has
  everything switched on and `MaxQueue = 1` (3 315 000 states, a minute), and
  each of its exceptions is needed: with `raced`, `crossed` or any one of the
  places that set `outrun` left out TLC finds the property violated.  HoldOverlap
  has `MaxQueue = 3` for longer queues, and liveness (90 000 states).
* NetworkSpace: 3 bits give networks of 4 lengths and so nesting of depth 4,
  more than 2 + 2 networks can use.  Three included and one excluded network,
  or the reverse, were covered by an enumeration outside TLC, with the same
  condition `Layered`.
* TunConfig: what is collected is compared and copied, never calculated with,
  so one value and its absence tell configurations apart.  `MaxDns = 2` lets
  a server of an earlier connection stay beside the new one, `MaxSignals = 1`
  puts a signal between any two messages.  With `OPEN_BEFORE_CLOSE` instead of
  `OPEN_AFTER_CLOSE` the run passes too (272 000 states); with it two devices
  are open at the same time.
* ServiceLifecycle: 758 000 states in three minutes.  Two sessions are one old
  and one new VPN, which every property is about; the second start may come
  anywhere in the first's life, from the same or a new service object.  One
  disconnect or revocation and one kill come anywhere too.
* Reliable: 631 000 states.  `Modulus` 8 with windows of 2 keeps the window
  below half the identifiers, as 2^32 does; three messages one way overrun the
  window, the one that goes back carries acknowledgements; `FirstIds` 7 wraps
  after the first.  Liveness has an instance of its own (66 000 states).
* PacketId: 1 040 000 states.  `MaxId` 3 is one more than the largest window,
  so identifiers fall out of it, jump past it and wrap; with a time window of one
  second and a reap interval of two, a packet is accepted that is too late, and
  three seconds after the first one are enough for one to be refused for certain.
* ProfileStore: 1 190 000 states.  One profile is loaded or saved while the
  other is made, rewritten or removed; the third is one the API added.

### Fairness

* HoldProtocol: a thread that has something to do goes on and a sleep ends
  (Java threads are scheduled; WF on `Step(t)`), the process reads its socket
  in its event loop (WF on `NativeRead`), and the management thread, which
  reads in order, comes to every notification.  The last is strong fairness
  on `HandleHold`: byte counts can be handled between, but the stream is read
  to its end, so a notification cannot be passed over for good.
* NetworkSpace: one thread in a loop (WF on the steps of the loop).
* TunConfig: the management thread answers what it reads (WF on
  `ServiceStep`), the process goes on and reads (WF on `NativeStep`).
  Nothing makes the server push, a process restart, or a user act.
* ServiceLifecycle: the main thread goes on and its sleeps end, process
  threads finish `endVpnService()` (WF on `MainStep` and `End(t)`), and a
  process that was told to exit does (WF on `Exit(s)` for those in `told`).
  Nothing makes a process connect, and nobody has to stop or start.
* Reliable: each end's event loop runs (WF on handing over, taking out and
  retry times, SF on sending, which waits for room in the network), and a
  message that is in flight again and again is delivered (WF on `Carries`);
  faults are bounded, as otherwise nothing need ever arrive.

## The proofs

| Theorem | States |
|---|---|
| `PauseTypeCorrect` | types of PauseControl |
| `UserPauseKept` | `UserPauseHolds` |
| `ReasonIsTrue` | with requests that toggle in the main thread and no screen-off preference, `ReasonIsTruthful` |
| `WantedIsReleased` | with a fixed reconnect preference as well, `NoNeedlessPause` |
| `HoldTypeCorrect` | types of HoldProtocol |
| `HoldNeverForgotten` | `HoldTracked` |
| `HoldImplementsPromise` | HoldProtocol implements PauseControl |
| `HoldKeepsUserPause` | `UserPauseHolds` of HoldProtocol |
| `HoldTellsTheReason`, `HoldReleasesTheWanted` | as the two above, `ReasonIsTruthful` and `NoNeedlessPause` of HoldProtocol |
| `WakeupLostByRaceOnly` | `LostOnlyByRace` |
| `PauseLostByRacesOnly` | `PauseHonoured` |
| `TunTypeCorrect` | types of TunConfig |
| `OneDevice` | `OneTun` |
| `LastDeviceKnown` | `LastIsInUse` |
| `ClosedBeforeOpened` | `ClosedFirst` |
| `NothingIsMissing` | `NothingMissing` |
| `LifecycleTypesOK` | types of ServiceLifecycle |
| `StopReachesAll` | `ManagedStoppable` |
| `OneClientOnly` | `OneClient` |
| `RestartIsWanted` | `NoUnwantedRestart` |
| `RunningSessionIsKnown` | `RunningIsKnown` |
| `QuietLeavesNothing` | `QuietIsClean` |
| `ReliableTypes` | types of Reliable |
| `DeliveredInOrder` | Reliable implements OrderedDelivery |
| `AcknowledgedIsThere` | `AckedIsReceived` |
| `WindowHolds` | `Window` |
| `FullReceiveIsNotStuck` | `FullIsNotStuck` |
| `PacketTypes` | types of PacketId |
| `NeverTwice` | `NoReplay` |
| `NeverReused` | `NoReuse` |
| `LateWithinReap` | `WindowUpToReaping` |
| `NeverOverlap` | `Disjoint` |
| `AssertionsHold` | `LayeredAssertsHold` |
| `RoutesAreRight` | `RoutesRight` |
| `StoreTypes` | types of ProfileStore |
| `ShownAreSaved` | `ShownIsSaved` |
| `StoredAreKept` | `StoredIsKept` |

They hold for every width of address, every set of networks, addresses, servers,
domains, profiles and threads, every number of sessions, size of window, buffer and identifier,
every setting of the preferences and switches, and every bound.  The
assumptions are those on the constants: networks exist, `NoNetwork` is none of
them, requests arrive in the main thread or a binder thread; what is pushed as
routes is finite, and `None` is neither a domain nor a device; the number of
packet ids is even (it is 2^32, halved in comparisons) and an end hands over at
most half as many messages as there are ids; the send buffer is no larger than
the receive buffer (4 and 8 in `ssl.h` 89-90); profiles of the activities and of
the API differ.  Some
theorems have hypotheses on the switches, which the runs' own configurations
satisfy and other configurations violate (see "Disagreements"):

* `ReasonIsTrue` and `HoldTellsTheReason` have `Requesters \subseteq {"main"}`;
  `~ScreenOffPref`, since a screen-off pause may hide the user's; and `~AnyRequest`,
  since a second resume pauses.  `WantedIsReleased` and `HoldReleasesTheWanted` add
  `~PrefMayChange`: a VPN that was paused when the preference was switched off stays
  so.
* The theorems about ProfileStore have `~LoadsOverlap`.

`UserPauseHolds` speaks of idle states only, so it is not inductive.
`PauseLasts` adds what is under way: while the user's pause lasts and was not
crossed, no thread has a release left to carry out, and as long as the hold is
released some thread has the pause still before it.  Each handler is a case of its
own (`EventPaused`, `PerformPaused`).

`HoldTracked` is inductive with the types: each way to enter the hold leaves a
notification, each reader of the notification ends in waiting or releasing,
and whoever clears `mWaitingForRelease` has a release to send
(`StepTracked`, `ReleaseNotLost`).

The refinement maps `counting` to `pc["mgmt"] = "count"` and every other
variable to itself.  Each call of a thread is one step of PauseControl, every
other step of the protocol a stutter (`SameHandlers`, `StepRefines`).
`HoldKeepsUserPause`, `HoldTellsTheReason` and `HoldReleasesTheWanted` follow
from it and from PauseControl's theorems, carried along the same mapping.

`ReasonIsTruthful` and `NoNeedlessPause` too speak of idle states.  With only the
main thread calling (`AllInMain`), `ReasonsTrue` says that a pause on its way
carries the true reason and that a reason is only forgotten of a VPN already
released; `ReleasedWhenWanted` that a wanted VPN is released or a call that
releases it is under way.

For `LostOnlyByRace`, `WakeupComes` says that a process that waits in hold although
it may run is about to be released, or the race was lost: its notification is still to
be handled, a thread has still to look or has looked and sleeps, or the release is on
its way.  A thread that looked too early is the race, and `raced` from then on until
the next notification (`StepWakes`).  For `PauseHonoured`, `PauseFollowed` says what
holds until the code's own exceptions set `outrun`: once the notifications are handled
(`Unsettled`), a process known to wait, or one that may not run, ends in hold
(`EndsInHold`: it is there with no release on the way, or a SIGUSR1 is in the socket
with no release behind it), or a thread is on its way to signal or to release it.  A
read of several commands keeps that, because a release in front of a SIGUSR1 in one
read does not outlive the restart (`ReadEndsInHold`), and where it does the process
answered with a notification (`SignalAnswered`).

In TunConfig the properties speak of an established connection, while what
makes them true is the dialogue before it.  `TunInv` says that the query being
asked and the messages agree: `OPENTUN` is never behind another query
(`TodoOK`), it is the last one in the socket until it is answered (`QueryOK`),
its one answer is awaited and carries a device with the last configuration
(`AnswerOK`); stale queries and answers, which a pending signal leaves behind,
are about other pieces.  Hence the service changes `mLastTunCfg` only while
the process is switching or gone, and otherwise the device is the only one
open and carries `mLastTunCfg` (`DeviceOK`).  `CloseOK` adds what the method
of opening promises.  Every action that answers goes through `ReplyStep`.
`NothingMissing` needs the history of a connection: `PieceInv` says that at most
one query or answer of it is under way (`OneAtATime`), that the address comes
first and the device last (`InOrder`), that every piece is still to be asked or
collected (`GatheredOK`), and that what the service then grants, or keeps, serves
what was pushed (`GrantOK`, `ServedOK`).

In ServiceLifecycle `ManagedStoppable` needs to know where every management
thread is: who is in `active` (`InActive`), that the path names a thread that
listens (`PathOK`), and that a process in a backlog is there because that
thread has not accepted yet (`ConnOK`).  With these (`LinkInv`) each action
either keeps a link, makes one to a thread that reads, or tells the process.
`RunningIsKnown` is about a start against the end of a session before: `KnownInv`
says that, where no end overlapped it and no stop missed a process, none is left when
the new session takes its place, and for each later step of onStartCommand() which
fields name the new session already.  `LeftInv`, for `QuietIsClean`, is the reverse
and needs no such condition: whatever a field names belongs to a session of this
service object whose end has still to pass the step that gives it up.
`RecordedIsWanted` carries `NoUnwantedRestart`: what is recorded in memory is wanted,
and what a kill brings back from the file was in memory already or is `lost`.

In Reliable, `OrderInv` says that whatever is in a buffer or in flight was
handed over, and that what was taken is 0, 1, 2, ...; the step that takes out
the next is right because equal identifiers are equal messages (`IdsDiffer`),
which is where the assumption on the number of messages enters.  `AckInv` adds
that an acknowledgement, in the list, in flight or carried out, is for a
message the other end has.  `WindowInv` bounds both buffers:
nothing an end keeps is `SendBuffers` messages old or older (`SendWindow`), and what
waits to be taken is not behind what was (`RecAhead`).  With `AckInv`, what a
receiver holds is then within `SendBuffers` of the next message; a full buffer
without that one would need more room than `RoomForWindow` leaves.

In PacketId, `PacketInv` says that every accepted identifier is behind the
newest and, as far as the window reaches, remembered in it; a push moves the
window by as much as the newest identifier (`PushedList`), and neither noting
nor reaping forgets (`NotedList`, `ReapedList`).  `SenderInv` says that all
that was sent is behind the sender's counter.  `WindowInv`, for `WindowUpToReaping`,
is the other direction: a mark in the window is the time at which that identifier
arrived, or stands for one at or ahead of it that arrived too long ago (`Filled`);
expired places are behind all others (`ExpiredLast`), so the scan of
packet_id_reap(), which stops at the first, leaves nothing older than the delay at
its last run (`Fresh`).

ProfileStore's `StoreInv` says that one thread at a time makes and loads the
instance (`Linked`), that no two calls work on one profile (`Alone`), how far
each call has come (`InProgress`), that what is stored is in the map, about to
be read or being removed (`Remembered`), that what the activities made is
stored (`Saved`), and that every list that is about to be written contains what
is on the disk (`Older`, `OnDisk`).  The last is what keeps one thread's list
from dropping another thread's profile.

In NetworkSpace, `PlacedInv` says that what is placed lies before the current
network and that before all of the queue (`CurrentFirst`), so that what is placed
next is apart from the rest.  It needs nothing of a configuration, nor that the
networks are blocks; but that a network has an address at all is that
`2 ^ k` is positive, and what the provers know of powers is that `2 ^ k` counts
the subsets of `k` elements (`Powers`).

`RoutesRight` and `LayeredAssertsHold` do need that the networks are blocks, and
that the configuration is layered.  From `PowerStep` it follows that sizes divide
one another (`SizeFactor`), that blocks that meet are nested (`Nested`), and that a
block inside another is in one of its halves (`InHalf`); the induction over the
masks is a least element of a set of numbers (`Smallest`).  `RoutesInv` has three
parts.  `Sound` is about the networks still to be placed: the current one is
first; equal ones have one type; the most specific configured network around each
has its type (`Origin`); and each configured network inside one of the other type
(`Cut`) is still there, with nothing smaller in its place, or behind.  The first
condition of `Layered` is what keeps a cut network from being merged away
(`CutKept`), the second is what keeps a split from putting a half beside an equal
network of the other type (`NoSecondTwin`), after which it would depend on the heap
which of the two the queue returns first.
`PlacedRight` says that for each address of what is placed the most specific
configured network has its type, and `AllCovered` that no configured address is
lost.  Before Android 4.4 the configured networks are added again, and that these
capture nothing excluded is the first condition once more (`NothingIsCaptured`).

The proofs of a component are in `<module>_proofs.tla`.  PauseControl_proofs begins
with the lemmas on the calls and handlers of DeviceState, which HoldProtocol_proofs
cites through an INSTANCE.

### Only model-checked

Liveness (`HoldAnswered`, `ReleaseLeadsToRun`, `Terminates`, `OpeningEnds`,
`StopEnds`, `AllArrive`) is out of the prover's reach.  The three properties
of the runs that expect a violation are false.  That the
theorems need both conditions of `Layered` is seen with TLC: with either dropped,
`RoutesRight` and `LayeredAssertsHold` fail for three included and two excluded
networks of two-bit addresses.

## Disagreements seen that have no run

* With low traffic, `updateByteCount()` (DeviceStateReceiver lines 57-76)
  may decide before and pause after a SCREEN_ON: the VPN stays paused with the
  screen on, against the comment of line 127.
* `userPause(false)` on a VPN that is not paused pauses it, with
  `lastPauseReason` userPause: line 93, against the comment of line 92.
* With "netchangereconnect" off, SCREEN_ON or a resume before the first
  network pauses the VPN, and `networkChange()` (line 190) never resumes it.
* The comment of OpenVPNService line 461 says identical configurations give
  the same string; the remote gateway, which decides the type of its route,
  is not part of it.
* `openTun()` checks for "no IPv4 and no IPv6 address" but line 566 uses
  `mLocalIP` of an IPv6-only configuration; line 712 compares two equal
  literals.
* A user who paused through the API (`api/` `IOpenVPNAPIService.aidl` 36,
  "same as using the pause feature in the notifcation bar") may be resumed by a
  network broadcast that was handled at the same time: without the exception
  `crossed` TLC violates `UserPauseHolds` with `Requesters` {"main", "api"}.
* A change of network type makes a pending screen-off final without a pause
  (DeviceStateReceiver line 180, against the summary of the preference,
  `strings.xml` 299).
* A pause may be followed by a release: `releaseHoldCmd()` sleeps between its
  decision and the release (line 316), so that the VPN the user paused in the
  meantime runs.  So does one whose release the process had got when `handleHold()`
  noted that it waits, as `signalusr1()` then sends nothing.  Both are the exception
  `outrun` of `PauseHonoured`.
* openvpn.8, `--replay-window` item (c) (doc/openvpn.8 4014-4018), says of a packet
  out of order that "it will only be accepted if it arrives no later than t seconds
  after any packet containing a higher sequence number".  The window is reaped
  only every `SEQ_REAP_INTERVAL` seconds (`packet_id.h` 125 and 333), so with whole
  seconds it is accepted up to four seconds later.  With `ExpiredBy(pin,
  TimeBacktrack)` in the second half of `WindowUpToReaping`, which is item (c), TLC
  finds the run PacketId violated.
* A disconnect (DisconnectVPN, or the end of a VPN) is stored with `apply()`
  (ProfileManager line 74).  If Android kills the app before the file is written,
  the restarted service, or the boot receiver, starts the VPN again: without
  `lost` TLC finds `NoUnwantedRestart` violated.  A kill that loses the write of
  line 83 leaves a VPN that was running stopped.
* `onRevoke()` (line 105) calls `mManagement`, which an instance has only after its
  first start: for a VPN of an older service object it would end in a
  NullPointerException.
* `networks.add()` in NetworkSpace line 279 is not guarded: with 0.0.0.0/0
  included and 128.0.0.0/1 and 128.0.0.0/2 excluded the assertion of line 256
  fails (three bits, one included and two excluded networks, `AssertsHold`).
* A SIGUSR1 while the process waits for an answer ends the process
  (`native/manage.c` line 1909), though `android.txt` 74 lets a pause come at
  any time: `fatal # "signal"` with TunStale's configuration.
* Once the identifiers of `reliable.c` have wrapped, a replay of id 2^32 - 1 is
  refused as too far ahead (`reliable_pid_in_range2()`, line 70) and so not
  acknowledged, "even if it's a replay" (`ssl.c` 3195): when its first
  acknowledgement was lost, the sender repeats it for ever.  `AllArrive` therefore
  speaks of sessions that do not wrap.
* `ProfileManager.get()` (line 58) is not synchronized and may find an
  instance that is made but not loaded: with `LoadsOverlap` both properties of
  ProfileStore fail.  `LaunchVPN`'s and the service's calls of it come in the
  main thread, those of the API in binder threads.
* `saveProfile()` truncates the file in place.  `VPNProfileList.startVPN()`
  does so at every start, so a kill there loses the profile; `StoredIsKept`
  allows it.
* `addVPNProfile()` of the API never saves; a profile of its that is edited
  later gets a file but no place in the list.
* `GeneralSettings.doConnect()` (484-494) puts account and server into the
  profile in memory only; a sticky restart or the boot receiver
  (`strings.xml` 222) loads the file, without them.
* A process that is dead before `onStartCommand()` has come to lines 409-415
  leaves the receiver registered and LAST_CONNECTED_PROFILE set (`hasty`); the
  API's disconnect does not clear LAST_CONNECTED_PROFILE either.
* `stopSelf()` without the start's id (`endVpnService()`) also stops a service
  whose next start is on its way.
* DisconnectVPN forgets the profile even if it is not bound to the service and
  so stops nothing.
* `Thread.interrupt()` (line 377) does not end the process thread's blocked
  read, and a new service object has no `mManagement`, so it neither stops the
  old VPN nor waits for it.
* `run()` of the management thread returns at the end of the stream (line 138)
  without removing itself from `active`; `stopVPN()` then reports a VPN that is
  gone, and the start sleeps for nothing.

## Plan

The order so far: paused or not, connected or not, which addresses go where;
then the start and end of a VPN, the two protocols that deliver packets, and
the store of profiles.  Next, in order:

1. **VpnStatus**: states from three threads, the CONNECTED filter (line 458),
   the callbacks of the external service.
2. **Fragment**: the reassembly window against the set of datagrams sent.
3. **KeyStates** on top of Reliable: a delayed or repeated soft reset of the
   current key while a renegotiation is under way (`ssl.c` 2217) frees the
   older key that is still in use.
4. The temporary profile and the boot receiver, as an extension of
   ProfileStore; the account store, one file deleted before it is written.
5. **LaunchFlow**, as far as it can be kept small.

Runs are one per question.

Every safety property the passing runs check is a theorem; what the modules above
add is to be proved with them.

## Not modelled, and why

* Most files of the repository are OpenSSL, LZO and snappy, copied
  in whole; OpenVPN's own sources are vendored too, with the management and tun
  code patched for Android.  What is modelled is the application's own
  control logic and the parts of OpenVPN it depends on, a small share of the
  lines.
* Status, listeners and log: the next module of the plan.
* Fragmentation, TLS key states: in the plan.  `config.h`, which decides
  whether fragmentation is built in, is not part of the repository.
* The event loop, signals and options of the native process: they appear in
  the modules as what they make the process do (restart, hold, exit).
* Password, proxy, state, log and signature notifications of the management
  protocol: request and answer within one handler, no shared state.
* IPv6 pieces of the tun configuration, the details of `Builder` and the
  `protect()` of sockets: same handling as what is modelled, or platform code.
* Configuration parsing, conversion and writing: text processing.
* Login, uploads, views: no protocol of their own.
* Packet encryption, compression, routing tables of the platform: data.
* Server mode of OpenVPN: never run by the app.
