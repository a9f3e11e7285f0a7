-------------------------------- MODULE PacketId -------------------------------
(***************************************************************************)
(* Replay protection of the tunnel (packet_id.c as openvpn_encrypt() and   *)
(* openvpn_decrypt() use it): a sender numbers packets, the network loses, *)
(* repeats and reorders them, and the receiver takes each at most once.    *)
(*                                                                         *)
(* With a window (UDP) the receiver keeps, newest first, when each of the  *)
(* last identifiers arrived; without one (TCP) it wants the next.          *)
(***************************************************************************)
EXTENDS Integers, Sequences

CONSTANTS
    Backtracks,      \* seq_backtrack of packet_id_init(); 0 is TCP mode
    TimeBacktrack,   \* time_backtrack, in seconds
    ReapInterval,    \* SEQ_REAP_INTERVAL
    MaxId,           \* the largest packet_id_type, 2^32 - 1 in the code
    LongForms,       \* CO_PACKET_ID_LONG_FORM: FALSE in TLS mode's data channel
    MaxNow           \* bound: the clock

ASSUME WindowAssumption ==
    /\ Backtracks \subseteq Nat /\ TimeBacktrack \in Nat
    /\ ReapInterval \in Nat \ {0}
ASSUME IdAssumption == MaxId \in Nat \ {0} /\ LongForms \subseteq BOOLEAN
ASSUME ClockAssumption == MaxNow \in Nat

VARIABLES
    now,
    longForm, backtrack,            \* fixed by packet_id_init() and the key's options
    sendTime, sendId,               \* struct packet_id_send
    recTime, recId, seqList, lastReap,   \* struct packet_id_rec
    sent,                           \* identifiers in packets the sender made
    arrived                         \* history: when each accepted identifier came

configVars == <<longForm, backtrack>>
sendVars == <<sendTime, sendId>>
recVars == <<recTime, recId, seqList, lastReap>>
packetVars == <<now, configVars, sendVars, recVars, sent, arrived>>

SEQ_UNSEEN == 0
SEQ_EXPIRED == 1
Pin == [time : Nat, id : Nat]      \* struct packet_id_net
accepted == DOMAIN arrived

\* Types of both ends' counters, the window and the identifiers about.
PacketTypeOK ==
    /\ now \in Nat /\ now > SEQ_EXPIRED
    /\ longForm \in BOOLEAN /\ backtrack \in Nat
    /\ sendTime \in Nat /\ sendId \in Nat
    /\ recTime \in Nat /\ recId \in Nat /\ lastReap \in Nat
    /\ seqList \in Seq(Nat) /\ Len(seqList) <= backtrack
    /\ sent \subseteq Pin
    /\ accepted \subseteq sent
    /\ arrived \in [accepted -> Nat]

PacketInit ==
    /\ now = 2
    /\ longForm \in LongForms /\ backtrack \in Backtracks
    /\ sendTime = 0 /\ sendId = 0
    /\ recTime = 0 /\ recId = 0 /\ seqList = <<>> /\ lastReap = 0
    /\ sent = {}
    /\ arrived = [p \in {} |-> now]

--------------------------------------------------------------------------------
Tick ==
    /\ now < MaxNow
    /\ now' = now + 1
    /\ UNCHANGED <<configVars, sendVars, recVars, sent, arrived>>

\* packet_id_alloc_outgoing(), its id incremented modulo 2^32.  The short form has
\* no time and must not wrap.  2^32 packets take longer than a second.
StampTime == IF sendTime = 0 THEN now ELSE sendTime
Stamp(time) == IF longForm THEN time ELSE 0

SendNext ==
    /\ sendId < MaxId
    /\ sendTime' = StampTime
    /\ sendId' = sendId + 1
    /\ sent' = sent \cup {[time |-> Stamp(StampTime), id |-> sendId + 1]}
    /\ UNCHANGED <<now, configVars, recVars, arrived>>

SendWrappedSameTime ==
    /\ sendId = MaxId /\ longForm /\ now > sendTime
    /\ sendId' = 1
    /\ sent' = sent \cup {[time |-> sendTime, id |-> 1]}
    /\ UNCHANGED <<now, configVars, sendTime, recVars, arrived>>

SendWrapped ==
    /\ sendId = MaxId /\ longForm /\ now > sendTime
    /\ sendTime' = now
    /\ sendId' = 1
    /\ sent' = sent \cup {[time |-> now, id |-> 1]}
    /\ UNCHANGED <<now, configVars, recVars, arrived>>

--------------------------------------------------------------------------------
(* The receiver.                                                           *)

Lower(m, n) == IF m < n THEN m ELSE n

\* packet_id_reap(): everything older than an identifier that arrived too long
\* ago has expired too.  An expired one ends the scan.
TooOldItself(list, i) == list[i] # SEQ_UNSEEN /\ list[i] + TimeBacktrack < now
TooOld(list, i) ==
    \E j \in 1 .. i : /\ list[j] # SEQ_UNSEEN /\ list[j] + TimeBacktrack < now
                      /\ \A k \in 1 .. j : list[k] # SEQ_EXPIRED
Reaped(list) == [i \in 1 .. Len(list) |-> IF TooOld(list, i) THEN SEQ_EXPIRED ELSE list[i]]

\* packet_id_reap_test(), before every test.
MustReap == lastReap + ReapInterval <= now
ReapTested == IF MustReap /\ TimeBacktrack > 0 /\ backtrack > 0 THEN Reaped(seqList) ELSE seqList

\* packet_id_test()
Newer(pin) == pin.time = recTime /\ pin.id > recId
InShorterWindow(list, pin) ==
    /\ pin.time = recTime /\ pin.id <= recId
    /\ recId - pin.id + 1 < Len(list)
    /\ list[recId - pin.id + 1] = SEQ_UNSEEN
InWindow(list, pin) ==
    /\ pin.time = recTime /\ pin.id <= recId
    /\ recId - pin.id < Len(list)
    /\ list[recId - pin.id + 1] = SEQ_UNSEEN
TestWindow(list, pin) == pin.time > recTime \/ Newer(pin) \/ InWindow(list, pin)
TestNext(pin) ==
    \/ pin.time = recTime /\ (recId = 0 \/ pin.id = recId + 1)
    \/ pin.time > recTime /\ pin.id = 1
PacketIdTest(list, pin) ==
    /\ pin.id # 0
    /\ IF backtrack > 0 THEN TestWindow(list, pin) ELSE TestNext(pin)

\* packet_id_add(): a later time, or a jump beyond the window, starts the window
\* over; then room is made up to the new id, and its arrival noted.
StartsOver(list, pin) ==
    \/ list = <<>>
    \/ pin.time > recTime
    \/ pin.id >= backtrack /\ pin.id - backtrack > recId
PushedPastCapacity(list, n) ==
    [i \in 1 .. Len(list) + n |-> IF i <= n THEN SEQ_UNSEEN ELSE list[i - n]]
Pushed(list, n) ==
    [i \in 1 .. Lower(backtrack, Len(list) + n) |->
        IF i <= n THEN SEQ_UNSEEN ELSE list[i - n]]
NotedBeside(list, id, pin) ==
    [i \in 1 .. Len(list) |-> IF i = id - pin.id + 2 THEN now ELSE list[i]]
Noted(list, id, pin) ==
    [i \in 1 .. Len(list) |-> IF i = id - pin.id + 1 THEN now ELSE list[i]]
Add(list, pin) ==
    LET over == StartsOver(list, pin)
        base == IF ~over THEN recId
                ELSE IF pin.id > backtrack THEN pin.id - backtrack ELSE 0
        kept == IF over THEN <<>> ELSE list
        top == IF base < pin.id THEN pin.id ELSE base
    IN  /\ recTime' = IF over THEN pin.time ELSE recTime
        /\ recId' = top
        /\ seqList' = Noted(Pushed(kept, top - base), top, pin)

AddNext(pin) ==
    /\ recTime' = pin.time
    /\ recId' = pin.id
    /\ UNCHANGED seqList

\* openvpn_decrypt(), after the packet was authenticated: any packet sent, at any
\* time and any number of times.
NoteReap == lastReap' = IF MustReap THEN now ELSE lastReap

Accept(pin) ==
    /\ PacketIdTest(ReapTested, pin)
    /\ IF backtrack > 0 THEN Add(ReapTested, pin) ELSE AddNext(pin)
    /\ NoteReap
    /\ arrived' = [p \in accepted \cup {pin} |-> IF p = pin THEN now ELSE arrived[p]]
    /\ UNCHANGED <<now, configVars, sendVars, sent>>

Refuse(pin) ==
    /\ ~PacketIdTest(ReapTested, pin)
    /\ seqList' = ReapTested
    /\ NoteReap
    /\ UNCHANGED <<now, configVars, sendVars, recTime, recId, sent, arrived>>

PacketNext ==
    \/ Tick \/ SendNext \/ SendWrapped
    \/ \E pin \in sent : Accept(pin) \/ Refuse(pin)

PacketSpec == PacketInit /\ [][PacketNext]_packetVars

--------------------------------------------------------------------------------
(* What holds.                                                             *)

\* No packet is taken twice: whatever order, loss and delay, an identifier that
\* was accepted is refused ever after.
NoReplay == \A pin \in accepted : ~PacketIdTest(seqList, pin)

\* The sender never uses an identifier again.
NoReuse == [][(SendNext \/ SendWrapped) => sent' # sent]_packetVars

ExpiredBy(pin, age) ==
    \E p \in accepted : p.time = pin.time /\ p.id >= pin.id /\ arrived[p] + age < now

\* What becomes of a late packet (packet_id_test and packet_id_reap).  One that is
\* not further behind than the window and was not seen is accepted, unless a later
\* one arrived more than TimeBacktrack seconds ago.  Then it is refused only when
\* the window was reaped since: for certain ReapInterval seconds after the last
\* second in which it was in time, where the manual (openvpn.8, --replay-window,
\* item c) has it refused at once.
LateIsAccepted ==
    \A pin \in sent \ accepted :
        pin.time = recTime /\ recId - pin.id < backtrack =>
            \/ PacketIdTest(ReapTested, pin)
            \/ TimeBacktrack > 0 /\ ExpiredBy(pin, TimeBacktrack)
TooLateIsRefused ==
    TimeBacktrack > 0 =>
        \A pin \in sent :
            pin.time = recTime /\ ExpiredBy(pin, TimeBacktrack + ReapInterval - 1) =>
                ~PacketIdTest(ReapTested, pin)
WindowUpToReaping == backtrack > 0 => LateIsAccepted /\ TooLateIsRefused
================================================================================
