-------------------------------- MODULE Reliable -------------------------------
(***************************************************************************)
(* The reliability layer of the control channel (reliable.c as tls_process *)
(* and tls_pre_decrypt drive it): two ends, each with a send buffer, a     *)
(* receive buffer and a list of acknowledgements to send, over a network   *)
(* that loses, duplicates and reorders packets.                            *)
(*                                                                         *)
(* A message is its number in the order it was handed over; the code sees  *)
(* only its packet id, the number modulo the size of packet_id_type.  When *)
(* an entry is to be sent again is left open (next_try, timeout).          *)
(***************************************************************************)
EXTENDS Integers, Sequences, FiniteSets, SequencesExt

CONSTANTS
    Modulus,       \* number of packet ids, 2^32 in the code
    SendBuffers,   \* TLS_RELIABLE_N_SEND_BUFFERS
    RecBuffers,    \* TLS_RELIABLE_N_REC_BUFFERS
    AckSize,       \* RELIABLE_ACK_SIZE
    SendAckMax,    \* CONTROL_SEND_ACK_MAX
    FirstIds,      \* ids the channel may have reached, all before acknowledged
    ClientHands,   \* bounds: messages each end hands over
    ServerHands,
    MaxInFlight,   \* bound: packets the network holds
    MaxFaults      \* bound: packets it loses or delivers twice

ASSUME ReliableSizes ==
    /\ Modulus \in Nat /\ Modulus > 0 /\ Modulus % 2 = 0
    /\ SendBuffers \in Nat \ {0} /\ RecBuffers \in Nat \ {0}
    /\ AckSize \in Nat \ {0} /\ SendAckMax \in Nat \ {0}
\* 4 and 8 in ssl.h; what the peer may still send fits into the receive buffer.
ASSUME RoomForWindow == SendBuffers <= RecBuffers
ASSUME ReliableBounds ==
    /\ FirstIds \subseteq 0 .. Modulus - 1
    /\ {ClientHands, ServerHands, MaxFaults} \subseteq Nat
    /\ MaxInFlight \in Nat \ {0}
    /\ 2 * ClientHands <= Modulus /\ 2 * ServerHands <= Modulus

Ends == {"client", "server"}
Peer(e) == CHOOSE f \in Ends : f # e

VARIABLES
    first,     \* the id of message 0, for both ends
    handed,    \* messages handed over by the end's TLS object
    taken,     \* messages given to the end's TLS object
    sendBuf,   \* send_reliable: its active entries [msg, due]
    recBuf,    \* rec_reliable: its active entries, as messages
    recAck,    \* rec_ack: ids to acknowledge
    net,       \* packets in flight
    faults     \* counts towards MaxFaults

reliableVars == <<first, handed, taken, sendBuf, recBuf, recAck, net, faults>>

PacketId == 0 .. Modulus - 1
MaxHanded(e) == IF e = "client" THEN ClientHands ELSE ServerHands
Message == 0 .. Max({ClientHands, ServerHands}) - 1
Entry == [msg : Message, due : BOOLEAN]
NoMessage == -1                       \* a P_ACK_V1 carries none
Packet == [to : Ends, msg : Message \cup {NoMessage}, acks : SUBSET PacketId]

\* Types of both ends' buffers and of what the network carries.
ReliableTypeOK ==
    /\ first \in PacketId
    /\ handed \in [Ends -> Nat]
    /\ taken \in [Ends -> Seq(Message)]
    /\ sendBuf \in [Ends -> SUBSET Entry]
    /\ recBuf \in [Ends -> SUBSET Message]
    /\ recAck \in [Ends -> Seq(PacketId)]
    /\ net \subseteq Packet
    /\ faults \in 0 .. MaxFaults

ReliableInit ==
    /\ first \in FirstIds
    /\ handed = [e \in Ends |-> 0]
    /\ taken = [e \in Ends |-> <<>>]
    /\ sendBuf = [e \in Ends |-> {}]
    /\ recBuf = [e \in Ends |-> {}]
    /\ recAck = [e \in Ends |-> <<>>]
    /\ net = {}
    /\ faults = 0

--------------------------------------------------------------------------------
(* Comparing ids that wrap around.                                         *)

IdWithoutWrap(msg) == first + msg
IdOf(msg) == (first + msg) % Modulus
SendId(e) == IdOf(handed[e])          \* send_reliable->packet_id
RecId(e) == IdOf(Len(taken[e]))       \* rec_reliable->packet_id

\* reliable_pid_in_range1(): both its branches subtract modulo 2^32.
InRange1(test, base, extent) == (test - base) % Modulus < extent

\* reliable_pid_in_range2(): unsigned sums, compared.
InRange2(test, base, extent) ==
    LET Half == Modulus \div 2
        Wrap(x) == x % Modulus
    IN  IF Wrap(base + extent) >= base
        THEN test < Wrap(base + extent)
        ELSE Wrap(test + Half) < Wrap(Wrap(base + Half) + extent)

\* reliable_pid_min()
PidMin(p, q) == ~InRange1(p, q, Modulus \div 2)

--------------------------------------------------------------------------------
(* The send buffer.                                                        *)

IdsIn(entries) == {IdOf(x.msg) : x \in entries}
LowestId(ids) == CHOOSE p \in ids : \A q \in ids : p = q \/ PidMin(p, q)

\* reliable_get_buf_output_sequenced() finds a buffer.
CanHandOverAny(e) == Cardinality(sendBuf[e]) < SendBuffers
CanHandOver(e) ==
    /\ Cardinality(sendBuf[e]) < SendBuffers
    /\ sendBuf[e] # {} =>
           InRange1(SendId(e), LowestId(IdsIn(sendBuf[e])), SendBuffers)

\* reliable_mark_active_outgoing() for what the TLS object has to send.
HandOver(e) ==
    /\ handed[e] < MaxHanded(e)
    /\ CanHandOver(e)
    /\ sendBuf' = [sendBuf EXCEPT ![e] = @ \cup {[msg |-> handed[e], due |-> TRUE]}]
    /\ handed' = [handed EXCEPT ![e] = @ + 1]
    /\ UNCHANGED <<first, taken, recBuf, recAck, net, faults>>

\* The time of an entry comes.
FallsDue(e) ==
    \E x \in sendBuf[e] :
        /\ ~x.due
        /\ sendBuf' = [sendBuf EXCEPT ![e] = (@ \ {x}) \cup {[x EXCEPT !.due = TRUE]}]
        /\ UNCHANGED <<first, handed, taken, recBuf, recAck, net, faults>>

Due(e) == {x \in sendBuf[e] : x.due}

\* reliable_ack_write(): the oldest acknowledgements, as many as fit.
Lesser(m, n) == IF m < n THEN m ELSE n
AcksFor(e, max) == ToSet(SubSeq(recAck[e], 1, Lesser(Len(recAck[e]), max)))
AcksLeft(e, max) == SubSeq(recAck[e], Lesser(Len(recAck[e]), max) + 1, Len(recAck[e]))

Put(packet) ==
    /\ Cardinality(net) < MaxInFlight
    /\ net' = net \cup {packet}

\* reliable_send(): the lowest id that is due, with acknowledgements.
SendControl(e) ==
    \E x \in Due(e) :
        /\ IdOf(x.msg) = LowestId(IdsIn(Due(e)))
        /\ Put([to |-> Peer(e), msg |-> x.msg, acks |-> AcksFor(e, SendAckMax)])
        /\ recAck' = [recAck EXCEPT ![e] = AcksLeft(e, SendAckMax)]
        /\ sendBuf' = [sendBuf EXCEPT ![e] = (@ \ {x}) \cup {[x EXCEPT !.due = FALSE]}]
        /\ UNCHANGED <<first, handed, taken, recBuf, faults>>

\* A P_ACK_V1, when there is nothing else to send.
SendAck(e) ==
    /\ Due(e) = {} /\ recAck[e] # <<>>
    /\ Put([to |-> Peer(e), msg |-> NoMessage, acks |-> AcksFor(e, AckSize)])
    /\ recAck' = [recAck EXCEPT ![e] = AcksLeft(e, AckSize)]
    /\ UNCHANGED <<first, handed, taken, sendBuf, recBuf, faults>>

--------------------------------------------------------------------------------
(* The receive buffer.                                                     *)

CanGet(e) == Cardinality(recBuf[e]) < RecBuffers
WontBreakSequentiality(e, id) == InRange2(id, RecId(e), RecBuffers)
NotInBuffer(e, id) == \A msg \in recBuf[e] : IdOf(msg) # id
NotReplaySwapped(e, id) ==
    ~PidMin(RecId(e), id) /\ \A msg \in recBuf[e] : IdOf(msg) # id
NotReplay(e, id) ==
    /\ ~PidMin(id, RecId(e))
    /\ \A msg \in recBuf[e] : IdOf(msg) # id

\* reliable_ack_acknowledge_packet_id()
AcknowledgeNew(e, id) ==
    recAck' = [recAck EXCEPT ![e] =
        IF NotReplay(e, id) /\ Len(@) < AckSize THEN Append(@, id) ELSE @]
Acknowledge(e, id) ==
    recAck' = [recAck EXCEPT ![e] =
        IF id \notin ToSet(@) /\ Len(@) < AckSize THEN Append(@, id) ELSE @]

\* tls_pre_decrypt(): acknowledgements first, then the message, if any, into a
\* free buffer; a replay is acknowledged all the same.
Process(p) ==
    LET e == p.to
        id == IdOf(p.msg)
        taking == p.msg # NoMessage /\ CanGet(e) /\ WontBreakSequentiality(e, id)
    IN  /\ sendBuf' = [sendBuf EXCEPT ![e] = {x \in @ : IdOf(x.msg) \notin p.acks}]
        /\ recBuf' = IF taking /\ NotReplay(e, id)
                     THEN [recBuf EXCEPT ![e] = @ \cup {p.msg}] ELSE recBuf
        /\ IF taking THEN Acknowledge(e, id) ELSE UNCHANGED recAck
        /\ UNCHANGED <<first, handed, taken>>

Receive(p) ==
    /\ Process(p)
    /\ net' = net \ {p}
    /\ UNCHANGED faults

\* The network keeps what it delivered, to deliver it again, or drops it.
Fault == faults < MaxFaults /\ faults' = faults + 1

Duplicate(p) == Fault /\ Process(p) /\ UNCHANGED net

Lose(p) ==
    /\ Fault
    /\ net' = net \ {p}
    /\ UNCHANGED <<first, handed, taken, sendBuf, recBuf, recAck>>

\* reliable_get_buf_sequenced(), and reliable_mark_deleted() once the TLS object
\* took the message.
InAnySequence(e, msg) == IdOf(msg) \in {RecId(e), (RecId(e) + 1) % Modulus}
InSequence(e, msg) == IdOf(msg) = RecId(e)

TakeOut(e) ==
    \E msg \in recBuf[e] :
        /\ InSequence(e, msg)
        /\ taken' = [taken EXCEPT ![e] = Append(@, msg)]
        /\ recBuf' = [recBuf EXCEPT ![e] = @ \ {msg}]
        /\ UNCHANGED <<first, handed, sendBuf, recAck, net, faults>>

--------------------------------------------------------------------------------
EndStep(e) == HandOver(e) \/ FallsDue(e) \/ SendControl(e) \/ SendAck(e) \/ TakeOut(e)

ReliableNext ==
    \/ \E e \in Ends : EndStep(e)
    \/ \E p \in net : Receive(p) \/ Duplicate(p) \/ Lose(p)

ReliableSpec == ReliableInit /\ [][ReliableNext]_reliableVars

\* Both ends run and retransmit; the network gets to deliver what it does not lose,
\* and loses only so much.
Carries(e, msg) == \E p \in net : p.to = e /\ p.msg = msg /\ Receive(p)

ReliableFairness ==
    \A e \in Ends :
        /\ WF_reliableVars(HandOver(e)) /\ WF_reliableVars(TakeOut(e))
        /\ WF_reliableVars(FallsDue(e))
        /\ SF_reliableVars(SendControl(e) \/ SendAck(e))
        /\ \A msg \in Message \cup {NoMessage} : WF_reliableVars(Carries(e, msg))
FairReliable == ReliableSpec /\ ReliableFairness

--------------------------------------------------------------------------------
(* What holds.                                                             *)

Got(e) == recBuf[e] \cup ToSet(taken[e])

\* A message leaves the send buffer only once the other end has it: an empty
\* send buffer (the first half of FULL_SYNC in ssl.c) means the peer has it all.
AckedIsReceived ==
    \A e \in Ends : \A msg \in 0 .. handed[e] - 1 :
        msg \in {x.msg : x \in sendBuf[e]} \cup Got(Peer(e))

\* "won't deadlock the receive buffer": a full one holds the message the TLS
\* object waits for.
FullIsNotStuck ==
    \A e \in Ends : ~CanGet(e) => \E msg \in recBuf[e] : IdOf(msg) = RecId(e)

\* Ids tell messages apart: no two entries of a buffer have the same, and the
\* send buffer's stay within its window.
Window ==
    \A e \in Ends :
        /\ \A x, y \in sendBuf[e] : x.msg # y.msg => IdOf(x.msg) # IdOf(y.msg)
        /\ \A x, y \in sendBuf[e] : x.msg - y.msg < SendBuffers
        /\ \A m, n \in recBuf[e] : m # n => IdOf(m) # IdOf(n)

Ordered == INSTANCE OrderedDelivery

\* The TLS objects see an ordered, gapless exchange, each message once.
DeliversInOrder == Ordered!OrderedSpec

\* All that is handed over arrives and is acknowledged, as long as ids do not
\* wrap (a key state starts at id 0).
AllArrive ==
    (first + ClientHands <= Modulus /\ first + ServerHands <= Modulus) ~>
        \A e \in Ends : Len(taken[Peer(e)]) = MaxHanded(e) /\ sendBuf[e] = {}
================================================================================
