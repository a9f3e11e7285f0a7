----------------------------- MODULE Reliable_proofs ---------------------------
(***************************************************************************)
(* What the control channel delivers, for windows, lists of                *)
(* acknowledgements and faults of every number, as long as an end hands    *)
(* over no more than half as many messages as there are ids.               *)
(***************************************************************************)
EXTENDS Reliable, FiniteSetTheorems, TLAPS

\* Every message about was handed over, and what was taken is 0, 1, 2, ...
Bounded == \A e \in Ends : handed[e] \in Nat /\ handed[e] <= MaxHanded(e)
Genuine ==
    /\ \A e \in Ends :
           /\ \A x \in sendBuf[e] : x.msg < handed[e]
           /\ \A m \in recBuf[e] : m < handed[Peer(e)]
    /\ \A p \in net : p.msg < handed[Peer(p.to)]
TakenOK ==
    \A e \in Ends :
        /\ Len(taken[e]) <= handed[Peer(e)]
        /\ \A i \in 1 .. Len(taken[e]) : taken[e][i] = i - 1

OrderInv == ReliableTypeOK /\ Bounded /\ Genuine /\ TakenOK

--------------------------------------------------------------------------------
LEMMA Peers ==
    /\ \A e \in Ends : Peer(e) \in Ends /\ Peer(e) # e /\ Peer(Peer(e)) = e
    /\ \A e, f \in Ends : f # e => f = Peer(e)
<1>1. Peer("client") = "server" BY DEF Peer, Ends
<1>2. Peer("server") = "client" BY DEF Peer, Ends
<1> QED BY <1>1, <1>2 DEF Ends

\* A message is below the number its end hands over, which is at most half the ids.
LEMMA Numbers ==
    /\ Modulus \in Nat /\ Modulus > 0
    /\ \A e \in Ends : MaxHanded(e) \in Nat /\ 2 * MaxHanded(e) <= Modulus
    /\ \A e \in Ends : \A m \in Nat : m < MaxHanded(e) => m \in Message
    /\ \A m \in Message : m \in Nat /\ 2 * m < Modulus
    /\ NoMessage \notin Message
<1> DEFINE both == {ClientHands, ServerHands}
<1>1. ClientHands \in Nat /\ ServerHands \in Nat /\ Modulus \in Nat /\ Modulus > 0
      /\ 2 * ClientHands <= Modulus /\ 2 * ServerHands <= Modulus
  BY ReliableSizes, ReliableBounds
<1>2. \E x \in both : \A y \in both : x >= y BY <1>1
<1>3. Max(both) \in both /\ \A y \in both : Max(both) >= y BY <1>2 DEF Max
<1>4. /\ Max(both) \in Nat /\ 2 * Max(both) <= Modulus
      /\ Max(both) >= ClientHands /\ Max(both) >= ServerHands
  BY <1>1, <1>3
<1>5. Message = 0 .. Max(both) - 1 BY DEF Message
<1> HIDE DEF both
<1>6. \A m \in Message : m \in Nat /\ 2 * m < Modulus BY <1>1, <1>4, <1>5
<1>7. \A e \in Ends : MaxHanded(e) \in {ClientHands, ServerHands} BY DEF MaxHanded
<1>8. \A e \in Ends : MaxHanded(e) \in Nat /\ 2 * MaxHanded(e) <= Modulus
                      /\ MaxHanded(e) <= Max(both)
  BY <1>1, <1>4, <1>7
<1>9. \A e \in Ends : \A m \in Nat : m < MaxHanded(e) => m \in Message
  BY <1>4, <1>5, <1>8
<1>10. NoMessage \notin Message BY <1>4, <1>5 DEF NoMessage
<1> QED BY <1>1, <1>6, <1>8, <1>9, <1>10

\* Ids wrap at most once over the messages of a session.
LEMMA Wrapped ==
    ASSUME NEW M \in Nat, M > 0, NEW x \in Nat, x < 2 * M
    PROVE  x % M = IF x < M THEN x ELSE x - M
<1>1. CASE x < M
  BY <1>1
<1>2. CASE x >= M
  BY <1>2
<1> QED BY <1>1, <1>2

LEMMA IdsDiffer ==
    ASSUME first \in PacketId, NEW m \in Nat, NEW n \in Nat,
           2 * m <= Modulus, 2 * n <= Modulus, IdOf(m) = IdOf(n)
    PROVE  m = n
<1>1. Modulus \in Nat /\ Modulus > 0 /\ first \in Nat /\ first < Modulus
  BY Numbers DEF PacketId
<1>2. first + m < 2 * Modulus /\ first + n < 2 * Modulus BY <1>1
<1> DEFINE a == first + m
           b == first + n
           c == IdOf(m)
<1>3. c = IF a < Modulus THEN a ELSE a - Modulus
  BY <1>1, <1>2, Wrapped DEF IdOf
<1>4. c = IF b < Modulus THEN b ELSE b - Modulus
  BY <1>1, <1>2, Wrapped DEF IdOf
<1>5. a \in Nat /\ b \in Nat /\ a - b < Modulus /\ b - a < Modulus BY <1>1
<1> HIDE DEF a, b, c
<1>6. a = b BY <1>1, <1>3, <1>4, <1>5
<1> QED BY <1>1, <1>6 DEF a, b

LEMMA IdType == ASSUME first \in PacketId, NEW m \in Nat PROVE IdOf(m) \in PacketId
<1>1. Modulus \in Nat /\ Modulus > 0 /\ first + m \in Nat BY Numbers DEF PacketId
<1> QED BY <1>1 DEF IdOf, PacketId

--------------------------------------------------------------------------------
(* Acknowledgements.                                                       *)

LEMMA AckTypes ==
    ASSUME ReliableTypeOK, NEW e \in Ends, NEW max \in Nat
    PROVE  /\ AcksFor(e, max) \subseteq PacketId
           /\ AcksLeft(e, max) \in Seq(PacketId)
           /\ AcksFor(e, max) \subseteq ToSet(recAck[e])
           /\ ToSet(AcksLeft(e, max)) \subseteq ToSet(recAck[e])
<1> DEFINE acks == recAck[e]
           k == Lesser(Len(acks), max)
<1>1. acks \in Seq(PacketId) /\ Len(acks) \in Nat BY DEF ReliableTypeOK
<1>2. k \in Nat /\ k <= Len(acks) BY <1>1 DEF Lesser
<1> HIDE DEF acks, k
<1>3. /\ SubSeq(acks, 1, k) \in Seq(PacketId)
      /\ \A i \in 1 .. Len(SubSeq(acks, 1, k)) :
             SubSeq(acks, 1, k)[i] = acks[i] /\ i \in 1 .. Len(acks)
  BY <1>1, <1>2
<1>4. /\ SubSeq(acks, k + 1, Len(acks)) \in Seq(PacketId)
      /\ \A i \in 1 .. Len(SubSeq(acks, k + 1, Len(acks))) :
             /\ SubSeq(acks, k + 1, Len(acks))[i] = acks[i + k]
             /\ i + k \in 1 .. Len(acks)
  BY <1>1, <1>2
<1>5. AcksFor(e, max) = ToSet(SubSeq(acks, 1, k)) BY DEF AcksFor, acks, k
<1>6. AcksLeft(e, max) = SubSeq(acks, k + 1, Len(acks)) BY DEF AcksLeft, acks, k
<1>7. ToSet(SubSeq(acks, 1, k)) \subseteq ToSet(acks) BY <1>1, <1>3 DEF ToSet
<1>8. ToSet(SubSeq(acks, k + 1, Len(acks))) \subseteq ToSet(acks)
  <2> DEFINE rest == SubSeq(acks, k + 1, Len(acks))
  <2>1. DOMAIN acks = 1 .. Len(acks) /\ DOMAIN rest = 1 .. Len(rest)
    BY <1>1, <1>4
  <2>2. \A i \in 1 .. Len(rest) : rest[i] = acks[i + k] /\ i + k \in 1 .. Len(acks)
    BY <1>4
  <2> HIDE DEF rest
  <2>3. \A i \in DOMAIN rest : rest[i] = acks[i + k] /\ i + k \in DOMAIN acks
    BY <2>1, <2>2
  <2>4. ToSet(rest) \subseteq ToSet(acks) BY <2>3, Zenon DEF ToSet
  <2> QED BY <2>4 DEF rest
<1>9. ToSet(acks) \subseteq PacketId BY <1>1 DEF ToSet
<1> QED BY <1>4, <1>5, <1>6, <1>7, <1>8, <1>9 DEF acks

LEMMA AcknowledgeTypes ==
    ASSUME ReliableTypeOK, NEW e \in Ends, NEW id \in PacketId, Acknowledge(e, id)
    PROVE  /\ recAck' \in [Ends -> Seq(PacketId)]
           /\ \A f \in Ends : f # e => recAck'[f] = recAck[f]
           /\ ToSet(recAck'[e]) \subseteq ToSet(recAck[e]) \cup {id}
<1> DEFINE acks == recAck[e]
           more == IF id \notin ToSet(acks) /\ Len(acks) < AckSize
                   THEN Append(acks, id) ELSE acks
<1>1. recAck \in [Ends -> Seq(PacketId)] /\ acks \in Seq(PacketId) /\ Len(acks) \in Nat
  BY DEF ReliableTypeOK
<1>2. recAck' = [recAck EXCEPT ![e] = more] BY DEF Acknowledge
<1> HIDE DEF acks
<1>3. more \in Seq(PacketId) BY <1>1
<1>4. ToSet(Append(acks, id)) \subseteq ToSet(acks) \cup {id} BY <1>1 DEF ToSet
<1>5. ToSet(more) \subseteq ToSet(acks) \cup {id} BY <1>4
<1> HIDE DEF more
<1> QED BY <1>1, <1>2, <1>3, <1>5 DEF acks

--------------------------------------------------------------------------------
(* Messages are delivered in order.                                        *)

LEMMA HandOverKeeps == ASSUME OrderInv, NEW e \in Ends, HandOver(e) PROVE OrderInv'
<1>1. /\ handed[e] \in Nat /\ handed[e] < MaxHanded(e)
      /\ handed \in [Ends -> Nat] /\ sendBuf \in [Ends -> SUBSET Entry]
      /\ handed' = [handed EXCEPT ![e] = handed[e] + 1]
      /\ sendBuf' = [sendBuf EXCEPT ![e] =
             sendBuf[e] \cup {[msg |-> handed[e], due |-> TRUE]}]
      /\ UNCHANGED <<first, taken, recBuf, recAck, net, faults>>
  BY DEF HandOver, OrderInv, ReliableTypeOK
<1>2. handed[e] \in Message BY <1>1, Numbers
<1>3. /\ \A f \in Ends : handed'[f] \in Nat /\ handed'[f] >= handed[f]
      /\ handed'[e] = handed[e] + 1 /\ \A f \in Ends : f # e => handed'[f] = handed[f]
  BY <1>1
<1>4. sendBuf' \in [Ends -> SUBSET Entry]
  <2> DEFINE new == sendBuf[e] \cup {[msg |-> handed[e], due |-> TRUE]}
  <2>1. [msg |-> handed[e], due |-> TRUE] \in Entry BY <1>2 DEF Entry
  <2>2. new \in SUBSET Entry BY <1>1, <2>1
  <2>3. sendBuf' = [sendBuf EXCEPT ![e] = new] BY <1>1
  <2> HIDE DEF new
  <2> QED BY <1>1, <2>2, <2>3
<1>5. ReliableTypeOK' BY <1>1, <1>4 DEF OrderInv, ReliableTypeOK
<1>6. Bounded' BY <1>1, <1>3, Numbers DEF OrderInv, Bounded
<1>7. \A f \in Ends : \A x \in sendBuf'[f] : x.msg < handed'[f]
  <2> SUFFICES ASSUME NEW f \in Ends, NEW x \in sendBuf'[f] PROVE x.msg < handed'[f]
    OBVIOUS
  <2>1. CASE x \in sendBuf[f]
    <3>1. x.msg < handed[f] /\ x.msg \in Nat
      BY <1>1, <2>1, Numbers DEF OrderInv, Genuine, Entry
    <3> QED BY <1>1, <1>3, <3>1
  <2>2. CASE x \notin sendBuf[f]
    <3>1. f = e /\ x = [msg |-> handed[e], due |-> TRUE] BY <1>1, <2>2
    <3>2. x.msg = handed[e] BY <3>1
    <3> QED BY <1>1, <1>3, <3>1, <3>2
  <2> QED BY <2>1, <2>2
<1>8. \A f \in Ends : \A m \in recBuf[f] : m < handed'[Peer(f)]
  <2> SUFFICES ASSUME NEW f \in Ends, NEW m \in recBuf[f] PROVE m < handed'[Peer(f)]
    OBVIOUS
  <2>1. m \in Nat /\ m < handed[Peer(f)] /\ Peer(f) \in Ends
    BY Numbers, Peers DEF OrderInv, Genuine, ReliableTypeOK
  <2> QED BY <1>1, <1>3, <2>1
<1>9. \A p \in net : p.msg < handed'[Peer(p.to)]
  <2> SUFFICES ASSUME NEW p \in net PROVE p.msg < handed'[Peer(p.to)]
    OBVIOUS
  <2>1. p \in Packet /\ p.msg < handed[Peer(p.to)]
    BY Zenon DEF OrderInv, Genuine, ReliableTypeOK
  <2>2. p.to \in Ends /\ p.msg \in Message \cup {NoMessage} BY <2>1 DEF Packet
  <2>3. p.msg \in Int BY <2>2, Numbers DEF NoMessage
  <2>4. Peer(p.to) \in Ends BY <2>2, Peers
  <2> QED BY <1>1, <1>3, <2>1, <2>3, <2>4
<1>10. Genuine' BY <1>1, <1>7, <1>8, <1>9 DEF Genuine
<1>11. TakenOK'
  <2> SUFFICES ASSUME NEW f \in Ends
               PROVE  /\ Len(taken[f]) <= handed'[Peer(f)]
                      /\ \A i \in 1 .. Len(taken[f]) : taken[f][i] = i - 1
    BY <1>1 DEF TakenOK
  <2>1. Peer(f) \in Ends /\ Len(taken[f]) \in Nat BY Peers DEF OrderInv, ReliableTypeOK
  <2> QED BY <1>1, <1>3, <2>1 DEF OrderInv, TakenOK
<1> QED BY <1>5, <1>6, <1>10, <1>11 DEF OrderInv

\* Steps that hand nothing over and take nothing.
LEMMA CarryKeeps ==
    ASSUME OrderInv, UNCHANGED <<handed, taken>>, ReliableTypeOK', Genuine'
    PROVE  OrderInv'
BY DEF OrderInv, Bounded, TakenOK

LEMMA DueKeeps == ASSUME OrderInv, NEW e \in Ends, FallsDue(e) PROVE OrderInv'
<1>1. PICK x \in sendBuf[e] :
          /\ sendBuf' = [sendBuf EXCEPT ![e] =
                 (sendBuf[e] \ {x}) \cup {[x EXCEPT !.due = TRUE]}]
          /\ UNCHANGED <<first, handed, taken, recBuf, recAck, net, faults>>
  BY DEF FallsDue
<1>2. sendBuf \in [Ends -> SUBSET Entry] /\ x \in Entry BY DEF OrderInv, ReliableTypeOK
<1>3. [x EXCEPT !.due = TRUE] \in Entry /\ [x EXCEPT !.due = TRUE].msg = x.msg
  BY <1>2 DEF Entry
<1>4. ReliableTypeOK' BY <1>1, <1>2, <1>3 DEF OrderInv, ReliableTypeOK
<1>5. Genuine' BY <1>1, <1>2, <1>3 DEF OrderInv, Genuine
<1> QED BY <1>1, <1>4, <1>5, CarryKeeps

LEMMA SendKeeps ==
    ASSUME OrderInv, NEW e \in Ends, SendControl(e) \/ SendAck(e)
    PROVE  OrderInv'
<1>0. SendAckMax \in Nat /\ AckSize \in Nat BY ReliableSizes
<1>1. CASE SendControl(e)
  <2>1. PICK x \in Due(e) :
            /\ net' = net \cup {[to |-> Peer(e), msg |-> x.msg,
                                 acks |-> AcksFor(e, SendAckMax)]}
            /\ recAck' = [recAck EXCEPT ![e] = AcksLeft(e, SendAckMax)]
            /\ sendBuf' = [sendBuf EXCEPT ![e] =
                   (sendBuf[e] \ {x}) \cup {[x EXCEPT !.due = FALSE]}]
            /\ UNCHANGED <<first, handed, taken, recBuf, faults>>
    BY <1>1 DEF SendControl, Put
  <2>2. sendBuf \in [Ends -> SUBSET Entry] /\ x \in Entry /\ x \in sendBuf[e]
    BY DEF OrderInv, ReliableTypeOK, Due
  <2>3. [x EXCEPT !.due = FALSE] \in Entry /\ [x EXCEPT !.due = FALSE].msg = x.msg
    BY <2>2 DEF Entry
  <2> DEFINE packet == [to |-> Peer(e), msg |-> x.msg, acks |-> AcksFor(e, SendAckMax)]
  <2>4. packet \in Packet /\ packet.to = Peer(e) /\ packet.msg = x.msg
    BY <1>0, <2>2, Peers, AckTypes DEF Packet, Entry, OrderInv
  <2> HIDE DEF packet
  <2>5. net' = net \cup {packet} BY <2>1 DEF packet
  <2>6. AcksLeft(e, SendAckMax) \in Seq(PacketId) BY <1>0, AckTypes DEF OrderInv
  <2>7. ReliableTypeOK'
    BY <2>1, <2>2, <2>3, <2>4, <2>5, <2>6 DEF OrderInv, ReliableTypeOK
  <2>8. x.msg < handed[Peer(Peer(e))] BY <2>2, Peers DEF OrderInv, Genuine
  <2>9. Genuine'
    BY <2>1, <2>2, <2>3, <2>4, <2>5, <2>8 DEF OrderInv, Genuine
  <2> QED BY <2>1, <2>7, <2>9, CarryKeeps
<1>2. CASE SendAck(e)
  <2> DEFINE packet == [to |-> Peer(e), msg |-> NoMessage, acks |-> AcksFor(e, AckSize)]
  <2>1. /\ net' = net \cup {packet}
        /\ recAck' = [recAck EXCEPT ![e] = AcksLeft(e, AckSize)]
        /\ UNCHANGED <<first, handed, taken, sendBuf, recBuf, faults>>
    BY <1>2 DEF SendAck, Put
  <2>2. packet \in Packet /\ packet.to = Peer(e) /\ packet.msg = -1
    BY <1>0, Peers, AckTypes DEF Packet, OrderInv, NoMessage
  <2> HIDE DEF packet
  <2>3. AcksLeft(e, AckSize) \in Seq(PacketId) BY <1>0, AckTypes DEF OrderInv
  <2>4. ReliableTypeOK' BY <2>1, <2>2, <2>3 DEF OrderInv, ReliableTypeOK
  <2>5. packet.msg < handed[Peer(packet.to)]
    BY <2>2, Peers DEF OrderInv, Bounded
  <2>6. Genuine' BY <2>1, <2>5 DEF OrderInv, Genuine
  <2> QED BY <2>1, <2>4, <2>6, CarryKeeps
<1> QED BY <1>1, <1>2

LEMMA ProcessKeeps ==
    ASSUME OrderInv, NEW p \in net, Process(p), net' \subseteq net,
           faults' \in 0 .. MaxFaults
    PROVE  OrderInv'
<1> DEFINE e == p.to
           id == IdOf(p.msg)
           taking == p.msg # NoMessage /\ CanGet(e) /\ WontBreakSequentiality(e, id)
<1>1. e \in Ends /\ p.msg \in Message \cup {NoMessage} /\ p.acks \subseteq PacketId
  BY DEF OrderInv, ReliableTypeOK, Packet
<1>2. /\ sendBuf' = [sendBuf EXCEPT ![e] = {x \in sendBuf[e] : IdOf(x.msg) \notin p.acks}]
      /\ recBuf' = IF taking /\ NotReplay(e, id)
                   THEN [recBuf EXCEPT ![e] = recBuf[e] \cup {p.msg}] ELSE recBuf
      /\ IF taking THEN Acknowledge(e, id) ELSE UNCHANGED recAck
      /\ UNCHANGED <<first, handed, taken>>
  BY DEF Process
<1>3. taking => p.msg \in Message /\ p.msg \in Nat /\ id \in PacketId
  BY <1>1, Numbers, IdType DEF OrderInv, ReliableTypeOK
<1>4. sendBuf' \in [Ends -> SUBSET Entry] /\ \A f \in Ends : sendBuf'[f] \subseteq sendBuf[f]
  BY <1>1, <1>2 DEF OrderInv, ReliableTypeOK
<1>5. recAck' \in [Ends -> Seq(PacketId)]
  BY <1>1, <1>2, <1>3, AcknowledgeTypes DEF OrderInv, ReliableTypeOK
<1> HIDE DEF taking, id
<1>6. /\ recBuf' \in [Ends -> SUBSET Message]
      /\ \A f \in Ends : \A m \in recBuf'[f] : m \in recBuf[f] \/ (f = e /\ m = p.msg)
  BY <1>1, <1>2, <1>3 DEF OrderInv, ReliableTypeOK
<1>7. ReliableTypeOK'
  BY <1>2, <1>4, <1>5, <1>6 DEF OrderInv, ReliableTypeOK
<1>8. Genuine' BY <1>2, <1>4, <1>6 DEF OrderInv, Genuine
<1> QED BY <1>2, <1>7, <1>8, CarryKeeps

LEMMA NetworkKeeps ==
    ASSUME OrderInv, NEW p \in net, Receive(p) \/ Duplicate(p) \/ Lose(p)
    PROVE  OrderInv'
<1>1. faults' \in 0 .. MaxFaults
  BY ReliableBounds DEF Receive, Duplicate, Lose, Fault, OrderInv, ReliableTypeOK
<1>2. CASE Receive(p) BY <1>1, <1>2, ProcessKeeps DEF Receive
<1>3. CASE Duplicate(p) BY <1>1, <1>3, ProcessKeeps DEF Duplicate
<1>4. CASE Lose(p)
  BY <1>1, <1>4, CarryKeeps DEF Lose, OrderInv, ReliableTypeOK, Genuine
<1> QED BY <1>2, <1>3, <1>4

\* The message with the next id is the next message.
LEMMA NextInOrder ==
    ASSUME OrderInv, NEW e \in Ends, TakeOut(e)
    PROVE  /\ Len(taken[e]) \in recBuf[e] /\ Len(taken[e]) < handed[Peer(e)]
           /\ taken' = [taken EXCEPT ![e] = Append(taken[e], Len(taken[e]))]
           /\ recBuf' = [recBuf EXCEPT ![e] = recBuf[e] \ {Len(taken[e])}]
           /\ UNCHANGED <<first, handed, sendBuf, recAck, net, faults>>
<1>1. PICK m \in recBuf[e] :
          /\ IdOf(m) = IdOf(Len(taken[e]))
          /\ taken' = [taken EXCEPT ![e] = Append(taken[e], m)]
          /\ recBuf' = [recBuf EXCEPT ![e] = recBuf[e] \ {m}]
          /\ UNCHANGED <<first, handed, sendBuf, recAck, net, faults>>
  BY DEF TakeOut, InSequence, RecId
<1>2. m \in Message /\ m \in Nat /\ 2 * m <= Modulus /\ m < handed[Peer(e)]
  BY Numbers, Peers DEF OrderInv, ReliableTypeOK, Genuine
<1>3. Len(taken[e]) \in Nat /\ 2 * Len(taken[e]) <= Modulus
  <2>1. /\ Len(taken[e]) \in Nat /\ Len(taken[e]) <= handed[Peer(e)]
        /\ handed[Peer(e)] \in Nat /\ handed[Peer(e)] <= MaxHanded(Peer(e))
        /\ MaxHanded(Peer(e)) \in Nat /\ 2 * MaxHanded(Peer(e)) <= Modulus
        /\ Modulus \in Nat
    BY Numbers, Peers DEF OrderInv, ReliableTypeOK, TakenOK, Bounded
  <2> QED BY <2>1
<1>4. m = Len(taken[e]) BY <1>1, <1>2, <1>3, IdsDiffer DEF OrderInv, ReliableTypeOK
<1> QED BY <1>1, <1>2, <1>4

LEMMA TakeOutKeeps == ASSUME OrderInv, NEW e \in Ends, TakeOut(e) PROVE OrderInv'
<1> DEFINE n == Len(taken[e])
<1>1. /\ n \in recBuf[e] /\ n < handed[Peer(e)] /\ n \in Nat
      /\ taken' = [taken EXCEPT ![e] = Append(taken[e], n)]
      /\ recBuf' = [recBuf EXCEPT ![e] = recBuf[e] \ {n}]
      /\ UNCHANGED <<first, handed, sendBuf, recAck, net, faults>>
      /\ taken \in [Ends -> Seq(Message)] /\ n \in Message
  BY NextInOrder DEF OrderInv, ReliableTypeOK
<1>2. taken' \in [Ends -> Seq(Message)] BY <1>1
<1>3. ReliableTypeOK' BY <1>1, <1>2 DEF OrderInv, ReliableTypeOK
<1>4. Genuine' BY <1>1 DEF OrderInv, Genuine, ReliableTypeOK
<1>5. Bounded' BY <1>1 DEF OrderInv, Bounded
<1>6. TakenOK'
  <2> SUFFICES ASSUME NEW f \in Ends
               PROVE  /\ Len(taken'[f]) <= handed[Peer(f)]
                      /\ \A i \in 1 .. Len(taken'[f]) : taken'[f][i] = i - 1
    BY <1>1 DEF TakenOK
  <2>1. CASE f = e
    <3>1. taken'[f] = Append(taken[e], n) /\ taken[e] \in Seq(Message) BY <1>1, <2>1
    <3>2. /\ Len(taken'[f]) = n + 1
          /\ taken'[f][n + 1] = n
          /\ \A i \in 1 .. n : taken'[f][i] = taken[e][i]
      BY <1>1, <3>1
    <3>3. \A i \in 1 .. n : taken[e][i] = i - 1 BY DEF OrderInv, TakenOK
    <3>4. handed[Peer(f)] \in Nat BY Peers DEF OrderInv, Bounded
    <3> QED BY <1>1, <2>1, <3>2, <3>3, <3>4
  <2>2. CASE f # e
    <3>1. taken'[f] = taken[f] BY <1>1, <2>2
    <3> QED BY <3>1 DEF OrderInv, TakenOK
  <2> QED BY <2>1, <2>2
<1> QED BY <1>3, <1>4, <1>5, <1>6 DEF OrderInv

THEOREM OrderInvariant == ReliableSpec => []OrderInv
<1>1. ReliableInit => OrderInv
  <2> SUFFICES ASSUME ReliableInit PROVE OrderInv
    OBVIOUS
  <2>1. ReliableTypeOK
    BY ReliableBounds DEF ReliableInit, ReliableTypeOK, PacketId
  <2>2. Bounded /\ Genuine
    BY Numbers DEF ReliableInit, Bounded, Genuine
  <2>3. TakenOK BY Peers DEF ReliableInit, TakenOK
  <2> QED BY <2>1, <2>2, <2>3 DEF OrderInv
<1>2. OrderInv /\ [ReliableNext]_reliableVars => OrderInv'
  <2> SUFFICES ASSUME OrderInv, [ReliableNext]_reliableVars PROVE OrderInv'
    OBVIOUS
  <2>1. ASSUME NEW e \in Ends, EndStep(e) PROVE OrderInv'
    BY <2>1, HandOverKeeps, DueKeeps, SendKeeps, TakeOutKeeps DEF EndStep
  <2>2. ASSUME NEW p \in net, Receive(p) \/ Duplicate(p) \/ Lose(p) PROVE OrderInv'
    BY <2>2, NetworkKeeps
  <2>3. CASE UNCHANGED reliableVars
    BY <2>3 DEF reliableVars, OrderInv, ReliableTypeOK, Bounded, Genuine, TakenOK
  <2> QED BY <2>1, <2>2, <2>3 DEF ReliableNext
<1> QED BY <1>1, <1>2, PTL DEF ReliableSpec

\* The types of both ends' buffers and of the packets in flight.
THEOREM ReliableTypes == ReliableSpec => []ReliableTypeOK
<1>1. OrderInv => ReliableTypeOK BY DEF OrderInv
<1> QED BY <1>1, OrderInvariant, PTL

\* Whatever is lost, repeated or reordered, the TLS objects see an ordered and
\* gapless exchange in which each message comes once.
THEOREM DeliveredInOrder == ReliableSpec => DeliversInOrder
<1>1. ReliableInit => Ordered!OrderedInit
  BY DEF ReliableInit, Ordered!OrderedInit
<1>2. OrderInv /\ [ReliableNext]_reliableVars => [Ordered!OrderedNext]_<<handed, taken>>
  <2> SUFFICES ASSUME OrderInv, ReliableNext
               PROVE  Ordered!OrderedNext \/ UNCHANGED <<handed, taken>>
    BY DEF reliableVars
  <2>1. ASSUME NEW e \in Ends, HandOver(e) PROVE Ordered!OrderedNext
    <3>1. Ordered!HandOver(e) BY <2>1 DEF HandOver, Ordered!HandOver
    <3> QED BY <3>1 DEF Ordered!OrderedNext
  <2>2. ASSUME NEW e \in Ends, TakeOut(e) PROVE Ordered!OrderedNext
    <3>1. /\ Peer(e) \in Ends \ {e} /\ Len(taken[e]) < handed[Peer(e)]
          /\ taken' = [taken EXCEPT ![e] = Append(taken[e], Len(taken[e]))]
          /\ UNCHANGED handed
      BY <2>2, NextInOrder, Peers
    <3>2. Ordered!TakeOut(e) BY <3>1 DEF Ordered!TakeOut
    <3> QED BY <3>2 DEF Ordered!OrderedNext
  <2>3. ASSUME NEW e \in Ends, FallsDue(e) \/ SendControl(e) \/ SendAck(e)
        PROVE  UNCHANGED <<handed, taken>>
    BY <2>3 DEF FallsDue, SendControl, SendAck
  <2>4. ASSUME NEW p \in net, Receive(p) \/ Duplicate(p) \/ Lose(p)
        PROVE  UNCHANGED <<handed, taken>>
    BY <2>4 DEF Receive, Duplicate, Lose, Process
  <2> QED BY <2>1, <2>2, <2>3, <2>4 DEF ReliableNext, EndStep
<1> QED BY <1>1, <1>2, OrderInvariant, PTL
    DEF ReliableSpec, DeliversInOrder, Ordered!OrderedSpec

--------------------------------------------------------------------------------
(* What is acknowledged was received.                                      *)

\* An id to acknowledge, kept or on its way, is that of a message the end has.
AckedOK ==
    /\ \A e \in Ends : \A id \in ToSet(recAck[e]) : \E m \in Got(e) : IdOf(m) = id
    /\ \A p \in net : \A id \in p.acks : \E m \in Got(Peer(p.to)) : IdOf(m) = id

AckInv == OrderInv /\ AckedOK /\ AckedIsReceived

LEMMA GotTypes == ASSUME ReliableTypeOK, NEW e \in Ends PROVE Got(e) \subseteq Message
<1>1. taken[e] \in Seq(Message) /\ recBuf[e] \subseteq Message BY DEF ReliableTypeOK
<1>2. ToSet(taken[e]) \subseteq Message BY <1>1 DEF ToSet
<1> QED BY <1>1, <1>2 DEF Got

\* An end never loses a message it has.
LEMMA GotGrows ==
    ASSUME OrderInv, ReliableNext, NEW f \in Ends
    PROVE  Got(f) \subseteq Got(f)' /\ first' = first
<1>1. taken \in [Ends -> Seq(Message)] /\ recBuf \in [Ends -> SUBSET Message]
  BY DEF OrderInv, ReliableTypeOK
<1>2. ASSUME NEW e \in Ends, HandOver(e) \/ FallsDue(e) \/ SendControl(e) \/ SendAck(e)
      PROVE  UNCHANGED <<first, taken, recBuf>>
  BY <1>2 DEF HandOver, FallsDue, SendControl, SendAck
<1>3. ASSUME NEW e \in Ends, TakeOut(e)
      PROVE  Got(f) \subseteq Got(f)' /\ first' = first
  <2> DEFINE n == Len(taken[e])
  <2>1. /\ taken' = [taken EXCEPT ![e] = Append(taken[e], n)]
        /\ recBuf' = [recBuf EXCEPT ![e] = recBuf[e] \ {n}]
        /\ n \in recBuf[e] /\ first' = first
    BY <1>3, NextInOrder
  <2>2. n \in Message BY <1>1, <2>1
  <2> HIDE DEF n
  <2>3. CASE f = e
    <3>1. taken'[f] = Append(taken[f], n) /\ recBuf'[f] = recBuf[f] \ {n}
      BY <1>1, <2>1, <2>3
    <3>2. taken[f] \in Seq(Message) BY <1>1
    <3>3. ToSet(taken[f]) \subseteq ToSet(taken'[f]) /\ n \in ToSet(taken'[f])
      <4>1. /\ DOMAIN taken[f] = 1 .. Len(taken[f]) /\ Len(taken[f]) \in Nat
            /\ DOMAIN taken'[f] = 1 .. Len(taken[f]) + 1
            /\ taken'[f][Len(taken[f]) + 1] = n
            /\ \A i \in 1 .. Len(taken[f]) : taken'[f][i] = taken[f][i]
        BY <2>2, <3>1, <3>2
      <4>2. Len(taken[f]) + 1 \in DOMAIN taken'[f]
            /\ \A i \in DOMAIN taken[f] : i \in DOMAIN taken'[f]
                                          /\ taken'[f][i] = taken[f][i]
        BY <4>1
      <4> QED BY <4>1, <4>2, Zenon DEF ToSet
    <3> QED BY <2>1, <3>1, <3>3 DEF Got
  <2>4. CASE f # e
    <3>1. taken'[f] = taken[f] /\ recBuf'[f] = recBuf[f] BY <1>1, <2>1, <2>4
    <3> QED BY <2>1, <3>1 DEF Got
  <2> QED BY <2>3, <2>4
<1>4. ASSUME NEW p \in net, Receive(p) \/ Duplicate(p) \/ Lose(p)
      PROVE  UNCHANGED <<first, taken>> /\ recBuf[f] \subseteq recBuf'[f]
  <2>1. CASE Lose(p) BY <2>1 DEF Lose
  <2>2. CASE Process(p)
    <3>1. p.to \in Ends BY DEF OrderInv, ReliableTypeOK, Packet
    <3> QED BY <1>1, <2>2, <3>1 DEF Process
  <2> QED BY <1>4, <2>1, <2>2 DEF Receive, Duplicate
<1>5. CASE \E e \in Ends : EndStep(e) BY <1>2, <1>3, <1>5 DEF EndStep, Got
<1>6. CASE \E p \in net : Receive(p) \/ Duplicate(p) \/ Lose(p)
  BY <1>4, <1>6 DEF Got
<1> QED BY <1>5, <1>6 DEF ReliableNext

\* How far apart two ids are is how far apart their messages are.
LEMMA IdDistance ==
    ASSUME first \in PacketId, NEW m \in Nat, NEW n \in Nat,
           2 * m <= Modulus, 2 * n <= Modulus
    PROVE  (IdOf(m) - IdOf(n)) % Modulus = IF n <= m THEN m - n ELSE m - n + Modulus
<1>1. Modulus \in Nat /\ Modulus > 0 /\ first \in Nat /\ first < Modulus
  BY Numbers DEF PacketId
<1>2. first + m < 2 * Modulus /\ first + n < 2 * Modulus BY <1>1
<1> DEFINE a == first + m
           b == first + n
           c == IdOf(m)
           d == IdOf(n)
           k == IF n <= m THEN m - n ELSE m - n + Modulus
<1>3. c = IF a < Modulus THEN a ELSE a - Modulus BY <1>1, <1>2, Wrapped DEF IdOf
<1>4. d = IF b < Modulus THEN b ELSE b - Modulus BY <1>1, <1>2, Wrapped DEF IdOf
<1>5. a \in Nat /\ b \in Nat /\ a - b = m - n BY <1>1
<1>6. k \in Nat /\ k < Modulus BY <1>1
<1>7. c \in Int /\ d \in Int /\ c - d \in {k - Modulus, k, k + Modulus}
  <2> HIDE DEF a, b, c, d
  <2>1. c - d \in {a - b, a - b + Modulus, a - b - Modulus} BY <1>1, <1>3, <1>4, <1>5
  <2>2. c \in 0 .. Modulus - 1 /\ d \in 0 .. Modulus - 1
    BY <1>1, <1>2, <1>3, <1>4, <1>5 DEF a, b
  <2> QED BY <1>1, <1>5, <1>6, <2>1, <2>2
<1> HIDE DEF a, b, c, d, k
<1>8. \A i \in Int : i \in {k - Modulus, k, k + Modulus} => i % Modulus = k
  BY <1>1, <1>6
<1>9. (c - d) % Modulus = k BY <1>7, <1>8
<1> QED BY <1>9 DEF c, d, k

\* The order of ids is that of the messages, across the wrap as well.
LEMMA IdOrder ==
    ASSUME first \in PacketId, NEW m \in Nat, NEW n \in Nat,
           2 * m < Modulus, 2 * n <= Modulus, PidMin(IdOf(m), IdOf(n))
    PROVE  m < n
<1>1. Modulus \in Nat /\ Modulus \div 2 \in Nat /\ 2 * (Modulus \div 2) = Modulus
  BY ReliableSizes
<1>2. ~((IdOf(m) - IdOf(n)) % Modulus < Modulus \div 2) BY DEF PidMin, InRange1
<1>3. CASE n <= m
  <2>1. (IdOf(m) - IdOf(n)) % Modulus = m - n BY <1>1, <1>3, IdDistance
  <2> QED BY <1>1, <1>2, <2>1
<1> QED BY <1>3

\* The order of messages is that of their ids: the converse of IdOrder.
LEMMA OrderOfIds ==
    ASSUME first \in PacketId, NEW m \in Nat, NEW n \in Nat,
           2 * n <= Modulus, m < n
    PROVE  PidMin(IdOf(m), IdOf(n))
<1>1. Modulus \in Nat /\ Modulus \div 2 \in Nat /\ 2 * (Modulus \div 2) = Modulus
  BY ReliableSizes
<1>2. 2 * m <= Modulus BY <1>1
<1>3. (IdOf(m) - IdOf(n)) % Modulus = m - n + Modulus BY <1>2, IdDistance
<1>4. ~(m - n + Modulus < Modulus \div 2) BY <1>1
<1> QED BY <1>3, <1>4 DEF PidMin, InRange1

\* A message refused as a replay, and acknowledged all the same, is there.
LEMMA ReplayIsThere ==
    ASSUME OrderInv, NEW e \in Ends, NEW m \in Message, ~NotReplay(e, IdOf(m))
    PROVE  m \in Got(e)
<1> DEFINE n == Len(taken[e])
<1>1. /\ taken[e] \in Seq(Message) /\ n \in Nat /\ n <= handed[Peer(e)]
      /\ handed[Peer(e)] \in Nat /\ 2 * handed[Peer(e)] <= Modulus
      /\ m \in Nat /\ 2 * m < Modulus /\ Modulus \in Nat /\ first \in PacketId
  <2>1. /\ handed[Peer(e)] \in Nat /\ handed[Peer(e)] <= MaxHanded(Peer(e))
        /\ MaxHanded(Peer(e)) \in Nat /\ 2 * MaxHanded(Peer(e)) <= Modulus
        /\ Modulus \in Nat
    BY Numbers, Peers DEF OrderInv, Bounded
  <2>2. 2 * handed[Peer(e)] <= Modulus BY <2>1
  <2> QED BY <2>1, <2>2, Numbers DEF OrderInv, ReliableTypeOK, TakenOK
<1>2. CASE PidMin(IdOf(m), RecId(e))
  <2>1. 2 * n <= Modulus BY <1>1
  <2>2. m < n BY <1>1, <1>2, <2>1, IdOrder DEF RecId
  <2>3. m + 1 \in DOMAIN taken[e] /\ taken[e][m + 1] = m
    BY <1>1, <2>2 DEF OrderInv, TakenOK
  <2>4. m \in ToSet(taken[e]) BY <2>3, Zenon DEF ToSet
  <2> QED BY <2>4 DEF Got
<1>3. CASE ~PidMin(IdOf(m), RecId(e))
  <2>1. PICK k \in recBuf[e] : IdOf(k) = IdOf(m) BY <1>3 DEF NotReplay
  <2>2. k \in Message BY DEF OrderInv, ReliableTypeOK
  <2>3. k \in Nat /\ 2 * k <= Modulus /\ 2 * m <= Modulus BY <1>1, <2>2, Numbers
  <2>4. k = m BY <1>1, <2>1, <2>3, IdsDiffer
  <2> QED BY <2>4 DEF Got
<1> QED BY <1>2, <1>3

LEMMA ProcessAcks ==
    ASSUME OrderInv, AckedOK, NEW p \in net, Process(p),
           \A f \in Ends : Got(f) \subseteq Got(f)', first' = first
    PROVE  \A f \in Ends : \A id \in ToSet(recAck'[f]) : \E m \in Got(f)' : IdOf(m) = id
<1> DEFINE e == p.to
           new == IdOf(p.msg)
           taking == p.msg # NoMessage /\ CanGet(e) /\ WontBreakSequentiality(e, new)
<1>1. e \in Ends /\ p.msg \in Message \cup {NoMessage}
  BY DEF OrderInv, ReliableTypeOK, Packet
<1>2. /\ recBuf' = IF taking /\ NotReplay(e, new)
                   THEN [recBuf EXCEPT ![e] = recBuf[e] \cup {p.msg}] ELSE recBuf
      /\ IF taking THEN Acknowledge(e, new) ELSE UNCHANGED recAck
  BY DEF Process
<1>3. taking => p.msg \in Message /\ p.msg \in Nat /\ new \in PacketId
  BY <1>1, Numbers, IdType DEF OrderInv, ReliableTypeOK
<1>4. taking => p.msg \in Got(e)'
  <2>1. CASE taking /\ NotReplay(e, new)
    <3>1. recBuf' = [recBuf EXCEPT ![e] = recBuf[e] \cup {p.msg}] BY <1>2, <2>1
    <3>2. p.msg \in recBuf'[e] BY <1>1, <3>1 DEF OrderInv, ReliableTypeOK
    <3> QED BY <3>2 DEF Got
  <2>2. CASE taking /\ ~NotReplay(e, new)
    <3>1. p.msg \in Got(e) BY <1>1, <1>3, <2>2, ReplayIsThere
    <3> QED BY <1>1, <3>1
  <2> QED BY <2>1, <2>2
<1>5. \A f \in Ends : \A id \in ToSet(recAck'[f]) :
          id \in ToSet(recAck[f]) \/ (taking /\ f = e /\ id = new)
  <2>1. CASE taking
    <3>1. ReliableTypeOK /\ Acknowledge(e, new) /\ new \in PacketId
      BY <1>2, <1>3, <2>1 DEF OrderInv
    <3>2. /\ \A f \in Ends : f # e => recAck'[f] = recAck[f]
          /\ ToSet(recAck'[e]) \subseteq ToSet(recAck[e]) \cup {new}
      BY <1>1, <3>1, AcknowledgeTypes
    <3> QED BY <2>1, <3>2
  <2>2. CASE ~taking BY <1>2, <2>2
  <2> QED BY <2>1, <2>2
<1> HIDE DEF taking, e
<1>6. ASSUME NEW f \in Ends, NEW id \in ToSet(recAck'[f])
      PROVE  \E m \in Got(f)' : IdOf(m) = id
  <2>1. CASE id \in ToSet(recAck[f])
    <3>1. PICK m \in Got(f) : IdOf(m) = id BY <2>1 DEF AckedOK
    <3> QED BY <3>1
  <2>2. CASE taking /\ f = e /\ id = new BY <1>4, <2>2
  <2> QED BY <1>5, <1>6, <2>1, <2>2
<1> QED BY <1>6

LEMMA AckedStep == ASSUME OrderInv, AckedOK, ReliableNext PROVE AckedOK'
<1>0. "client" \in Ends BY DEF Ends
<1>1. first' = first /\ \A f \in Ends : Got(f) \subseteq Got(f)' BY <1>0, GotGrows
<1>2. \A m : IdOf(m)' = IdOf(m) BY <1>1 DEF IdOf
<1>3. ASSUME \A f \in Ends : \A id \in ToSet(recAck'[f]) :
                 \E m \in Got(f)' : IdOf(m) = id,
             \A p \in net' : p \in net \/ (p.to \in Ends /\ p.acks \subseteq ToSet(recAck[Peer(p.to)]))
      PROVE  AckedOK'
  <2>1. ASSUME NEW p \in net', NEW id \in p.acks
        PROVE  \E m \in Got(Peer(p.to))' : IdOf(m) = id
    <3>1. p.to \in Ends BY <1>3, <2>1 DEF OrderInv, ReliableTypeOK, Packet
    <3>2. Peer(p.to) \in Ends BY <3>1, Peers
    <3>3. \E m \in Got(Peer(p.to)) : IdOf(m) = id BY <1>3, <2>1, <3>2 DEF AckedOK
    <3> QED BY <1>1, <3>2, <3>3
  <2> QED BY <1>2, <1>3, <2>1 DEF AckedOK
<1>4. ASSUME UNCHANGED recAck PROVE \A f \in Ends : \A id \in ToSet(recAck'[f]) :
                 \E m \in Got(f)' : IdOf(m) = id
  BY <1>1, <1>4 DEF AckedOK
<1>5. ASSUME NEW e \in Ends, HandOver(e) \/ FallsDue(e) \/ TakeOut(e) PROVE AckedOK'
  <2>1. UNCHANGED <<recAck, net>> BY <1>5 DEF HandOver, FallsDue, TakeOut
  <2> QED BY <1>3, <1>4, <2>1
<1>6. ASSUME NEW e \in Ends, NEW max \in Nat,
             recAck' = [recAck EXCEPT ![e] = AcksLeft(e, max)],
             NEW msg, net' = net \cup {[to |-> Peer(e), msg |-> msg, acks |-> AcksFor(e, max)]}
      PROVE  AckedOK'
  <2>1. /\ AcksFor(e, max) \subseteq ToSet(recAck[e])
        /\ ToSet(AcksLeft(e, max)) \subseteq ToSet(recAck[e])
    BY AckTypes DEF OrderInv
  <2>2. \A f \in Ends : ToSet(recAck'[f]) \subseteq ToSet(recAck[f])
    <3> SUFFICES ASSUME NEW f \in Ends
                 PROVE  ToSet(recAck'[f]) \subseteq ToSet(recAck[f])
      OBVIOUS
    <3>1. CASE f = e
      <4>1. recAck'[f] = AcksLeft(e, max)
        BY <1>6, <3>1 DEF OrderInv, ReliableTypeOK
      <4> QED BY <2>1, <3>1, <4>1
    <3>2. CASE f # e
      <4>1. recAck'[f] = recAck[f] BY <1>6, <3>2 DEF OrderInv, ReliableTypeOK
      <4> QED BY <4>1
    <3> QED BY <3>1, <3>2
  <2>3. \A f \in Ends : \A id \in ToSet(recAck'[f]) : \E m \in Got(f)' : IdOf(m) = id
    BY <1>1, <2>2 DEF AckedOK
  <2>4. \A p \in net' : p \in net \/ (p.to \in Ends /\ p.acks \subseteq ToSet(recAck[Peer(p.to)]))
    BY <1>6, <2>1, Peers
  <2> QED BY <1>3, <2>3, <2>4
<1>7. ASSUME NEW e \in Ends, SendControl(e) PROVE AckedOK'
  <2>1. SendAckMax \in Nat BY ReliableSizes
  <2> QED BY <1>6, <1>7, <2>1 DEF SendControl, Put
<1>8. ASSUME NEW e \in Ends, SendAck(e) PROVE AckedOK'
  <2>1. AckSize \in Nat BY ReliableSizes
  <2> QED BY <1>6, <1>8, <2>1 DEF SendAck, Put
<1>9. ASSUME NEW p \in net, Receive(p) \/ Duplicate(p) \/ Lose(p) PROVE AckedOK'
  <2>1. net' \subseteq net BY <1>9 DEF Receive, Duplicate, Lose
  <2>2. CASE Lose(p)
    <3>1. UNCHANGED recAck BY <2>2 DEF Lose
    <3> QED BY <1>3, <1>4, <2>1, <3>1
  <2>3. CASE Process(p)
    <3>1. \A f \in Ends : \A id \in ToSet(recAck'[f]) : \E m \in Got(f)' : IdOf(m) = id
      BY <1>1, <2>3, ProcessAcks
    <3> QED BY <1>3, <2>1, <3>1
  <2> QED BY <1>9, <2>2, <2>3 DEF Receive, Duplicate
<1> QED BY <1>5, <1>7, <1>8, <1>9 DEF ReliableNext, EndStep

LEMMA ReceivedStep == ASSUME AckInv, ReliableNext PROVE AckedIsReceived'
<1> DEFINE Waiting(e) == {x.msg : x \in sendBuf[e]}
<1>1. /\ sendBuf \in [Ends -> SUBSET Entry] /\ handed \in [Ends -> Nat]
      /\ \A e \in Ends : Peer(e) \in Ends
  BY Peers DEF AckInv, OrderInv, ReliableTypeOK
<1>2. \A f \in Ends : Got(f) \subseteq Got(f)' BY GotGrows DEF AckInv
<1>3. ASSUME \A e \in Ends : \A msg \in 0 .. handed'[e] - 1 :
                 \/ msg \in 0 .. handed[e] - 1 /\ msg \notin Waiting(e)
                 \/ msg \in Waiting(e)'
                 \/ msg \in Got(Peer(e))'
      PROVE  AckedIsReceived'
  BY <1>1, <1>2, <1>3 DEF AckInv, AckedIsReceived
<1>4. ASSUME NEW e \in Ends, HandOver(e) PROVE AckedIsReceived'
  <2> DEFINE new == [msg |-> handed[e], due |-> TRUE]
  <2>1. /\ handed' = [handed EXCEPT ![e] = handed[e] + 1]
        /\ sendBuf' = [sendBuf EXCEPT ![e] = sendBuf[e] \cup {new}]
    BY <1>4 DEF HandOver
  <2>2. new.msg = handed[e] OBVIOUS
  <2> HIDE DEF new
  <2>3. \A f \in Ends : /\ Waiting(f) \subseteq Waiting(f)'
                        /\ f = e => handed[e] \in Waiting(f)'
    BY <1>1, <2>1, <2>2
  <2>4. \A f \in Ends : \A msg \in 0 .. handed'[f] - 1 :
            msg \in 0 .. handed[f] - 1 \/ (f = e /\ msg = handed[e])
    BY <1>1, <2>1
  <2> HIDE DEF Waiting
  <2> QED BY <1>3, <2>3, <2>4
<1>5. ASSUME NEW e \in Ends, NEW x \in sendBuf[e], NEW due \in BOOLEAN,
             sendBuf' = [sendBuf EXCEPT ![e] =
                 (sendBuf[e] \ {x}) \cup {[x EXCEPT !.due = due]}],
             handed' = handed
      PROVE  AckedIsReceived'
  <2>1. [x EXCEPT !.due = due].msg = x.msg BY <1>1 DEF Entry
  <2>2. \A f \in Ends : Waiting(f) \subseteq Waiting(f)' BY <1>1, <1>5, <2>1
  <2> HIDE DEF Waiting
  <2> QED BY <1>3, <1>5, <2>2
<1>6. ASSUME NEW e \in Ends, FallsDue(e) PROVE AckedIsReceived'
  BY <1>5, <1>6 DEF FallsDue
<1>7. ASSUME NEW e \in Ends, SendControl(e) PROVE AckedIsReceived'
  BY <1>5, <1>7 DEF SendControl, Due
<1>8. ASSUME UNCHANGED <<sendBuf, handed>> PROVE AckedIsReceived'
  BY <1>3, <1>8
<1>9. ASSUME NEW e \in Ends, SendAck(e) \/ TakeOut(e) PROVE AckedIsReceived'
  BY <1>8, <1>9 DEF SendAck, TakeOut
<1>10. ASSUME NEW p \in net, Process(p) PROVE AckedIsReceived'
  <2> DEFINE e == p.to
  <2>1. /\ sendBuf' = [sendBuf EXCEPT ![e] =
               {x \in sendBuf[e] : IdOf(x.msg) \notin p.acks}]
        /\ handed' = handed
    BY <1>10 DEF Process
  <2>2. e \in Ends BY DEF AckInv, OrderInv, ReliableTypeOK, Packet
  <2>3. ASSUME NEW x \in sendBuf[e], IdOf(x.msg) \in p.acks
        PROVE  x.msg \in Got(Peer(e))
    <3>1. PICK m \in Got(Peer(e)) : IdOf(m) = IdOf(x.msg)
      BY <2>3 DEF AckInv, AckedOK
    <3>2. m \in Message /\ x.msg \in Message /\ first \in PacketId
      BY <1>1, <2>2, <3>1, GotTypes DEF AckInv, OrderInv, ReliableTypeOK, Entry
    <3>3. m \in Nat /\ 2 * m <= Modulus /\ x.msg \in Nat /\ 2 * x.msg <= Modulus
      <4>1. m \in Nat /\ 2 * m < Modulus /\ x.msg \in Nat /\ 2 * x.msg < Modulus
            /\ Modulus \in Nat
        BY <3>2, Numbers
      <4> QED BY <4>1
    <3>4. m = x.msg BY <3>1, <3>2, <3>3, IdsDiffer
    <3> QED BY <3>1, <3>4
  <2>4. \A f \in Ends : \A msg \in Waiting(f) :
            msg \in Waiting(f)' \/ msg \in Got(Peer(f))
    BY <1>1, <2>1, <2>2, <2>3
  <2> HIDE DEF Waiting
  <2> QED BY <1>1, <1>2, <1>3, <2>1, <2>4
<1>11. ASSUME NEW p \in net, Receive(p) \/ Duplicate(p) \/ Lose(p)
       PROVE  AckedIsReceived'
  BY <1>8, <1>10, <1>11 DEF Receive, Duplicate, Lose
<1> QED BY <1>4, <1>6, <1>7, <1>9, <1>11 DEF ReliableNext, EndStep

LEMMA AckInvariant == ReliableSpec => []AckInv
<1>1. ReliableInit => AckedOK /\ AckedIsReceived
  <2> SUFFICES ASSUME ReliableInit PROVE AckedOK /\ AckedIsReceived
    OBVIOUS
  <2>1. /\ net = {} /\ \A e \in Ends : recAck[e] = <<>> /\ handed[e] = 0
    BY DEF ReliableInit
  <2>2. ToSet(<<>>) = {} BY DEF ToSet
  <2> QED BY <2>1, <2>2 DEF AckedOK, AckedIsReceived
<1>2. OrderInv /\ AckedOK /\ AckedIsReceived /\ [ReliableNext]_reliableVars
          => (AckedOK /\ AckedIsReceived)'
  <2>1. CASE UNCHANGED reliableVars
    BY <2>1 DEF reliableVars, AckedOK, AckedIsReceived, Got, IdOf
  <2>2. CASE ReliableNext BY <2>2, AckedStep, ReceivedStep DEF AckInv
  <2> QED BY <2>1, <2>2
<1> QED BY <1>1, <1>2, OrderInvariant, PTL DEF ReliableSpec, AckInv

\* Nothing is acknowledged, and so forgotten by its sender, before the other end
\* has it, whatever is lost, repeated, reordered or sent again.
THEOREM AcknowledgedIsThere == ReliableSpec => []AckedIsReceived
<1>1. AckInv => AckedIsReceived BY DEF AckInv
<1> QED BY <1>1, AckInvariant, PTL

--------------------------------------------------------------------------------
(* The windows.                                                            *)

\* Nothing an end still keeps is SendBuffers messages old or older, and what waits
\* to be taken is not behind what was.
SendWindow ==
    \A e \in Ends : \A x \in sendBuf[e] : handed[e] - x.msg <= SendBuffers
RecAhead == \A e \in Ends : \A m \in recBuf[e] : m >= Len(taken[e])

WindowInv == SendWindow /\ RecAhead

LEMMA Smallest ==
    ASSUME NEW S \in SUBSET Nat, S # {}
    PROVE  \E m \in S : \A n \in S : m <= n
<1> DEFINE below == OpToRel(<, Nat)
<1>1. IsWellFoundedOn(below, Nat) BY NatLessThanWellFounded
<1>2. \A m, n \in Nat : m < n => <<m, n>> \in below BY DEF OpToRel
<1> HIDE DEF below
<1>3. PICK m \in S : \A n \in S : <<n, m>> \notin below BY <1>1, WFMin
<1>4. \A n \in S : ~(n < m) BY <1>2, <1>3
<1>5. \A n \in S : m <= n BY <1>4
<1> QED BY <1>5

\* The lowest id of a send buffer is that of its oldest message.
LEMMA LowestIsOldest ==
    ASSUME first \in PacketId, NEW entries \in SUBSET Entry, entries # {}
    PROVE  \E x \in entries :
               /\ LowestId(IdsIn(entries)) = IdOf(x.msg)
               /\ \A y \in entries : x.msg <= y.msg
<1>1. \A x \in entries : x.msg \in Nat /\ 2 * x.msg < Modulus /\ 2 * x.msg <= Modulus
  <2> SUFFICES ASSUME NEW x \in entries
               PROVE  x.msg \in Nat /\ 2 * x.msg < Modulus /\ 2 * x.msg <= Modulus
    OBVIOUS
  <2>1. x.msg \in Message BY DEF Entry
  <2>2. x.msg \in Nat /\ 2 * x.msg < Modulus /\ Modulus \in Nat BY <2>1, Numbers
  <2> QED BY <2>2
<1>2. PICK x \in entries : \A y \in entries : x.msg <= y.msg
  <2> DEFINE msgs == {y.msg : y \in entries}
  <2>1. msgs \in SUBSET Nat /\ msgs # {} BY <1>1
  <2>2. PICK m \in msgs : \A n \in msgs : m <= n BY <2>1, Smallest
  <2> QED BY <2>2
<1> DEFINE ids == IdsIn(entries)
           Low(p) == p \in ids /\ \A q \in ids : p = q \/ PidMin(p, q)
<1>3. Low(IdOf(x.msg))
  <2>1. IdOf(x.msg) \in ids BY DEF IdsIn
  <2>2. ASSUME NEW q \in ids PROVE IdOf(x.msg) = q \/ PidMin(IdOf(x.msg), q)
    <3>1. PICK y \in entries : q = IdOf(y.msg) BY DEF IdsIn
    <3>2. x.msg \in Nat /\ y.msg \in Nat /\ x.msg <= y.msg /\ 2 * y.msg <= Modulus
      BY <1>1, <1>2
    <3>3. CASE x.msg = y.msg BY <3>1, <3>3
    <3>4. CASE x.msg # y.msg
      <4>1. x.msg < y.msg BY <3>2, <3>4
      <4> QED BY <3>1, <3>2, <4>1, OrderOfIds
    <3> QED BY <3>3, <3>4
  <2> QED BY <2>1, <2>2
<1>4. Low(LowestId(ids))
  <2> HIDE DEF ids
  <2> QED BY <1>3, Zenon DEF LowestId
<1>5. PICK z \in entries : LowestId(ids) = IdOf(z.msg) BY <1>4 DEF IdsIn
<1>6. IdOf(z.msg) = IdOf(x.msg) \/ PidMin(IdOf(z.msg), IdOf(x.msg))
  BY <1>3, <1>4, <1>5
<1>7. z.msg <= x.msg
  <2>1. /\ x.msg \in Nat /\ 2 * x.msg <= Modulus
        /\ z.msg \in Nat /\ 2 * z.msg < Modulus /\ 2 * z.msg <= Modulus
    BY <1>1
  <2>2. CASE IdOf(z.msg) = IdOf(x.msg)
    <3>1. z.msg = x.msg BY <2>1, <2>2, IdsDiffer
    <3> QED BY <2>1, <3>1
  <2>3. CASE PidMin(IdOf(z.msg), IdOf(x.msg))
    <3>1. z.msg < x.msg BY <2>1, <2>3, IdOrder
    <3> QED BY <2>1, <3>1
  <2> QED BY <1>6, <2>2, <2>3
<1>8. \A y \in entries : z.msg <= y.msg BY <1>1, <1>2, <1>7
<1> QED BY <1>5, <1>8

\* What the guard of HandOver reads is how old the oldest message is.
LEMMA RoomToHandOver ==
    ASSUME OrderInv, NEW e \in Ends, CanHandOver(e), NEW x \in sendBuf[e]
    PROVE  handed[e] - x.msg < SendBuffers
<1>1. /\ sendBuf[e] \in SUBSET Entry /\ first \in PacketId
      /\ handed[e] \in Nat /\ 2 * handed[e] <= Modulus /\ Modulus \in Nat
  <2>1. /\ handed[e] \in Nat /\ handed[e] <= MaxHanded(e) /\ Modulus \in Nat
        /\ MaxHanded(e) \in Nat /\ 2 * MaxHanded(e) <= Modulus
    BY Numbers DEF OrderInv, Bounded
  <2>2. 2 * handed[e] <= Modulus BY <2>1
  <2> QED BY <2>1, <2>2 DEF OrderInv, ReliableTypeOK
<1>2. PICK y \in sendBuf[e] : /\ LowestId(IdsIn(sendBuf[e])) = IdOf(y.msg)
                              /\ \A z \in sendBuf[e] : y.msg <= z.msg
  BY <1>1, LowestIsOldest
<1>3. (IdOf(handed[e]) - IdOf(y.msg)) % Modulus < SendBuffers
  BY <1>2 DEF CanHandOver, InRange1, SendId
<1>4. /\ y.msg \in Nat /\ 2 * y.msg <= Modulus /\ y.msg < handed[e]
      /\ x.msg \in Nat /\ y.msg <= x.msg
  <2>1. y.msg \in Message /\ x.msg \in Message /\ y.msg < handed[e]
    BY <1>1 DEF Entry, OrderInv, Genuine
  <2>2. y.msg \in Nat /\ 2 * y.msg < Modulus /\ x.msg \in Nat BY <2>1, Numbers
  <2> QED BY <1>1, <1>2, <2>1, <2>2
<1>5. (IdOf(handed[e]) - IdOf(y.msg)) % Modulus = handed[e] - y.msg
  BY <1>1, <1>4, IdDistance
<1> QED BY <1>1, <1>3, <1>4, <1>5, ReliableSizes

LEMMA SendWindowStep == ASSUME OrderInv, SendWindow, ReliableNext PROVE SendWindow'
<1>1. /\ sendBuf \in [Ends -> SUBSET Entry] /\ handed \in [Ends -> Nat]
      /\ SendBuffers \in Nat /\ SendBuffers > 0
      /\ \A f \in Ends : \A x \in sendBuf[f] : x.msg \in Nat
  BY ReliableSizes, Numbers DEF OrderInv, ReliableTypeOK, Entry
<1>2. ASSUME UNCHANGED handed,
             \A f \in Ends : \A x \in sendBuf'[f] : \E y \in sendBuf[f] : x.msg = y.msg
      PROVE  SendWindow'
  BY <1>2 DEF SendWindow
<1>3. ASSUME NEW e \in Ends, HandOver(e) PROVE SendWindow'
  <2> DEFINE new == [msg |-> handed[e], due |-> TRUE]
  <2>1. /\ handed' = [handed EXCEPT ![e] = handed[e] + 1]
        /\ sendBuf' = [sendBuf EXCEPT ![e] = sendBuf[e] \cup {new}]
        /\ CanHandOver(e)
    BY <1>3 DEF HandOver
  <2>2. new.msg = handed[e] OBVIOUS
  <2> HIDE DEF new
  <2> SUFFICES ASSUME NEW f \in Ends, NEW x \in sendBuf'[f]
               PROVE  handed'[f] - x.msg <= SendBuffers
    BY DEF SendWindow
  <2>3. CASE f # e
    <3>1. handed'[f] = handed[f] /\ x \in sendBuf[f] BY <1>1, <2>1, <2>3
    <3> QED BY <3>1 DEF SendWindow
  <2>4. CASE f = e
    <3>1. handed'[f] = handed[e] + 1 /\ x \in sendBuf[e] \cup {new} BY <1>1, <2>1, <2>4
    <3>2. CASE x = new BY <1>1, <2>2, <3>1, <3>2
    <3>3. CASE x \in sendBuf[e]
      <4>1. handed[e] - x.msg < SendBuffers BY <2>1, <3>3, RoomToHandOver
      <4> QED BY <1>1, <3>1, <3>3, <4>1
    <3> QED BY <3>1, <3>2, <3>3
  <2> QED BY <2>3, <2>4
<1>4. ASSUME NEW e \in Ends, NEW x \in sendBuf[e], NEW due \in BOOLEAN, UNCHANGED handed,
             sendBuf' = [sendBuf EXCEPT ![e] =
                 (sendBuf[e] \ {x}) \cup {[x EXCEPT !.due = due]}]
      PROVE  SendWindow'
  <2>1. [x EXCEPT !.due = due].msg = x.msg BY <1>1 DEF Entry
  <2> QED BY <1>1, <1>2, <1>4, <2>1
<1>5. ASSUME NEW e \in Ends, FallsDue(e) PROVE SendWindow' BY <1>4, <1>5 DEF FallsDue
<1>6. ASSUME NEW e \in Ends, SendControl(e) PROVE SendWindow'
  BY <1>4, <1>6 DEF SendControl, Due
<1>7. ASSUME UNCHANGED <<handed, sendBuf>> PROVE SendWindow' BY <1>2, <1>7
<1>8. ASSUME NEW e \in Ends, SendAck(e) \/ TakeOut(e) PROVE SendWindow'
  BY <1>7, <1>8 DEF SendAck, TakeOut
<1>9. ASSUME NEW p \in net, Process(p) PROVE SendWindow'
  <2>1. p.to \in Ends BY DEF OrderInv, ReliableTypeOK, Packet
  <2>2. \A f \in Ends : sendBuf'[f] \subseteq sendBuf[f] BY <1>1, <1>9, <2>1 DEF Process
  <2> QED BY <1>2, <1>9, <2>2 DEF Process
<1>10. ASSUME NEW p \in net, Receive(p) \/ Duplicate(p) \/ Lose(p) PROVE SendWindow'
  BY <1>7, <1>9, <1>10 DEF Receive, Duplicate, Lose
<1> QED BY <1>3, <1>5, <1>6, <1>8, <1>10 DEF ReliableNext, EndStep

LEMMA RecAheadStep == ASSUME OrderInv, RecAhead, ReliableNext PROVE RecAhead'
<1>1. /\ recBuf \in [Ends -> SUBSET Message] /\ taken \in [Ends -> Seq(Message)]
      /\ first \in PacketId /\ \A m \in Message : m \in Nat
      /\ \A f \in Ends : Len(taken[f]) \in Nat /\ 2 * Len(taken[f]) <= Modulus
  <2>1. ASSUME NEW f \in Ends PROVE Len(taken[f]) \in Nat /\ 2 * Len(taken[f]) <= Modulus
    <3>1. /\ Len(taken[f]) \in Nat /\ Len(taken[f]) <= handed[Peer(f)]
          /\ handed[Peer(f)] \in Nat /\ handed[Peer(f)] <= MaxHanded(Peer(f))
          /\ MaxHanded(Peer(f)) \in Nat /\ 2 * MaxHanded(Peer(f)) <= Modulus
          /\ Modulus \in Nat
      BY Numbers, Peers DEF OrderInv, ReliableTypeOK, TakenOK, Bounded
    <3> QED BY <3>1
  <2> QED BY <2>1, Numbers DEF OrderInv, ReliableTypeOK
<1>2. ASSUME UNCHANGED <<recBuf, taken>> PROVE RecAhead' BY <1>2 DEF RecAhead
<1>3. ASSUME NEW e \in Ends, TakeOut(e) PROVE RecAhead'
  <2> DEFINE n == Len(taken[e])
  <2>1. /\ taken' = [taken EXCEPT ![e] = Append(taken[e], n)]
        /\ recBuf' = [recBuf EXCEPT ![e] = recBuf[e] \ {n}]
    BY <1>3, NextInOrder
  <2>2. n \in Message BY <1>1, <1>3, NextInOrder
  <2> SUFFICES ASSUME NEW f \in Ends, NEW m \in recBuf'[f] PROVE m >= Len(taken'[f])
    BY DEF RecAhead
  <2>3. CASE f # e
    <3>1. taken'[f] = taken[f] /\ m \in recBuf[f]
      <4> HIDE DEF n
      <4> QED BY <1>1, <2>1, <2>3
    <3> QED BY <3>1 DEF RecAhead
  <2>4. CASE f = e
    <3>1. taken'[f] = Append(taken[e], n) /\ m \in recBuf[e] /\ m # n
      <4> HIDE DEF n
      <4> QED BY <1>1, <2>1, <2>4
    <3>2. Len(taken'[f]) = n + 1 BY <1>1, <2>2, <3>1
    <3>3. m >= n /\ m \in Nat /\ n \in Nat BY <1>1, <3>1 DEF RecAhead
    <3> HIDE DEF n
    <3> QED BY <3>1, <3>2, <3>3
  <2> QED BY <2>3, <2>4
<1>4. ASSUME NEW p \in net, Process(p) PROVE RecAhead'
  <2> DEFINE e == p.to
             id == IdOf(p.msg)
             taking == p.msg # NoMessage /\ CanGet(e) /\ WontBreakSequentiality(e, id)
  <2>1. e \in Ends /\ p.msg \in Message \cup {NoMessage}
    BY DEF OrderInv, ReliableTypeOK, Packet
  <2>2. /\ recBuf' = IF taking /\ NotReplay(e, id)
                     THEN [recBuf EXCEPT ![e] = recBuf[e] \cup {p.msg}] ELSE recBuf
        /\ UNCHANGED taken
    BY <1>4 DEF Process
  <2>3. taking /\ NotReplay(e, id) => p.msg >= Len(taken[e])
    <3> SUFFICES ASSUME p.msg # NoMessage, ~PidMin(id, RecId(e))
                 PROVE  p.msg >= Len(taken[e])
      BY DEF NotReplay
    <3>1. p.msg \in Nat /\ Len(taken[e]) \in Nat /\ 2 * Len(taken[e]) <= Modulus
      BY <1>1, <2>1
    <3>2. ~(p.msg < Len(taken[e])) BY <1>1, <3>1, OrderOfIds DEF RecId
    <3> QED BY <3>1, <3>2
  <2> HIDE DEF taking, id
  <2>4. \A f \in Ends : \A m \in recBuf'[f] :
            m \in recBuf[f] \/ (f = e /\ m = p.msg /\ taking /\ NotReplay(e, id))
    BY <1>1, <2>1, <2>2
  <2> HIDE DEF e
  <2> QED BY <2>2, <2>3, <2>4 DEF RecAhead
<1>5. ASSUME NEW e \in Ends, HandOver(e) \/ FallsDue(e) \/ SendControl(e) \/ SendAck(e)
      PROVE  RecAhead'
  BY <1>2, <1>5 DEF HandOver, FallsDue, SendControl, SendAck
<1>6. ASSUME NEW p \in net, Receive(p) \/ Duplicate(p) \/ Lose(p) PROVE RecAhead'
  BY <1>2, <1>4, <1>6 DEF Receive, Duplicate, Lose
<1> QED BY <1>3, <1>5, <1>6 DEF ReliableNext, EndStep

LEMMA WindowInvariant == ReliableSpec => []WindowInv
<1>1. ReliableInit => WindowInv
  BY DEF ReliableInit, WindowInv, SendWindow, RecAhead
<1>2. OrderInv /\ WindowInv /\ [ReliableNext]_reliableVars => WindowInv'
  <2>1. CASE UNCHANGED reliableVars
    BY <2>1 DEF reliableVars, WindowInv, SendWindow, RecAhead
  <2>2. CASE ReliableNext BY <2>2, SendWindowStep, RecAheadStep DEF WindowInv
  <2> QED BY <2>1, <2>2
<1> QED BY <1>1, <1>2, OrderInvariant, PTL DEF ReliableSpec

\* Ids never wrap into one another in a buffer, and what an end keeps for sending
\* again spans no more than the send buffers, though entries are acknowledged in
\* any order.
THEOREM WindowHolds == ReliableSpec => []Window
<1>1. OrderInv /\ WindowInv => Window
  <2> SUFFICES ASSUME OrderInv, WindowInv, NEW e \in Ends
               PROVE  /\ \A x, y \in sendBuf[e] : x.msg # y.msg => IdOf(x.msg) # IdOf(y.msg)
                      /\ \A x, y \in sendBuf[e] : x.msg - y.msg < SendBuffers
                      /\ \A m, n \in recBuf[e] : m # n => IdOf(m) # IdOf(n)
    BY DEF Window
  <2>1. /\ first \in PacketId /\ handed[e] \in Nat /\ SendBuffers \in Nat
        /\ \A m \in recBuf[e] : m \in Message
        /\ \A x \in sendBuf[e] : x.msg \in Message /\ x.msg < handed[e]
    BY ReliableSizes DEF OrderInv, ReliableTypeOK, Genuine, Entry
  <2>2. \A m \in Message : m \in Nat /\ 2 * m <= Modulus
    <3>1. \A m \in Message : m \in Nat /\ 2 * m < Modulus /\ Modulus \in Nat BY Numbers
    <3> QED BY <3>1
  <2>3. \A m, n \in Message : IdOf(m) = IdOf(n) => m = n BY <2>1, <2>2, IdsDiffer
  <2>4. \A x, y \in sendBuf[e] : x.msg - y.msg < SendBuffers
    BY <2>1, <2>2 DEF WindowInv, SendWindow
  <2> QED BY <2>1, <2>3, <2>4
<1> QED BY <1>1, OrderInvariant, WindowInvariant, PTL

\* A full receive buffer holds the message the TLS object waits for, so the
\* exchange cannot stop for want of buffers.
THEOREM FullReceiveIsNotStuck == ReliableSpec => []FullIsNotStuck
<1>1. AckInv /\ WindowInv => FullIsNotStuck
  <2> SUFFICES ASSUME AckInv, WindowInv, NEW e \in Ends, ~CanGet(e),
                      Len(taken[e]) \notin recBuf[e]
               PROVE  FALSE
    BY DEF FullIsNotStuck, RecId
  <2> DEFINE n == Len(taken[e])
             sent == handed[Peer(e)]
             rest == (n + 1) .. (sent - 1)
  <2>1. /\ recBuf[e] \subseteq Message /\ taken[e] \in Seq(Message)
        /\ \A m \in Message : m \in Nat
        /\ n \in Nat /\ sent \in Nat /\ Peer(e) \in Ends /\ Peer(Peer(e)) = e
        /\ SendBuffers \in Nat /\ RecBuffers \in Nat /\ RecBuffers > 0
        /\ SendBuffers <= RecBuffers
    BY ReliableSizes, RoomForWindow, Numbers, Peers DEF AckInv, OrderInv, ReliableTypeOK
  <2>2. recBuf[e] \subseteq rest
    <3> SUFFICES ASSUME NEW m \in recBuf[e] PROVE m \in rest
      OBVIOUS
    <3>1. m \in Nat /\ m >= n /\ m < sent /\ m # n
      BY <2>1 DEF AckInv, OrderInv, Genuine, WindowInv, RecAhead
    <3> HIDE DEF n, sent
    <3> QED BY <2>1, <3>1
  <2>3. n < sent => sent - n <= SendBuffers
    <3> SUFFICES ASSUME n < sent PROVE sent - n <= SendBuffers
      OBVIOUS
    <3>1. n \notin Got(e)
      <4>1. \A i \in 1 .. Len(taken[e]) : taken[e][i] = i - 1
        BY DEF AckInv, OrderInv, TakenOK
      <4>2. n \notin ToSet(taken[e]) BY <2>1, <4>1 DEF ToSet
      <4> QED BY <4>2 DEF Got
    <3>2. n \in 0 .. sent - 1
      <4> HIDE DEF n, sent
      <4> QED BY <2>1
    <3>3. PICK x \in sendBuf[Peer(e)] : x.msg = n
      BY <2>1, <3>1, <3>2 DEF AckInv, AckedIsReceived
    <3> QED BY <2>1, <3>3 DEF WindowInv, SendWindow
  <2> HIDE DEF n, sent
  <2>4. IsFiniteSet(rest) /\ Cardinality(rest) < RecBuffers
    <3>1. /\ IsFiniteSet(rest)
          /\ Cardinality(rest) = IF n + 1 > sent - 1 THEN 0 ELSE (sent - 1) - (n + 1) + 1
      BY <2>1, FS_Interval
    <3> QED BY <2>1, <2>3, <3>1
  <2> HIDE DEF rest
  <2>5. IsFiniteSet(recBuf[e]) /\ Cardinality(recBuf[e]) <= Cardinality(rest)
    BY <2>2, <2>4, FS_Subset
  <2>6. Cardinality(recBuf[e]) \in Nat /\ Cardinality(rest) \in Nat
    BY <2>4, <2>5, FS_CardinalityType
  <2>7. Cardinality(recBuf[e]) < RecBuffers BY <2>1, <2>4, <2>5, <2>6
  <2> QED BY <2>7 DEF CanGet
<1> QED BY <1>1, AckInvariant, WindowInvariant, PTL
================================================================================
