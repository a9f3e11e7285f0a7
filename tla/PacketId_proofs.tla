----------------------------- MODULE PacketId_proofs ---------------------------
(***************************************************************************)
(* No identifier is accepted twice, for every size of the window, every    *)
(* number of identifiers and every clock.                                  *)
(***************************************************************************)
EXTENDS PacketId, TLAPS

\* What was accepted is behind the newest, and where the window still reaches it
\* the window remembers it.
Remembered ==
    \A p \in accepted :
        /\ p.time <= recTime
        /\ p.id > 0
        /\ p.time = recTime => p.id <= recId
        /\ backtrack > 0 /\ p.time = recTime /\ recId - p.id < Len(seqList)
               => seqList[recId - p.id + 1] # SEQ_UNSEEN

\* An empty window has accepted nothing.
Opened == backtrack > 0 /\ seqList = <<>> => accepted = {}

PacketInv == PacketTypeOK /\ Remembered /\ Opened

LEMMA FunctionIsSeq ==
    ASSUME NEW S, NEW n \in Nat, NEW f \in [1 .. n -> S]
    PROVE  f \in Seq(S) /\ Len(f) = n /\ DOMAIN f = 1 .. n
  OBVIOUS

LEMMA SeqIsFunction ==
    ASSUME NEW S, NEW s \in Seq(S)
    PROVE  Len(s) \in Nat /\ s \in [1 .. Len(s) -> S]
  OBVIOUS

\* Where the window keeps what it knows of an identifier.
LEMMA PlaceInWindow ==
    ASSUME NEW top \in Nat, NEW id \in Nat, id <= top, NEW len \in Nat, top - id < len
    PROVE  top - id + 1 \in 1 .. len /\ id = top - (top - id + 1) + 1
<1>1. top - id \in Nat OBVIOUS
<1>2. top - id + 1 \in 1 .. len BY <1>1
<1> QED BY <1>2

LEMMA ReapedList ==
    ASSUME PacketTypeOK
    PROVE  /\ ReapTested \in Seq(Nat)
           /\ Len(ReapTested) = Len(seqList)
           /\ \A i \in 1 .. Len(seqList) :
                  seqList[i] # SEQ_UNSEEN => ReapTested[i] # SEQ_UNSEEN
<1>1. seqList \in Seq(Nat) BY DEF PacketTypeOK
<1>2. Len(seqList) \in Nat /\ seqList \in [1 .. Len(seqList) -> Nat]
  BY <1>1, SeqIsFunction
<1>3. Reaped(seqList) \in [1 .. Len(seqList) -> Nat]
  BY <1>2 DEF Reaped, SEQ_EXPIRED
<1>4. Reaped(seqList) \in Seq(Nat) /\ Len(Reaped(seqList)) = Len(seqList)
  BY <1>2, <1>3, FunctionIsSeq
<1>5. \A i \in 1 .. Len(seqList) :
          seqList[i] # SEQ_UNSEEN => Reaped(seqList)[i] # SEQ_UNSEEN
  BY <1>2 DEF Reaped, SEQ_EXPIRED, SEQ_UNSEEN
<1> QED BY <1>1, <1>4, <1>5 DEF ReapTested

LEMMA PushedList ==
    ASSUME NEW list \in Seq(Nat), NEW n \in Nat, backtrack \in Nat
    PROVE  /\ Pushed(list, n) \in Seq(Nat)
           /\ Len(Pushed(list, n)) = Lower(backtrack, Len(list) + n)
           /\ \A i \in 1 .. Lower(backtrack, Len(list) + n) :
                  Pushed(list, n)[i] = IF i <= n THEN SEQ_UNSEEN ELSE list[i - n]
<1> DEFINE k == Lower(backtrack, Len(list) + n)
<1>1. Len(list) \in Nat /\ list \in [1 .. Len(list) -> Nat] BY SeqIsFunction
<1>2. k \in Nat /\ k <= Len(list) + n BY <1>1 DEF Lower
<1>3. Pushed(list, n) \in [1 .. k -> Nat]
  BY <1>1, <1>2 DEF Pushed, SEQ_UNSEEN
<1>4. Pushed(list, n) \in Seq(Nat) /\ Len(Pushed(list, n)) = k
  BY <1>2, <1>3, FunctionIsSeq
<1>5. \A i \in 1 .. k : Pushed(list, n)[i] = IF i <= n THEN SEQ_UNSEEN ELSE list[i - n]
  BY <1>2 DEF Pushed
<1> QED BY <1>4, <1>5

LEMMA NotedList ==
    ASSUME NEW list \in Seq(Nat), NEW id \in Nat, NEW pin \in Pin, now \in Nat
    PROVE  /\ Noted(list, id, pin) \in Seq(Nat)
           /\ Len(Noted(list, id, pin)) = Len(list)
           /\ \A i \in 1 .. Len(list) :
                  Noted(list, id, pin)[i] = IF i = id - pin.id + 1 THEN now ELSE list[i]
<1>1. Len(list) \in Nat /\ list \in [1 .. Len(list) -> Nat] BY SeqIsFunction
<1>2. Noted(list, id, pin) \in [1 .. Len(list) -> Nat] BY <1>1 DEF Noted
<1>3. Noted(list, id, pin) \in Seq(Nat) /\ Len(Noted(list, id, pin)) = Len(list)
  BY <1>1, <1>2, FunctionIsSeq
<1>4. \A i \in 1 .. Len(list) :
          Noted(list, id, pin)[i] = IF i = id - pin.id + 1 THEN now ELSE list[i]
  BY <1>1 DEF Noted
<1> QED BY <1>3, <1>4

--------------------------------------------------------------------------------
\* What was accepted is refused, by the window as it is and as it would be reaped.
LEMMA RememberedIsRefused ==
    ASSUME PacketInv, NEW list \in Seq(Nat), Len(list) = Len(seqList),
           \A i \in 1 .. Len(seqList) : seqList[i] # SEQ_UNSEEN => list[i] # SEQ_UNSEEN,
           NEW pin \in accepted
    PROVE  ~PacketIdTest(list, pin)
<1>1. /\ pin \in Pin /\ recTime \in Nat /\ recId \in Nat /\ seqList \in Seq(Nat)
      /\ backtrack \in Nat /\ pin.time \in Nat /\ pin.id \in Nat
  BY DEF PacketInv, PacketTypeOK, Pin
<1>2. /\ pin.time <= recTime /\ pin.id > 0
      /\ pin.time = recTime => pin.id <= recId
  BY DEF PacketInv, Remembered
<1>3. Len(seqList) \in Nat BY <1>1, SeqIsFunction
<1>4. CASE backtrack > 0
  <2>1. ~(pin.time > recTime) /\ ~Newer(pin) BY <1>1, <1>2 DEF Newer
  <2>2. ~InWindow(list, pin)
    <3> SUFFICES ASSUME InWindow(list, pin) PROVE FALSE
      OBVIOUS
    <3>1. pin.time = recTime /\ recId - pin.id < Len(seqList) BY DEF InWindow
    <3>2. seqList[recId - pin.id + 1] # SEQ_UNSEEN
      BY <1>4, <3>1 DEF PacketInv, Remembered
    <3>3. recId - pin.id + 1 \in 1 .. Len(seqList) BY <1>1, <1>2, <1>3, <3>1
    <3> QED BY <3>2, <3>3 DEF InWindow
  <2> QED BY <1>4, <2>1, <2>2 DEF PacketIdTest, TestWindow
<1>5. CASE ~(backtrack > 0)
  BY <1>1, <1>2, <1>5 DEF PacketIdTest, TestNext
<1> QED BY <1>4, <1>5

--------------------------------------------------------------------------------
(* What packet_id_add() makes of the window.                               *)

\* A window that starts over holds the new identifier only.
LEMMA AddedOver ==
    ASSUME PacketTypeOK, NEW pin \in sent, backtrack > 0, Accept(pin),
           StartsOver(ReapTested, pin)
    PROVE  /\ recTime' = pin.time /\ recId' = pin.id
           /\ seqList' \in Seq(Nat) /\ Len(seqList') = Lower(backtrack, pin.id)
           /\ \A i \in 1 .. Len(seqList') :
                  seqList'[i] = IF i = 1 THEN now ELSE SEQ_UNSEEN
<1>1. /\ pin \in Pin /\ pin.id \in Nat /\ pin.id > 0 /\ now \in Nat /\ backtrack \in Nat
  BY DEF PacketTypeOK, Pin, Accept, PacketIdTest
<1> DEFINE base == IF pin.id > backtrack THEN pin.id - backtrack ELSE 0
           n == pin.id - base
           pushed == Pushed(<<>>, n)
<1>2. /\ recTime' = pin.time /\ recId' = pin.id /\ seqList' = Noted(pushed, pin.id, pin)
  <2>1. base < pin.id BY <1>1
  <2> QED BY <2>1 DEF Accept, Add
<1>3. n \in Nat /\ n = Lower(backtrack, pin.id) /\ Lower(backtrack, n) = n
  BY <1>1 DEF Lower
<1> HIDE DEF n
<1>4. /\ pushed \in Seq(Nat) /\ Len(pushed) = n
      /\ \A i \in 1 .. n : pushed[i] = SEQ_UNSEEN
  <2>1. <<>> \in Seq(Nat) /\ Len(<<>>) = 0 OBVIOUS
  <2>2. /\ pushed \in Seq(Nat) /\ Len(pushed) = Lower(backtrack, 0 + n)
        /\ \A i \in 1 .. Lower(backtrack, 0 + n) : i <= n => pushed[i] = SEQ_UNSEEN
    BY <1>1, <1>3, <2>1, PushedList
  <2> QED BY <1>3, <2>2
<1> HIDE DEF pushed
<1>5. /\ seqList' \in Seq(Nat) /\ Len(seqList') = n
      /\ \A i \in 1 .. n : seqList'[i] = IF i = pin.id - pin.id + 1 THEN now ELSE SEQ_UNSEEN
  BY <1>1, <1>2, <1>4, NotedList
<1> QED BY <1>1, <1>2, <1>3, <1>5

\* Otherwise what the window holds moves up by as much as the identifier is newer.
LEMMA AddedWithin ==
    ASSUME PacketTypeOK, NEW pin \in sent, backtrack > 0, Accept(pin),
           ~StartsOver(ReapTested, pin)
    PROVE  /\ recTime' = recTime /\ pin.time = recTime
           /\ pin.id <= recId' /\ seqList # <<>> /\ seqList' \in Seq(Nat)
           /\ \E n \in Nat :
                 /\ recId' = recId + n /\ (n > 0 => recId' = pin.id)
                 /\ Len(seqList') = Lower(backtrack, Len(seqList) + n)
                 /\ \A i \in 1 .. Len(seqList') :
                       seqList'[i] = IF i = recId' - pin.id + 1 THEN now
                                     ELSE IF i <= n THEN SEQ_UNSEEN
                                     ELSE ReapTested[i - n]
<1>1. /\ pin \in Pin /\ pin.id \in Nat /\ pin.time \in Nat /\ now \in Nat
      /\ backtrack \in Nat /\ recId \in Nat /\ recTime \in Nat
  BY DEF PacketTypeOK, Pin
<1>2. ReapTested \in Seq(Nat) /\ Len(ReapTested) = Len(seqList) /\ seqList \in Seq(Nat)
  BY ReapedList DEF PacketTypeOK
<1> DEFINE list == ReapTested
           top == IF recId < pin.id THEN pin.id ELSE recId
           n == top - recId
           pushed == Pushed(list, n)
<1>3. recTime' = recTime /\ recId' = top /\ seqList' = Noted(pushed, top, pin)
  BY DEF Accept, Add
<1>4. pin.time = recTime
  BY <1>1 DEF Accept, PacketIdTest, TestWindow, Newer, InWindow, StartsOver
<1>5. list # <<>> BY DEF StartsOver
<1>6. top \in Nat /\ n \in Nat /\ top = recId + n /\ pin.id <= top /\ (n > 0 => top = pin.id)
  BY <1>1
<1> HIDE DEF top, list, n
<1>7. /\ pushed \in Seq(Nat) /\ Len(pushed) = Lower(backtrack, Len(list) + n)
      /\ \A i \in 1 .. Lower(backtrack, Len(list) + n) :
             pushed[i] = IF i <= n THEN SEQ_UNSEEN ELSE list[i - n]
  BY <1>1, <1>2, <1>6, PushedList DEF list
<1> HIDE DEF pushed
<1>8. /\ seqList' \in Seq(Nat) /\ Len(seqList') = Len(pushed)
      /\ \A i \in 1 .. Len(pushed) :
             seqList'[i] = IF i = top - pin.id + 1 THEN now ELSE pushed[i]
  <2>1. seqList' = Noted(pushed, top, pin) BY <1>3
  <2>3. pushed \in Seq(Nat) /\ top \in Nat /\ now \in Nat /\ pin \in Pin BY <1>1, <1>6, <1>7
  <2> DEFINE noted == Noted(pushed, top, pin)
  <2>2. /\ noted \in Seq(Nat) /\ Len(noted) = Len(pushed)
        /\ \A i \in 1 .. Len(pushed) :
               noted[i] = IF i = top - pin.id + 1 THEN now ELSE pushed[i]
    BY <2>3, NotedList
  <2> HIDE DEF noted
  <2>4. seqList' = noted BY <2>1 DEF noted
  <2> QED BY <2>2, <2>4
<1>9. seqList # <<>>
  <2>1. Len(list) > 0 BY <1>2, <1>5 DEF list
  <2> QED BY <1>2, <2>1 DEF list
<1>10. \A i \in 1 .. Len(seqList') :
           seqList'[i] = IF i = top - pin.id + 1 THEN now
                         ELSE IF i <= n THEN SEQ_UNSEEN ELSE list[i - n]
  BY <1>7, <1>8
<1>11. Len(seqList') = Lower(backtrack, Len(seqList) + n) BY <1>2, <1>7, <1>8 DEF list
<1> QED BY <1>3, <1>4, <1>6, <1>8, <1>9, <1>10, <1>11 DEF list

LEMMA AcceptTypes ==
    ASSUME PacketInv, NEW pin \in sent, Accept(pin)
    PROVE  PacketTypeOK'
<1>1. /\ pin \in Pin /\ pin.id \in Nat /\ pin.time \in Nat /\ backtrack \in Nat
      /\ recTime \in Nat /\ recId \in Nat /\ now \in Nat /\ PacketTypeOK
  BY DEF PacketInv, PacketTypeOK, Pin
<1>2. /\ recTime' \in Nat /\ recId' \in Nat /\ seqList' \in Seq(Nat)
      /\ Len(seqList') <= backtrack
  <2>1. \A k \in Nat : Lower(backtrack, k) <= backtrack BY <1>1 DEF Lower
  <2>2. CASE backtrack > 0 /\ StartsOver(ReapTested, pin)
    BY <1>1, <2>1, <2>2, AddedOver
  <2>3. CASE backtrack > 0 /\ ~StartsOver(ReapTested, pin)
    <3>1. /\ recTime' = recTime /\ seqList' \in Seq(Nat)
          /\ \E n \in Nat : /\ recId' = recId + n
                            /\ Len(seqList') = Lower(backtrack, Len(seqList) + n)
      BY <1>1, <2>3, AddedWithin
    <3>2. Len(seqList) \in Nat BY SeqIsFunction DEF PacketInv, PacketTypeOK
    <3> QED BY <1>1, <2>1, <3>1, <3>2
  <2>4. CASE ~(backtrack > 0)
    BY <1>1, <2>4 DEF Accept, AddNext, PacketTypeOK
  <2> QED BY <2>2, <2>3, <2>4
<1>3. lastReap' \in Nat
  BY <1>1 DEF Accept, NoteReap, PacketTypeOK
<1>4. accepted' = accepted \cup {pin} /\ arrived' \in [accepted' -> Nat]
  BY <1>1 DEF Accept, accepted, PacketTypeOK
<1> QED BY <1>1, <1>2, <1>3, <1>4
  DEF Accept, configVars, sendVars, PacketTypeOK

\* The step that matters: packet_id_add() keeps what was accepted before behind
\* the newest, moves what the window holds with it, and notes the new one.
LEMMA AcceptRemembers ==
    ASSUME PacketInv, NEW pin \in sent, Accept(pin)
    PROVE  Remembered' /\ Opened'
<1>1. /\ pin \in Pin /\ pin.id \in Nat /\ pin.time \in Nat
      /\ now \in Nat /\ now > SEQ_EXPIRED /\ backtrack \in Nat /\ recId \in Nat
      /\ recTime \in Nat /\ seqList \in Seq(Nat) /\ accepted \subseteq Pin
      /\ Len(seqList) \in Nat /\ PacketTypeOK
  BY SeqIsFunction DEF PacketInv, PacketTypeOK, Pin
<1>2. accepted' = accepted \cup {pin} /\ backtrack' = backtrack
  BY DEF Accept, accepted, configVars
<1>3. pin.id > 0 BY <1>1 DEF Accept, PacketIdTest
<1>4. \A p \in accepted : /\ p.time \in Nat /\ p.id \in Nat /\ p.time <= recTime
                          /\ p.id > 0 /\ (p.time = recTime => p.id <= recId)
  BY <1>1 DEF PacketInv, Remembered, Pin
<1>5. CASE ~(backtrack > 0)
  <2>1. recTime' = pin.time /\ recId' = pin.id BY <1>5 DEF Accept, AddNext
  <2>2. TestNext(pin) BY <1>5 DEF Accept, PacketIdTest
  <2>3. recTime <= recTime' /\ (recTime = recTime' => recId <= recId')
    BY <1>1, <1>3, <2>1, <2>2 DEF TestNext
  <2>4. ASSUME NEW p \in accepted'
        PROVE  p.time <= recTime' /\ p.id > 0 /\ (p.time = recTime' => p.id <= recId')
    <3>1. CASE p = pin BY <1>1, <1>3, <2>1, <3>1
    <3>2. CASE p \in accepted BY <1>1, <1>4, <2>1, <2>3, <3>2
    <3> QED BY <1>2, <3>1, <3>2
  <2> QED BY <1>1, <1>2, <1>5, <2>4 DEF Remembered, Opened
<1>6. CASE backtrack > 0 /\ StartsOver(ReapTested, pin)
  <2>1. /\ recTime' = pin.time /\ recId' = pin.id
        /\ seqList' \in Seq(Nat) /\ Len(seqList') = Lower(backtrack, pin.id)
        /\ \A i \in 1 .. Len(seqList') :
               seqList'[i] = IF i = 1 THEN now ELSE SEQ_UNSEEN
    BY <1>1, <1>6, AddedOver
  <2>2. Len(seqList') \in Nat /\ Len(seqList') > 0 /\ Len(seqList') <= backtrack
    BY <1>1, <1>3, <1>6, <2>1 DEF Lower
  <2>3. pin.time >= recTime
    BY <1>1, <1>6 DEF Accept, PacketIdTest, TestWindow, Newer, InWindow
  <2>4. ASSUME NEW p \in accepted, p.time = pin.time
        PROVE  p.id <= pin.id /\ ~(pin.id - p.id < Len(seqList'))
    <3>1. pin.time = recTime BY <1>1, <1>4, <2>3, <2>4
    <3>2. ReapTested # <<>>
      <4>1. seqList # <<>> BY <1>6 DEF PacketInv, Opened
      <4>2. Len(seqList) > 0 BY <1>1, <4>1
      <4> QED BY <1>1, <4>2, ReapedList
    <3>3. pin.id - backtrack > recId BY <1>1, <1>6, <3>1, <3>2 DEF StartsOver
    <3>4. p.id \in Nat /\ p.id <= recId BY <1>4, <2>4, <3>1
    <3> QED BY <1>1, <2>2, <3>3, <3>4
  <2>5. seqList'[1] # SEQ_UNSEEN BY <1>1, <2>1, <2>2 DEF SEQ_UNSEEN, SEQ_EXPIRED
  <2>6. ASSUME NEW p \in accepted'
        PROVE  /\ p.time <= recTime' /\ p.id > 0
               /\ p.time = recTime' => p.id <= recId'
               /\ p.time = recTime' /\ recId' - p.id < Len(seqList')
                      => seqList'[recId' - p.id + 1] # SEQ_UNSEEN
    <3>1. CASE p = pin
      <4>1. recId' - p.id + 1 = 1 BY <1>1, <2>1, <3>1
      <4> QED BY <1>1, <1>3, <2>1, <2>5, <3>1, <4>1
    <3>2. CASE p \in accepted
      <4>1. p.time <= recTime' /\ p.id > 0 BY <1>1, <1>4, <2>1, <2>3, <3>2
      <4> QED BY <2>1, <2>4, <3>2, <4>1
    <3> QED BY <1>2, <3>1, <3>2
  <2>7. seqList' # <<>> BY <2>2
  <2> QED BY <2>6, <2>7 DEF Remembered, Opened
<1>7. CASE backtrack > 0 /\ ~StartsOver(ReapTested, pin)
  <2> DEFINE k == Len(seqList')
  <2>0. /\ recTime' = recTime /\ pin.time = recTime /\ pin.id <= recId'
        /\ seqList # <<>> /\ seqList' \in Seq(Nat)
    BY <1>1, <1>7, AddedWithin
  <2>1. PICK n \in Nat :
            /\ recId' = recId + n /\ k = Lower(backtrack, Len(seqList) + n)
            /\ \A i \in 1 .. k :
                  seqList'[i] = IF i = recId' - pin.id + 1 THEN now
                                ELSE IF i <= n THEN SEQ_UNSEEN ELSE ReapTested[i - n]
    BY <1>1, <1>7, AddedWithin
  <2>2. Len(seqList) > 0 BY <1>1, <2>0
  <2> HIDE DEF k
  <2>3. k \in Nat /\ k > 0 /\ k <= Len(seqList) + n
    BY <1>1, <1>7, <2>0, <2>1, <2>2 DEF Lower
  <2>4. ASSUME NEW p \in accepted'
        PROVE  /\ p.time <= recTime' /\ p.id > 0
               /\ p.time = recTime' => p.id <= recId'
               /\ p.time = recTime' /\ recId' - p.id < k
                      => seqList'[recId' - p.id + 1] # SEQ_UNSEEN
    <3>1. CASE p = pin
      <4>1. ASSUME recId' - pin.id < k PROVE seqList'[recId' - pin.id + 1] # SEQ_UNSEEN
        <5>0. recId' \in Nat /\ pin.id \in Nat /\ pin.id <= recId' BY <1>1, <2>0, <2>1
        <5>1. recId' - pin.id + 1 \in 1 .. k BY <2>3, <4>1, <5>0, PlaceInWindow
        <5>2. seqList'[recId' - pin.id + 1] = now BY <2>1, <5>1
        <5> QED BY <1>1, <5>2 DEF SEQ_UNSEEN, SEQ_EXPIRED
      <4> QED BY <1>1, <1>3, <2>0, <2>1, <3>1, <4>1
    <3>2. CASE p \in accepted
      <4>1. ASSUME p.time = recTime PROVE p.id <= recId'
        BY <1>1, <1>4, <2>0, <2>1, <3>2, <4>1
      <4>2. ASSUME p.time = recTime, recId' - p.id < k
            PROVE  seqList'[recId' - p.id + 1] # SEQ_UNSEEN
        <5> DEFINE i == recId' - p.id + 1
        <5>1. p.id \in Nat /\ p.id <= recId /\ recId' = recId + n BY <1>4, <2>1, <3>2, <4>2
        <5>2. /\ i \in 1 .. k /\ i > n /\ i - n = recId - p.id + 1
              /\ i - n \in 1 .. Len(seqList) /\ recId - p.id < Len(seqList)
          <6>0. n \in Nat /\ recId \in Nat /\ Len(seqList) \in Nat BY <1>1
          <6>1. recId + n - p.id < Len(seqList) + n BY <2>3, <4>2, <5>1, <6>0
          <6>2. recId - p.id < Len(seqList) BY <5>1, <6>0, <6>1
          <6>3. i = recId - p.id + 1 + n /\ recId - p.id \in Nat BY <5>1, <6>0
          <6>4. i <= k BY <1>1, <2>3, <4>2, <5>1
          <6> HIDE DEF i
          <6>5. /\ i \in 1 .. k /\ i > n BY <2>3, <6>3, <6>4
          <6>6. i - n = recId - p.id + 1 BY <6>3
          <6>7. recId - p.id + 1 \in 1 .. Len(seqList)
            BY <1>1, <5>1, <6>2, PlaceInWindow
          <6> QED BY <6>2, <6>5, <6>6, <6>7
        <5>3. seqList[i - n] # SEQ_UNSEEN
          <6>1. seqList[recId - p.id + 1] # SEQ_UNSEEN
            BY <1>7, <3>2, <4>2, <5>2 DEF PacketInv, Remembered
          <6> QED BY <5>2, <6>1
        <5>4. ReapTested[i - n] # SEQ_UNSEEN BY <1>1, <5>2, <5>3, ReapedList
        <5>5. now # SEQ_UNSEEN BY <1>1 DEF SEQ_UNSEEN, SEQ_EXPIRED
        <5> HIDE DEF i
        <5>6. ~(i <= n) BY <5>2
        <5>7. seqList'[i] \in {now, ReapTested[i - n]} BY <2>1, <5>2, <5>6
        <5>8. seqList'[i] # SEQ_UNSEEN BY <5>4, <5>5, <5>7
        <5> QED BY <5>8 DEF i
      <4> QED BY <1>4, <2>0, <2>1, <3>2, <4>1, <4>2
    <3> QED BY <1>2, <3>1, <3>2
  <2>5. seqList' # <<>> BY <2>0, <2>3 DEF k
  <2> QED BY <2>4, <2>5 DEF Remembered, Opened, k
<1> QED BY <1>5, <1>6, <1>7

LEMMA RefuseKeepsInv ==
    ASSUME PacketInv, NEW pin \in sent, Refuse(pin)
    PROVE  PacketInv'
<1>1. /\ seqList' = ReapTested /\ accepted' = accepted
      /\ UNCHANGED <<now, configVars, sendVars, recTime, recId, sent, arrived>>
  BY DEF Refuse, accepted
<1>2. /\ seqList' \in Seq(Nat) /\ Len(seqList') = Len(seqList)
      /\ \A i \in 1 .. Len(seqList) :
             seqList[i] # SEQ_UNSEEN => seqList'[i] # SEQ_UNSEEN
  BY <1>1, ReapedList DEF PacketInv
<1>3. lastReap' \in Nat
  BY DEF Refuse, NoteReap, PacketInv, PacketTypeOK
<1>4. PacketTypeOK'
  BY <1>1, <1>2, <1>3 DEF PacketInv, PacketTypeOK, configVars, sendVars, accepted
<1>5. Len(seqList) \in Nat BY SeqIsFunction DEF PacketInv, PacketTypeOK
<1>6. Remembered'
  <2> SUFFICES ASSUME NEW p \in accepted
               PROVE  /\ p.time <= recTime /\ p.id > 0
                      /\ p.time = recTime => p.id <= recId
                      /\ backtrack > 0 /\ p.time = recTime
                            /\ recId - p.id < Len(seqList)
                            => seqList'[recId - p.id + 1] # SEQ_UNSEEN
    BY <1>1, <1>2 DEF Remembered, configVars
  <2>1. /\ p.time <= recTime /\ p.id > 0
        /\ p.time = recTime => p.id <= recId
        /\ backtrack > 0 /\ p.time = recTime /\ recId - p.id < Len(seqList)
              => seqList[recId - p.id + 1] # SEQ_UNSEEN
    BY DEF PacketInv, Remembered
  <2>2. p.id \in Nat /\ recId \in Nat BY DEF PacketInv, PacketTypeOK, Pin
  <2> QED BY <1>2, <1>5, <2>1, <2>2
<1>7. Opened'
  <2>1. seqList' = <<>> => seqList = <<>>
    BY <1>2 DEF PacketInv, PacketTypeOK
  <2> QED BY <1>1, <2>1 DEF PacketInv, Opened, configVars
<1> QED BY <1>4, <1>6, <1>7 DEF PacketInv

LEMMA SendKeepsInv ==
    ASSUME PacketInv, SendNext \/ SendWrapped
    PROVE  PacketInv'
<1>1. UNCHANGED <<now, configVars, recVars, arrived>> /\ accepted' = accepted
  BY DEF SendNext, SendWrapped, accepted
<1>2. sendTime' \in Nat /\ sendId' \in Nat /\ sent' \subseteq Pin /\ sent \subseteq sent'
  BY DEF SendNext, SendWrapped, StampTime, Stamp, PacketInv, PacketTypeOK, Pin
<1>3. PacketTypeOK'
  BY <1>1, <1>2 DEF PacketInv, PacketTypeOK, configVars, recVars, accepted
<1> QED BY <1>1, <1>3 DEF PacketInv, Remembered, Opened, configVars, recVars, accepted

\* Every reachable state has the types and the window says what was accepted.
THEOREM PacketInvariant == PacketSpec => []PacketInv
<1>1. PacketInit => PacketInv
  <2> SUFFICES ASSUME PacketInit PROVE PacketInv
    OBVIOUS
  <2>1. accepted = {} BY DEF PacketInit, accepted
  <2>2. arrived \in [accepted -> Nat]
    BY <2>1 DEF PacketInit
  <2>3. PacketTypeOK
    BY <2>1, <2>2, WindowAssumption, IdAssumption
    DEF PacketInit, PacketTypeOK, SEQ_EXPIRED
  <2> QED BY <2>1, <2>3 DEF PacketInv, Remembered, Opened
<1>2. PacketInv /\ [PacketNext]_packetVars => PacketInv'
  <2> SUFFICES ASSUME PacketInv, [PacketNext]_packetVars PROVE PacketInv'
    OBVIOUS
  <2>1. CASE Tick
    <3>1. now' \in Nat /\ now' > SEQ_EXPIRED
      BY <2>1 DEF Tick, PacketInv, PacketTypeOK, SEQ_EXPIRED
    <3>2. UNCHANGED <<configVars, sendVars, recVars, sent, arrived>>
      BY <2>1 DEF Tick
    <3>3. PacketTypeOK'
      BY <3>1, <3>2 DEF PacketInv, PacketTypeOK, configVars, sendVars, recVars,
                        accepted
    <3> QED BY <3>2, <3>3 DEF PacketInv, Remembered, Opened, configVars, recVars,
                              accepted
  <2>2. CASE SendNext \/ SendWrapped BY <2>2, SendKeepsInv
  <2>3. ASSUME NEW pin \in sent, Accept(pin) PROVE PacketInv'
    BY <2>3, AcceptTypes, AcceptRemembers DEF PacketInv
  <2>4. ASSUME NEW pin \in sent, Refuse(pin) PROVE PacketInv'
    BY <2>4, RefuseKeepsInv
  <2>5. CASE UNCHANGED packetVars
    BY <2>5 DEF packetVars, PacketInv, PacketTypeOK, Remembered, Opened, configVars,
                sendVars, recVars, accepted
  <2> QED BY <2>1, <2>2, <2>3, <2>4, <2>5 DEF PacketNext
<1> QED BY <1>1, <1>2, PTL DEF PacketSpec

\* The types of both ends' counters; the window never outgrows its capacity.
THEOREM PacketTypes == PacketSpec => []PacketTypeOK
<1>1. PacketInv => PacketTypeOK BY DEF PacketInv
<1> QED BY <1>1, PacketInvariant, PTL

\* packet_id_test() refuses for ever what packet_id_add() took, for windows, ids
\* and clocks of every size, in UDP and in TCP mode.
THEOREM NeverTwice == PacketSpec => []NoReplay
<1>1. PacketInv => NoReplay
  BY RememberedIsRefused DEF PacketInv, PacketTypeOK, NoReplay
<1> QED BY <1>1, PacketInvariant, PTL

--------------------------------------------------------------------------------
\* What was sent is behind the sender's counter, within its present second where
\* the packets carry one.
Behind ==
    /\ sendTime = 0 => sent = {}
    /\ \A p \in sent :
           /\ ~longForm => p.id <= sendId
           /\ longForm => p.time <= sendTime /\ (p.time = sendTime => p.id <= sendId)

SenderInv == PacketInv /\ Behind

LEMMA SendIsNew ==
    ASSUME SenderInv, SendNext \/ SendWrapped
    PROVE  Behind' /\ sent' # sent
<1>1. /\ now \in Nat /\ now > 1 /\ sendTime \in Nat /\ sendId \in Nat
      /\ longForm \in BOOLEAN /\ sent \subseteq Pin /\ longForm' = longForm
  BY DEF SenderInv, PacketInv, PacketTypeOK, SEQ_EXPIRED, SendNext, SendWrapped,
         configVars
<1>2. \A p \in sent : p.time \in Nat /\ p.id \in Nat BY <1>1 DEF Pin
<1>3. CASE SendNext
  <2> DEFINE new == [time |-> Stamp(StampTime), id |-> sendId + 1]
  <2>1. sendTime' = StampTime /\ sendId' = sendId + 1 /\ sent' = sent \cup {new}
    BY <1>3 DEF SendNext
  <2>2. StampTime \in Nat /\ StampTime > 0 BY <1>1 DEF StampTime
  <2>3. new.id = sendId + 1 /\ (longForm => new.time = StampTime) BY DEF Stamp
  <2> HIDE DEF new
  <2>4. ASSUME NEW p \in sent
        PROVE  /\ sendTime = StampTime
               /\ ~longForm => p.id <= sendId
               /\ longForm => p.time <= sendTime /\ (p.time = sendTime => p.id <= sendId)
    BY DEF SenderInv, Behind, StampTime
  <2>5. new \notin sent BY <1>1, <1>2, <2>3, <2>4
  <2>6. Behind'
    <3> SUFFICES ASSUME NEW p \in sent'
                 PROVE  /\ ~longForm => p.id <= sendId'
                        /\ longForm => /\ p.time <= sendTime'
                                       /\ p.time = sendTime' => p.id <= sendId'
      BY <1>1, <2>1, <2>2 DEF Behind
    <3>1. CASE p = new BY <1>1, <2>1, <2>2, <2>3, <3>1
    <3>2. CASE p \in sent BY <1>1, <1>2, <2>1, <2>4, <3>2
    <3> QED BY <2>1, <3>1, <3>2
  <2> QED BY <2>1, <2>5, <2>6
<1>4. CASE SendWrapped
  <2> DEFINE new == [time |-> now, id |-> 1]
  <2>1. /\ longForm /\ now > sendTime
        /\ sendTime' = now /\ sendId' = 1 /\ sent' = sent \cup {new}
    BY <1>4 DEF SendWrapped
  <2>2. new.id = 1 /\ new.time = now OBVIOUS
  <2> HIDE DEF new
  <2>3. \A p \in sent : p.time <= sendTime BY <2>1 DEF SenderInv, Behind
  <2>4. \A p \in sent : p.time < now BY <1>1, <1>2, <2>1, <2>3
  <2>5. new \notin sent BY <1>1, <2>2, <2>4
  <2>6. Behind'
    <3> SUFFICES ASSUME NEW p \in sent'
                 PROVE  p.time <= now /\ (p.time = now => p.id <= 1)
      BY <1>1, <2>1 DEF Behind
    <3>1. CASE p = new BY <1>1, <2>2, <3>1
    <3>2. CASE p \in sent BY <1>1, <1>2, <2>4, <3>2
    <3> QED BY <2>1, <3>1, <3>2
  <2> QED BY <2>1, <2>5, <2>6
<1> QED BY <1>3, <1>4

\* The identifier of a packet, which is also what makes its IV unique, is used by
\* one packet only, in the short form as in the long one and across a wrap.
THEOREM NeverReused == PacketSpec => NoReuse
<1>1. PacketInit => Behind BY DEF PacketInit, Behind
<1>2. SenderInv /\ [PacketNext]_packetVars => Behind'
  <2> SUFFICES ASSUME SenderInv, [PacketNext]_packetVars PROVE Behind'
    OBVIOUS
  <2>1. CASE SendNext \/ SendWrapped BY <2>1, SendIsNew
  <2>2. CASE ~(SendNext \/ SendWrapped)
    <3>1. UNCHANGED <<configVars, sendVars, sent>>
      BY <2>2 DEF PacketNext, Tick, Accept, Refuse, packetVars
    <3> QED BY <3>1 DEF SenderInv, Behind, configVars, sendVars
  <2> QED BY <2>1, <2>2
<1>3. SenderInv /\ [PacketNext]_packetVars =>
          [(SendNext \/ SendWrapped) => sent' # sent]_packetVars
  BY SendIsNew
<1> QED BY <1>1, <1>2, <1>3, PacketInvariant, PTL DEF PacketSpec, NoReuse, SenderInv

--------------------------------------------------------------------------------
(* The window is exact: what it says of an identifier is when that arrived, or *)
(* that it or a later one arrived too long ago.                                *)

Filled(list) ==
    \A i \in 1 .. Len(list) : list[i] # SEQ_UNSEEN =>
        \E p \in accepted :
            /\ p.time = recTime
            /\ list[i] # SEQ_EXPIRED => p.id = recId - i + 1 /\ arrived[p] = list[i]
            /\ list[i] = SEQ_EXPIRED => /\ TimeBacktrack > 0
                                        /\ p.id >= recId - i + 1
                                        /\ arrived[p] + TimeBacktrack < now

\* Where the scan of packet_id_reap() stops, nothing is left to expire; what it
\* leaves has been there for less than TimeBacktrack.
ExpiredLast(list) ==
    \A i, j \in 1 .. Len(list) : i < j /\ list[i] = SEQ_EXPIRED => list[j] = SEQ_EXPIRED
Fresh(list, since) ==
    \A i \in 1 .. Len(list) : list[i] > SEQ_EXPIRED => list[i] + TimeBacktrack >= since
NextReap == IF MustReap THEN now ELSE lastReap

Numbered == \A p \in sent : p.id > 0
WindowSays ==
    backtrack > 0 =>
        /\ Len(seqList) = Lower(backtrack, recId)
        /\ Filled(seqList) /\ ExpiredLast(seqList)
        /\ TimeBacktrack > 0 => Fresh(seqList, lastReap)

WindowInv == PacketInv /\ Numbered /\ lastReap <= now /\ WindowSays

\* Reaping keeps the window exact.
LEMMA ReapedSays ==
    ASSUME PacketTypeOK, backtrack > 0, WindowSays
    PROVE  /\ Filled(ReapTested) /\ ExpiredLast(ReapTested)
           /\ TimeBacktrack > 0 => Fresh(ReapTested, NextReap)
<1>1. /\ seqList \in Seq(Nat) /\ Len(seqList) \in Nat /\ recId \in Nat /\ now \in Nat
      /\ seqList \in [1 .. Len(seqList) -> Nat] /\ TimeBacktrack \in Nat
      /\ \A p \in accepted : p.id \in Nat /\ arrived[p] \in Nat
  BY SeqIsFunction, WindowAssumption DEF PacketTypeOK, Pin
<1>2. CASE MustReap /\ TimeBacktrack > 0
  <2> DEFINE list == Reaped(seqList)
  <2>1. ReapTested = list /\ NextReap = now BY <1>2 DEF ReapTested, NextReap
  <2>2. /\ Len(list) = Len(seqList)
        /\ \A i \in 1 .. Len(seqList) :
               list[i] = IF TooOld(seqList, i) THEN SEQ_EXPIRED ELSE seqList[i]
    <3>1. list \in [1 .. Len(seqList) -> Nat] BY <1>1 DEF Reaped, SEQ_EXPIRED
    <3> QED BY <1>1, <3>1, FunctionIsSeq DEF Reaped
  <2> HIDE DEF list
  <2>3. ASSUME NEW i \in 1 .. Len(seqList), TooOld(seqList, i)
        PROVE  \E p \in accepted : /\ p.time = recTime /\ p.id >= recId - i + 1
                                   /\ arrived[p] + TimeBacktrack < now
    <3>1. PICK j \in 1 .. i : /\ seqList[j] # SEQ_UNSEEN /\ seqList[j] # SEQ_EXPIRED
                              /\ seqList[j] + TimeBacktrack < now
      BY <1>1, <2>3 DEF TooOld
    <3>2. j \in 1 .. Len(seqList) BY <1>1
    <3>3. PICK p \in accepted : p.time = recTime /\ p.id = recId - j + 1
                                /\ arrived[p] = seqList[j]
      BY <3>1, <3>2 DEF WindowSays, Filled
    <3>4. p.id >= recId - i + 1 BY <1>1, <3>3
    <3> QED BY <3>1, <3>3, <3>4
  <2>4. Filled(list) BY <1>2, <2>2, <2>3 DEF WindowSays, Filled, SEQ_EXPIRED, SEQ_UNSEEN
  <2>5. ASSUME NEW i \in 1 .. Len(seqList), NEW j \in 1 .. Len(seqList), i < j,
               TooOld(seqList, i)
        PROVE  TooOld(seqList, j)
    <3>1. 1 .. i \subseteq 1 .. j BY <1>1, <2>5
    <3> QED BY <2>5, <3>1 DEF TooOld
  <2>6. ExpiredLast(list) BY <2>2, <2>5 DEF WindowSays, ExpiredLast
  <2>7. ASSUME NEW i \in 1 .. Len(seqList), ~TooOld(seqList, i), seqList[i] > SEQ_EXPIRED
        PROVE  seqList[i] + TimeBacktrack >= now
    <3>1. seqList[i] \in Nat /\ seqList[i] # SEQ_UNSEEN /\ seqList[i] # SEQ_EXPIRED
      BY <1>1, <2>7 DEF SEQ_UNSEEN, SEQ_EXPIRED
    <3>2. \A k \in 1 .. i : seqList[k] # SEQ_EXPIRED
      <4> SUFFICES ASSUME NEW k \in 1 .. i, seqList[k] = SEQ_EXPIRED PROVE FALSE
        OBVIOUS
      <4>1. k \in 1 .. Len(seqList) /\ (k < i \/ k = i) BY <1>1
      <4> QED BY <3>1, <4>1 DEF WindowSays, ExpiredLast
    <3>3. i \in 1 .. i BY <1>1
    <3>4. ~(seqList[i] + TimeBacktrack < now) BY <2>7, <3>1, <3>2, <3>3 DEF TooOld
    <3> QED BY <1>1, <3>1, <3>4
  <2>8. Fresh(list, now) BY <2>2, <2>7 DEF Fresh, SEQ_EXPIRED
  <2> QED BY <2>1, <2>4, <2>6, <2>8
<1>3. CASE ~(MustReap /\ TimeBacktrack > 0)
  BY <1>3 DEF ReapTested, NextReap, WindowSays
<1> QED BY <1>2, <1>3

LEMMA AcceptSays ==
    ASSUME WindowInv, NEW pin \in sent, Accept(pin)
    PROVE  WindowSays' /\ lastReap' <= now'
<1>1. /\ pin \in Pin /\ pin.id \in Nat /\ now \in Nat /\ now > SEQ_EXPIRED
      /\ backtrack \in Nat /\ recId \in Nat /\ recTime \in Nat /\ PacketTypeOK
      /\ seqList \in Seq(Nat) /\ Len(seqList) \in Nat
      /\ \A p \in accepted : p.id \in Nat /\ arrived[p] \in Nat
      /\ TimeBacktrack \in Nat /\ lastReap \in Nat /\ pin.id > 0 /\ lastReap <= now
  BY SeqIsFunction, WindowAssumption
  DEF WindowInv, Numbered, PacketInv, PacketTypeOK, Pin
<1>2. /\ now' = now /\ backtrack' = backtrack /\ lastReap' = NextReap
      /\ arrived' = [p \in accepted \cup {pin} |-> IF p = pin THEN now ELSE arrived[p]]
      /\ accepted' = accepted \cup {pin}
  BY DEF Accept, NoteReap, NextReap, accepted, configVars
<1>3. lastReap' \in Nat /\ lastReap' <= now' BY <1>1, <1>2 DEF NextReap
<1>4. /\ ReapTested \in Seq(Nat) /\ Len(ReapTested) = Len(seqList)
      /\ ReapTested \in [1 .. Len(seqList) -> Nat]
  <2>1. ReapTested \in Seq(Nat) /\ Len(ReapTested) = Len(seqList) BY <1>1, ReapedList
  <2> QED BY <2>1, SeqIsFunction
<1>5. pin \notin accepted
  <2>1. ASSUME pin \in accepted PROVE FALSE
    <3>1. ~PacketIdTest(ReapTested, pin)
      BY <1>1, <1>4, <2>1, ReapedList, RememberedIsRefused DEF WindowInv
    <3> QED BY <3>1 DEF Accept
  <2> QED BY <2>1
<1>6. arrived'[pin] = now /\ \A p \in accepted : p \in accepted' /\ arrived'[p] = arrived[p]
  BY <1>2, <1>5
<1>7. now # SEQ_UNSEEN /\ now # SEQ_EXPIRED BY <1>1 DEF SEQ_UNSEEN, SEQ_EXPIRED
<1>8. now + TimeBacktrack >= lastReap' BY <1>1, <1>2, <1>3
<1>9. CASE backtrack > 0 /\ StartsOver(ReapTested, pin)
  <2>1. /\ recTime' = pin.time /\ recId' = pin.id
        /\ Len(seqList') = Lower(backtrack, pin.id)
        /\ \A i \in 1 .. Len(seqList') : seqList'[i] = IF i = 1 THEN now ELSE SEQ_UNSEEN
    BY <1>1, <1>9, AddedOver
  <2>2. ASSUME NEW i \in 1 .. Len(seqList'), seqList'[i] # SEQ_UNSEEN
        PROVE  i = 1 /\ seqList'[i] = now
    BY <2>1, <2>2
  <2>3. pin.id = recId' - 1 + 1 BY <1>1, <2>1
  <2>4. Filled(seqList)' BY <1>2, <1>6, <1>7, <2>1, <2>2, <2>3 DEF Filled
  <2>5. ExpiredLast(seqList)'
    <3>1. SEQ_EXPIRED # SEQ_UNSEEN BY DEF SEQ_UNSEEN, SEQ_EXPIRED
    <3> QED BY <1>7, <2>2, <3>1 DEF ExpiredLast
  <2>6. Fresh(seqList, lastReap)' BY <1>8, <2>1 DEF Fresh, SEQ_UNSEEN, SEQ_EXPIRED
  <2> QED BY <1>2, <1>3, <2>1, <2>4, <2>5, <2>6 DEF WindowSays
<1>10. CASE backtrack > 0 /\ ~StartsOver(ReapTested, pin)
  <2> DEFINE at == recId' - pin.id + 1
  <2>1. recTime' = recTime /\ pin.time = recTime /\ pin.id <= recId'
    BY <1>1, <1>10, AddedWithin
  <2>2. PICK n \in Nat :
            /\ recId' = recId + n /\ (n > 0 => recId' = pin.id)
            /\ Len(seqList') = Lower(backtrack, Len(seqList) + n)
            /\ \A i \in 1 .. Len(seqList') :
                  seqList'[i] = IF i = at THEN now
                                ELSE IF i <= n THEN SEQ_UNSEEN ELSE ReapTested[i - n]
    BY <1>1, <1>10, AddedWithin
  <2>3. /\ Filled(ReapTested) /\ ExpiredLast(ReapTested)
        /\ TimeBacktrack > 0 => Fresh(ReapTested, lastReap')
        /\ Len(seqList) = Lower(backtrack, recId)
    BY <1>1, <1>2, <1>10, ReapedSays DEF WindowInv, WindowSays
  <2>4. /\ Len(seqList') = Lower(backtrack, recId') /\ Len(seqList') \in Nat
        /\ Len(seqList') <= Len(seqList) + n
    BY <1>1, <2>2, <2>3 DEF Lower
  <2>5. at \in Int /\ pin.id = recId' - at + 1
    <3>1. recId' \in Nat /\ pin.id \in Nat BY <1>1, <2>2
    <3> QED BY <3>1
  <2> HIDE DEF at
  <2>6. ASSUME NEW i \in 1 .. Len(seqList'), seqList'[i] # SEQ_UNSEEN
        PROVE  \/ i = at /\ seqList'[i] = now
               \/ /\ i # at /\ i - n \in 1 .. Len(seqList)
                  /\ seqList'[i] = ReapTested[i - n] /\ i > n
    <3>1. i - n <= Len(seqList) BY <1>1, <2>2, <2>4
    <3> QED BY <1>1, <2>2, <2>4, <2>6, <3>1
  <2>7. Filled(seqList)'
    <3> SUFFICES ASSUME NEW i \in 1 .. Len(seqList'), seqList'[i] # SEQ_UNSEEN
                 PROVE  \E p \in accepted' :
                   /\ p.time = recTime'
                   /\ seqList'[i] # SEQ_EXPIRED =>
                          p.id = recId' - i + 1 /\ arrived'[p] = seqList'[i]
                   /\ seqList'[i] = SEQ_EXPIRED => /\ TimeBacktrack > 0
                                                   /\ p.id >= recId' - i + 1
                                                   /\ arrived'[p] + TimeBacktrack < now
      BY <1>2 DEF Filled
    <3>1. CASE i = at /\ seqList'[i] = now
      BY <1>2, <1>6, <1>7, <2>1, <2>5, <3>1
    <3>2. CASE i - n \in 1 .. Len(seqList) /\ seqList'[i] = ReapTested[i - n]
      <4>1. PICK p \in accepted :
               /\ p.time = recTime
               /\ seqList'[i] # SEQ_EXPIRED =>
                      p.id = recId - (i - n) + 1 /\ arrived[p] = seqList'[i]
               /\ seqList'[i] = SEQ_EXPIRED => /\ TimeBacktrack > 0
                                               /\ p.id >= recId - (i - n) + 1
                                               /\ arrived[p] + TimeBacktrack < now
        BY <1>4, <2>3, <3>2 DEF Filled
      <4>2. recId - (i - n) + 1 = recId' - i + 1 BY <1>1, <2>2
      <4> QED BY <1>6, <2>1, <4>1, <4>2
    <3> QED BY <2>6, <3>1, <3>2
  <2>8. ExpiredLast(seqList)'
    <3> SUFFICES ASSUME NEW i \in 1 .. Len(seqList'), NEW j \in 1 .. Len(seqList'),
                        i < j, seqList'[i] = SEQ_EXPIRED
                 PROVE  seqList'[j] = SEQ_EXPIRED
      BY DEF ExpiredLast
    <3>1. /\ i - n \in 1 .. Len(seqList) /\ ReapTested[i - n] = SEQ_EXPIRED /\ i > n
      BY <1>7, <2>6 DEF SEQ_UNSEEN, SEQ_EXPIRED
    <3>2. j - n \in 1 .. Len(seqList) /\ i - n < j - n /\ j > n
      <4>1. /\ n \in Nat /\ i \in Nat /\ j \in Nat /\ j <= Len(seqList')
            /\ Len(seqList) \in Nat
        BY <1>1, <2>4
      <4>2. Len(seqList') \in Nat /\ Len(seqList') <= Len(seqList) + n BY <2>4
      <4>3. i - n >= 1 BY <3>1, <4>1
      <4>4. j - n \in Int /\ i - n < j - n /\ j > n BY <4>1, <4>3
      <4>5. j - n <= Len(seqList) BY <4>1, <4>2
      <4> QED BY <4>1, <4>3, <4>4, <4>5
    <3>3. ReapTested[j - n] = SEQ_EXPIRED BY <1>4, <2>3, <3>1, <3>2 DEF ExpiredLast
    <3>4. j # at
      <4> SUFFICES ASSUME j = at PROVE FALSE
        OBVIOUS
      <4>1. n = 0 BY <1>1, <2>2, <2>5, <3>1
      <4>2. recId' = recId /\ at = recId - pin.id + 1 BY <1>1, <2>2, <2>5, <4>1
      <4>3. ReapTested[recId - pin.id + 1] = SEQ_UNSEEN
        BY <1>1, <1>10, <2>1, <4>2
        DEF Accept, PacketIdTest, TestWindow, Newer, InWindow
      <4>4. j - n = recId - pin.id + 1 BY <4>1, <4>2
      <4> QED BY <3>3, <4>3, <4>4 DEF SEQ_UNSEEN, SEQ_EXPIRED
    <3> QED BY <2>2, <3>2, <3>3, <3>4
  <2>9. ASSUME TimeBacktrack > 0 PROVE Fresh(seqList, lastReap)'
    <3> SUFFICES ASSUME NEW i \in 1 .. Len(seqList'), seqList'[i] > SEQ_EXPIRED
                 PROVE  seqList'[i] + TimeBacktrack >= lastReap'
      BY DEF Fresh
    <3>1. seqList'[i] # SEQ_UNSEEN BY DEF SEQ_UNSEEN, SEQ_EXPIRED
    <3>2. CASE seqList'[i] = now BY <1>8, <3>2
    <3>3. CASE i - n \in 1 .. Len(seqList) /\ seqList'[i] = ReapTested[i - n]
      BY <1>4, <2>3, <2>9, <3>3 DEF Fresh
    <3> QED BY <2>6, <3>1, <3>2, <3>3
  <2> QED BY <1>2, <1>3, <2>4, <2>7, <2>8, <2>9 DEF WindowSays
<1>11. CASE ~(backtrack > 0)
  BY <1>2, <1>3, <1>11 DEF WindowSays
<1> QED BY <1>9, <1>10, <1>11

LEMMA RefuseSays ==
    ASSUME WindowInv, NEW pin \in sent, Refuse(pin)
    PROVE  WindowSays' /\ lastReap' <= now'
<1>1. /\ seqList' = ReapTested /\ lastReap' = NextReap
      /\ UNCHANGED <<now, backtrack, recTime, recId, arrived>> /\ accepted' = accepted
  BY DEF Refuse, NoteReap, NextReap, configVars, accepted
<1>2. lastReap \in Nat /\ now \in Nat /\ lastReap <= now /\ PacketTypeOK
  BY DEF WindowInv, PacketInv, PacketTypeOK
<1>3. lastReap' <= now' BY <1>1, <1>2 DEF NextReap
<1>4. Len(ReapTested) = Len(seqList) BY <1>2, ReapedList
<1>5. CASE backtrack > 0
  <2>1. /\ Filled(ReapTested) /\ ExpiredLast(ReapTested)
        /\ TimeBacktrack > 0 => Fresh(ReapTested, NextReap)
    BY <1>2, <1>5, ReapedSays DEF WindowInv
  <2>2. Filled(seqList)' BY <1>1, <2>1 DEF Filled
  <2>3. ExpiredLast(seqList)' BY <1>1, <2>1 DEF ExpiredLast
  <2>4. TimeBacktrack > 0 => Fresh(seqList, lastReap)' BY <1>1, <2>1 DEF Fresh
  <2> QED BY <1>1, <1>3, <1>4, <1>5, <2>2, <2>3, <2>4 DEF WindowInv, WindowSays
<1> QED BY <1>1, <1>3, <1>5 DEF WindowSays

LEMMA WindowInvariant == PacketSpec => []WindowInv
<1>1. PacketInit => Numbered /\ lastReap <= now /\ WindowSays
  <2> SUFFICES ASSUME PacketInit PROVE Numbered /\ lastReap <= now /\ WindowSays
    OBVIOUS
  <2>1. backtrack \in Nat BY WindowAssumption DEF PacketInit
  <2>2. Lower(backtrack, 0) = 0 BY <2>1 DEF Lower
  <2> QED BY <2>2 DEF PacketInit, Numbered, WindowSays, Filled, ExpiredLast, Fresh
<1>2. WindowInv /\ [PacketNext]_packetVars => (Numbered /\ lastReap <= now /\ WindowSays)'
  <2> SUFFICES ASSUME WindowInv, [PacketNext]_packetVars
               PROVE  (Numbered /\ lastReap <= now /\ WindowSays)'
    OBVIOUS
  <2>1. /\ now \in Nat /\ lastReap \in Nat /\ lastReap <= now /\ sendId \in Nat
        /\ TimeBacktrack \in Nat /\ \A p \in accepted : arrived[p] \in Nat
    BY WindowAssumption DEF WindowInv, PacketInv, PacketTypeOK
  <2>2. Numbered'
    <3>1. CASE SendNext
      <4> DEFINE new == [time |-> Stamp(StampTime), id |-> sendId + 1]
      <4>1. sent' = sent \cup {new} BY <3>1 DEF SendNext
      <4>2. new.id > 0 BY <2>1
      <4> HIDE DEF new
      <4> QED BY <4>1, <4>2 DEF WindowInv, Numbered
    <3>2. CASE SendWrapped BY <3>2 DEF SendWrapped, WindowInv, Numbered
    <3>3. CASE UNCHANGED sent BY <3>3 DEF WindowInv, Numbered
    <3> QED BY <3>1, <3>2, <3>3 DEF PacketNext, Tick, Accept, Refuse, packetVars
  <2>3. CASE Tick
    <3>1. /\ now' = now + 1 /\ accepted' = accepted
          /\ UNCHANGED <<backtrack, recTime, recId, seqList, lastReap, arrived>>
      BY <2>3 DEF Tick, configVars, recVars, accepted
    <3>2. lastReap' <= now' BY <2>1, <3>1
    <3>3. \A p \in accepted : arrived[p] + TimeBacktrack < now
                                  => arrived'[p] + TimeBacktrack < now'
      BY <2>1, <3>1
    <3>4. Filled(seqList) => Filled(seqList)' BY <3>1, <3>3 DEF Filled
    <3>5. ExpiredLast(seqList) => ExpiredLast(seqList)' BY <3>1 DEF ExpiredLast
    <3>6. Fresh(seqList, lastReap) => Fresh(seqList, lastReap)' BY <3>1 DEF Fresh
    <3> QED BY <2>2, <3>1, <3>2, <3>4, <3>5, <3>6 DEF WindowInv, WindowSays
  <2>4. ASSUME NEW pin \in sent, Accept(pin) \/ Refuse(pin)
        PROVE  WindowSays' /\ lastReap' <= now'
    BY <2>4, AcceptSays, RefuseSays
  <2>5. CASE SendNext \/ SendWrapped \/ UNCHANGED packetVars
    <3>1. UNCHANGED <<now, configVars, recVars, arrived>> /\ accepted' = accepted
      BY <2>5 DEF SendNext, SendWrapped, packetVars, accepted
    <3> QED BY <2>2, <3>1
        DEF WindowInv, WindowSays, Filled, ExpiredLast, Fresh, configVars, recVars
  <2> QED BY <2>2, <2>3, <2>4, <2>5 DEF PacketNext
<1> QED BY <1>1, <1>2, PacketInvariant, PTL DEF PacketSpec, WindowInv

\* A late packet is lost only when packet_id_reap() has a reason to drop it, and
\* never taken from a reap interval after the last second in which it was in time,
\* for windows, delays and reap intervals of every size.
THEOREM LateWithinReap == PacketSpec => []WindowUpToReaping
<1>1. WindowInv => WindowUpToReaping
  <2> SUFFICES ASSUME WindowInv, backtrack > 0 PROVE LateIsAccepted /\ TooLateIsRefused
    BY DEF WindowUpToReaping
  <2> DEFINE list == ReapTested
  <2>1. /\ recId \in Nat /\ backtrack \in Nat /\ now \in Nat /\ lastReap \in Nat
        /\ TimeBacktrack \in Nat /\ ReapInterval \in Nat \ {0} /\ PacketTypeOK /\ recTime \in Nat
        /\ seqList \in Seq(Nat) /\ Len(seqList) \in Nat
        /\ \A p \in accepted : p \in sent /\ arrived[p] \in Nat
        /\ \A p \in sent : p \in Pin /\ p.id \in Nat /\ p.id > 0
    BY SeqIsFunction, WindowAssumption
    DEF WindowInv, Numbered, PacketInv, PacketTypeOK, Pin
  <2>2. /\ Len(list) = Len(seqList) /\ Len(seqList) = Lower(backtrack, recId)
        /\ list \in [1 .. Len(seqList) -> Nat]
        /\ Filled(list) /\ ExpiredLast(list)
        /\ TimeBacktrack > 0 => Fresh(list, NextReap)
        /\ \A i \in 1 .. Len(seqList) : seqList[i] # SEQ_UNSEEN => list[i] # SEQ_UNSEEN
    <3>1. list \in Seq(Nat) /\ Len(list) = Len(seqList) BY <2>1, ReapedList
    <3>2. list \in [1 .. Len(seqList) -> Nat] BY <3>1, SeqIsFunction
    <3> QED BY <2>1, <3>1, <3>2, ReapedList, ReapedSays DEF WindowInv, WindowSays
  <2>3. \A p, q \in Pin : p.time = q.time /\ p.id = q.id => p = q BY DEF Pin
  <2> HIDE DEF list
  <2>6. Len(list) \in Nat /\ Len(list) = Lower(backtrack, recId) BY <2>1, <2>2
  <2>4. LateIsAccepted
    <3> SUFFICES ASSUME NEW pin \in sent, pin \notin accepted,
                        pin.time = recTime, recId - pin.id < backtrack,
                        ~PacketIdTest(list, pin)
                 PROVE  TimeBacktrack > 0 /\ ExpiredBy(pin, TimeBacktrack)
      BY DEF LateIsAccepted, list
    <3> DEFINE i == recId - pin.id + 1
    <3>1. pin.id # 0 BY <2>1
    <3>2. ~(pin.id > recId) /\ ~InWindow(list, pin)
      BY <3>1 DEF PacketIdTest, TestWindow, Newer
    <3>3. i \in 1 .. Len(list) /\ pin.id = recId - i + 1
      <4>1. pin.id \in Nat /\ pin.id > 0 /\ pin.id <= recId BY <2>1, <3>2
      <4>2. recId - pin.id < Len(list) BY <2>1, <2>6, <4>1 DEF Lower
      <4> QED BY <2>1, <2>6, <4>1, <4>2, PlaceInWindow
    <3>4. list[i] # SEQ_UNSEEN
      <4>1. pin.id <= recId /\ recId - pin.id < Len(list)
        <5>1. pin.id \in Nat /\ recId \in Nat /\ Len(list) \in Nat BY <2>1, <2>6
        <5>2. pin.id <= recId BY <3>2, <5>1
        <5> QED BY <2>1, <2>6, <5>1, <5>2 DEF Lower
      <4> QED BY <3>2, <4>1 DEF InWindow
    <3> HIDE DEF i
    <3>5. PICK p \in accepted :
             /\ p.time = recTime
             /\ list[i] # SEQ_EXPIRED => p.id = recId - i + 1
             /\ list[i] = SEQ_EXPIRED => /\ TimeBacktrack > 0 /\ p.id >= recId - i + 1
                                         /\ arrived[p] + TimeBacktrack < now
      BY <2>2, <3>3, <3>4 DEF Filled
    <3>6. list[i] = SEQ_EXPIRED BY <2>1, <2>3, <3>3, <3>5
    <3> QED BY <3>3, <3>5, <3>6 DEF ExpiredBy
  <2>5. TooLateIsRefused
    <3> SUFFICES ASSUME TimeBacktrack > 0, NEW pin \in sent, pin.time = recTime,
                        NEW p \in accepted, p.time = recTime, p.id >= pin.id,
                        arrived[p] + (TimeBacktrack + ReapInterval - 1) < now,
                        PacketIdTest(list, pin)
                 PROVE  FALSE
      BY DEF TooLateIsRefused, ExpiredBy, list
    <3> DEFINE i == recId - p.id + 1
               j == recId - pin.id + 1
    <3>1. p.id <= recId BY DEF WindowInv, PacketInv, Remembered
    <3>2. j <= Len(list) /\ list[j] = SEQ_UNSEEN
      <4>1. InWindow(list, pin)
        BY <2>1, <3>1 DEF PacketIdTest, TestWindow, Newer
      <4> QED BY <2>1, <2>2, <4>1 DEF InWindow
    <3>3. i \in 1 .. Len(list) /\ j \in 1 .. Len(list) /\ i <= j
      <4>1. p.id \in Nat /\ pin.id \in Nat /\ pin.id <= p.id BY <2>1
      <4>2. recId - pin.id \in Nat /\ recId - p.id \in Nat /\ recId - p.id <= recId - pin.id
        <5>1. recId \in Nat /\ p.id <= recId BY <2>1, <3>1
        <5> QED BY <4>1, <5>1
      <4>3. recId - pin.id < Len(list) BY <2>6, <3>2, <4>2
      <4>4. recId - p.id < Len(list) BY <2>6, <4>2, <4>3
      <4>5. pin.id <= recId BY <2>1, <3>1, <4>1
      <4>6. i \in 1 .. Len(list) BY <2>1, <2>6, <3>1, <4>1, <4>4, PlaceInWindow
      <4>7. j \in 1 .. Len(list) BY <2>1, <2>6, <4>1, <4>3, <4>5, PlaceInWindow
      <4> QED BY <4>2, <4>6, <4>7
    <3>4. list[i] # SEQ_UNSEEN
      <4>1. recId - p.id < Len(seqList)
        <5>1. i <= Len(seqList) /\ p.id \in Nat BY <2>1, <2>2, <3>3
        <5> QED BY <2>1, <5>1
      <4>2. seqList[i] # SEQ_UNSEEN BY <4>1 DEF WindowInv, PacketInv, Remembered
      <4> QED BY <2>2, <3>3, <4>2
    <3>5. p.id = recId - i + 1 BY <2>1
    <3> HIDE DEF i, j
    <3>6. list[i] = SEQ_EXPIRED
      <4> SUFFICES ASSUME list[i] # SEQ_EXPIRED PROVE FALSE
        OBVIOUS
      <4>1. PICK q \in accepted : q.time = recTime /\ q.id = p.id /\ arrived[q] = list[i]
        BY <2>2, <3>3, <3>4, <3>5 DEF Filled
      <4>2. q = p BY <2>1, <2>3, <4>1
      <4>3. list[i] = arrived[p] /\ list[i] > SEQ_EXPIRED
        BY <2>1, <3>4, <4>1, <4>2 DEF SEQ_UNSEEN, SEQ_EXPIRED
      <4>4. arrived[p] + TimeBacktrack >= NextReap BY <2>2, <3>3, <4>3 DEF Fresh
      <4> QED BY <2>1, <4>4 DEF NextReap, MustReap
    <3>7. list[j] = SEQ_EXPIRED
      <4>1. i < j \/ i = j BY <3>3
      <4> QED BY <2>2, <3>3, <3>6, <4>1 DEF ExpiredLast
    <3> QED BY <3>2, <3>7 DEF SEQ_UNSEEN, SEQ_EXPIRED
  <2> QED BY <2>4, <2>5
<1> QED BY <1>1, WindowInvariant, PTL
================================================================================
