---------------------------- MODULE NetworkSpace ----------------------------
(***************************************************************************)
(* The route calculator of the VPN service (core/NetworkSpace.java).       *)
(*                                                                         *)
(* The server and the profile name networks to send through the VPN        *)
(* (included) and networks to leave alone (excluded); they may be nested.  *)
(* Android's VpnService takes only included routes, so generateIPList()    *)
(* splits the configured networks into disjoint ones of one type each.     *)
(* Each pass through its while loop is one step here.                      *)
(*                                                                         *)
(* An address has Width bits (32 or 128 in the code).  A network is its    *)
(* first address, its mask length and its type; compareTo() and equals()   *)
(* look at the first two only, so the TreeSets hold one network for each   *)
(* pair, and a PriorityQueue may hold two of different type.               *)
(***************************************************************************)
EXTENDS Integers, FiniteSets, Bags, BagsExt

CONSTANTS
    Width,         \* bits of an address
    MaxIncluded,   \* included networks configured, at most
    MaxExcluded    \* excluded networks configured, at most

ASSUME WidthAssumption == Width \in Nat \ {0}

VARIABLES
    mIpAddresses,  \* the configured networks (a TreeSet)
    networks,      \* the PriorityQueue of networks still to look at (a bag)
    currentNet,    \* the network being placed, or NoNet
    ipsDone,       \* the disjoint networks found so far (a TreeSet)
    phase          \* "config", "merge" (inside generateIPList) or "done"

vars == <<mIpAddresses, networks, currentNet, ipsDone, phase>>
-----------------------------------------------------------------------------
NoNet == [first |-> 0, mask |-> Width + 2, included |-> FALSE]

\* The number of addresses below a mask of this length; masks longer than an
\* address have no bits to clear and stand for one address, as in the loop of
\* getMaskedAddress().
Size(mask) == IF mask >= Width THEN 1 ELSE 2 ^ (Width - mask)

Addresses == 0 .. 2 ^ Width - 1

\* The networks the callers pass in: normalise() has cleared the host bits.
ConfigNets == {n \in [first : Addresses, mask : 0 .. Width, included : BOOLEAN] :
                  n.first % Size(n.mask) = 0}

LastAddress(n) == n.first + Size(n.mask) - 1

Covers(n, a) == n.first <= a /\ a <= LastAddress(n)

Contains(n, o) == n.first <= o.first /\ LastAddress(n) >= LastAddress(o)

\* equals() and compareTo() = 0: the type is ignored.
SameNet(n, o) == n.first = o.first /\ n.mask = o.mask

\* compareTo() < 0: by first address, then the smaller network first.
Before(n, o) ==
    \/ n.first < o.first
    \/ n.first = o.first /\ n.mask > o.mask

\* TreeSet.add() leaves an equal element where it is.
TreeAdd(set, n) == IF \E o \in set : SameNet(n, o) THEN set ELSE set \cup {n}

FirstHalf(n) == [n EXCEPT !.mask = @ + 1]
SecondHalf(n) == [n EXCEPT !.mask = @ + 1, !.first = LastAddress(FirstHalf(n)) + 1]

\* The elements poll() may return: a least one; PriorityQueue breaks ties
\* between equal ones arbitrarily.
Heads(queue) ==
    {n \in BagToSet(queue) : \A o \in BagToSet(queue) : ~Before(o, n)}

Poll(queue, n) == BagRemove(queue, n)

Add(queue, n) == BagAdd(queue, n)

AddUnlessPresent(queue, n) ==
    IF \E o \in BagToSet(queue) : SameNet(n, o) THEN queue ELSE Add(queue, n)
-----------------------------------------------------------------------------
Init ==
    /\ mIpAddresses = {}
    /\ networks = EmptyBag
    /\ currentNet = NoNet
    /\ ipsDone = {}
    /\ phase = "config"

\* addIP(), addIPv6()
AddIP(n) ==
    /\ phase = "config"
    /\ Cardinality({o \in mIpAddresses : o.included = n.included}) <
          (IF n.included THEN MaxIncluded ELSE MaxExcluded)
    /\ mIpAddresses' = TreeAdd(mIpAddresses, n)
    /\ UNCHANGED <<networks, currentNet, ipsDone, phase>>

\* clear(), which openTun() calls once it has used the routes.
Clear ==
    /\ phase = "done"
    /\ mIpAddresses' = {}
    /\ networks' = EmptyBag
    /\ currentNet' = NoNet
    /\ ipsDone' = {}
    /\ phase' = "config"

Generate ==
    /\ phase = "config"
    /\ phase' = "merge"
    /\ IF mIpAddresses = {}
       THEN networks' = EmptyBag /\ currentNet' = NoNet
       ELSE \E n \in Heads(SetToBag(mIpAddresses)) :
               /\ currentNet' = n
               /\ networks' = Poll(SetToBag(mIpAddresses), n)
    /\ UNCHANGED <<mIpAddresses, ipsDone>>

Finish ==
    /\ phase = "merge" /\ currentNet = NoNet
    /\ phase' = "done"
    /\ UNCHANGED <<mIpAddresses, networks, currentNet, ipsDone>>

\* The queue is empty: currentNet is placed and nothing follows.
PlaceLast ==
    /\ phase = "merge" /\ currentNet # NoNet /\ networks = EmptyBag
    /\ ipsDone' = TreeAdd(ipsDone, currentNet)
    /\ currentNet' = NoNet
    /\ UNCHANGED <<mIpAddresses, networks, phase>>

\* Mutant: only the first addresses are compared.
ApartByFirst(current, next) == current.first < next.first

Apart(current, next) == LastAddress(current) < next.first

\* currentNet begins where nextNet begins and is no larger.
Inside(current, next) == current.first = next.first /\ current.mask >= next.mask

\* nextNet lies behind currentNet.
PlaceCurrent(next) ==
    /\ Apart(currentNet, next)
    /\ ipsDone' = TreeAdd(ipsDone, currentNet)
    /\ currentNet' = next
    /\ networks' = Poll(networks, next)

\* nextNet covers currentNet and has its type: forget currentNet.
ForgetCurrent(next) ==
    /\ ~Apart(currentNet, next) /\ Inside(currentNet, next)
    /\ currentNet.included = next.included
    /\ currentNet' = next
    /\ networks' = Poll(networks, next)
    /\ UNCHANGED ipsDone

\* Mutant: the contains() checks are left out.
SplitNextUnchecked(next) ==
    /\ ~Apart(currentNet, next) /\ Inside(currentNet, next)
    /\ currentNet.included # next.included
    /\ LET queue == Add(Poll(networks, next), SecondHalf(next))
       IN networks' =
             IF LastAddress(FirstHalf(next)) = LastAddress(currentNet)
             THEN queue ELSE Add(queue, FirstHalf(next))
    /\ UNCHANGED <<currentNet, ipsDone>>

\* Mutant: the split network stays in the queue beside its halves.
SplitNextKept(next) ==
    /\ ~Apart(currentNet, next) /\ Inside(currentNet, next)
    /\ currentNet.included # next.included
    /\ networks' = AddUnlessPresent(networks, SecondHalf(next))
    /\ UNCHANGED <<currentNet, ipsDone>>

\* nextNet covers currentNet and has the other type: its halves go back to
\* the queue, except a first half that is currentNet.
SplitNext(next) ==
    /\ ~Apart(currentNet, next) /\ Inside(currentNet, next)
    /\ currentNet.included # next.included
    /\ LET queue == AddUnlessPresent(Poll(networks, next), SecondHalf(next))
       IN networks' =
             IF LastAddress(FirstHalf(next)) = LastAddress(currentNet)
             THEN queue ELSE AddUnlessPresent(queue, FirstHalf(next))
    /\ UNCHANGED <<currentNet, ipsDone>>

\* nextNet lies in a larger currentNet of the same type: forget nextNet.
ForgetNext(next) ==
    /\ ~Apart(currentNet, next) /\ ~Inside(currentNet, next)
    /\ currentNet.included = next.included
    /\ networks' = Poll(networks, next)
    /\ UNCHANGED <<currentNet, ipsDone>>

\* Mutant: the second half is queued even where nextNet already is that half.
SplitCurrentTwice(next) ==
    /\ ~Apart(currentNet, next) /\ ~Inside(currentNet, next)
    /\ currentNet.included # next.included
    /\ networks' = Add(networks, SecondHalf(currentNet))
    /\ currentNet' = FirstHalf(currentNet)
    /\ UNCHANGED ipsDone

\* nextNet lies in a larger currentNet of the other type: go on with the first
\* half of currentNet; the second goes to the queue unless it has the length
\* of nextNet and so, by the assertion at this place, is nextNet.
SplitCurrent(next) ==
    /\ ~Apart(currentNet, next) /\ ~Inside(currentNet, next)
    /\ currentNet.included # next.included
    /\ networks' = IF SecondHalf(currentNet).mask = next.mask
                   THEN networks
                   ELSE Add(networks, SecondHalf(currentNet))
    /\ currentNet' = FirstHalf(currentNet)
    /\ UNCHANGED ipsDone

Step(next) ==
    \/ PlaceCurrent(next)
    \/ ForgetCurrent(next)
    \/ SplitNext(next)
    \/ ForgetNext(next)
    \/ SplitCurrent(next)

Merge ==
    /\ phase = "merge" /\ currentNet # NoNet
    /\ \E next \in Heads(networks) : Step(next)
    /\ UNCHANGED <<mIpAddresses, phase>>

Next ==
    \/ \E n \in ConfigNets : AddIP(n)
    \/ Clear
    \/ Generate
    \/ Merge
    \/ PlaceLast
    \/ Finish

Spec == Init /\ [][Next]_vars

\* generateIPList() is a loop of one thread: it goes on as long as it can.
FairSpec == Spec /\ WF_vars(Generate \/ Merge \/ PlaceLast \/ Finish)
-----------------------------------------------------------------------------
\* getPositiveIPList(): the included networks of the result and, before Android
\* 4.4, also the configured ones that the result does not list and that hold
\* no excluded network of the result.
PositiveIPs(legacy) ==
    {n \in ipsDone : n.included} \cup
    {n \in mIpAddresses :
        /\ legacy /\ n.included
        /\ ~\E d \in ipsDone : SameNet(n, d)
        /\ ~\E d \in ipsDone : ~d.included /\ Contains(n, d)}
-----------------------------------------------------------------------------
\* The reference: the most specific configured network covering an address
\* says whether it goes through the VPN, as in any routing table.
Routed(nets, a) ==
    \E n \in nets :
       /\ n.included /\ Covers(n, a)
       /\ \A o \in nets : Covers(o, a) => o.mask <= n.mask

Within(n, o) == Contains(n, o) /\ ~SameNet(n, o)

\* The block of twice the size that a network is a half of.
Parent(n) == [n EXCEPT !.mask = @ - 1, !.first = @ - (@ % Size(n.mask - 1))]

\* Configurations the algorithm is right about.  A network inside one of the
\* other type holds no further network; and of two networks inside one of the
\* other type, the later is not the sibling half of a block around the earlier
\* (unless they begin where the outer one begins).
Layered(nets) ==
    \A outer, inner, other \in nets :
       Within(outer, inner) /\ outer.included # inner.included =>
          /\ ~Within(inner, other)
          /\ ~ /\ Within(outer, other) /\ other.included = inner.included
               /\ outer.first < other.first /\ other.first < inner.first
               /\ Contains(Parent(inner), other)

\* An address goes through the VPN exactly when the most specific network
\* configured for it is an included one, with either version of Android: no
\* excluded address is captured and no included one leaks.
\* (generateIPList() and getPositiveIPList())
RoutesRight ==
    phase = "done" /\ Layered(mIpAddresses) =>
       \A a \in Addresses, legacy \in BOOLEAN :
          Routed(PositiveIPs(legacy), a) = Routed(mIpAddresses, a)

\* The calculated networks never overlap, whatever was configured, so Android
\* never gets to choose between two of them.  (generateIPList())
Disjoint ==
    \A n, o \in ipsDone :
       ~SameNet(n, o) => ~\E a \in Addresses : Covers(n, a) /\ Covers(o, a)

\* The assertions of a debug build about currentNet and nextNet: a network
\* that does not begin with nextNet is the larger one (lines 255-257), and its
\* second half, when as long as nextNet, is nextNet (lines 272-273).
AssertsHold ==
    phase = "merge" /\ currentNet # NoNet =>
       \A next \in Heads(networks) :
          ~Apart(currentNet, next) /\ ~Inside(currentNet, next) =>
             /\ currentNet.mask < next.mask
             /\ next.first > currentNet.first
             /\ LastAddress(currentNet) >= LastAddress(next)
             /\ currentNet.included # next.included
                   /\ SecondHalf(currentNet).mask = next.mask =>
                      SameNet(SecondHalf(currentNet), next)

\* In the configurations the algorithm is right about, no assertion fails.
\* (generateIPList())
LayeredAssertsHold == Layered(mIpAddresses) => AssertsHold

\* generateIPList() returns, whatever was configured: no two networks are
\* split against each other forever, which would hang the VPN's start.
Terminates == phase = "merge" ~> phase = "done"
=============================================================================
