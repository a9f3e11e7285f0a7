----------------------------- MODULE OrderedDelivery ---------------------------
(***************************************************************************)
(* What the reliability layer promises the TLS object: per end, what the   *)
(* peer handed over comes out once, in order and without gaps, however the *)
(* network treats the packets.                                             *)
(***************************************************************************)
EXTENDS Naturals, Sequences

CONSTANT Ends

VARIABLES
    handed,   \* handed[e]: how many messages end e has handed over, 0, 1, ...
    taken     \* taken[e]: the messages end e took out

OrderedInit ==
    /\ handed = [e \in Ends |-> 0]
    /\ taken = [e \in Ends |-> <<>>]

HandOver(e) ==
    /\ handed' = [handed EXCEPT ![e] = @ + 1]
    /\ UNCHANGED taken

TakeOut(e) ==
    /\ \E f \in Ends \ {e} : Len(taken[e]) < handed[f]
    /\ taken' = [taken EXCEPT ![e] = Append(@, Len(@))]
    /\ UNCHANGED handed

OrderedNext == \E e \in Ends : HandOver(e) \/ TakeOut(e)

OrderedSpec == OrderedInit /\ [][OrderedNext]_<<handed, taken>>
================================================================================
