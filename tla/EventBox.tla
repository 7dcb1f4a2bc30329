------------------------------ MODULE EventBox ------------------------------
(***************************************************************************)
(* What CObjEventQueue promises to its callers, without its threads' list, *)
(* its flags and its wake-ups: an event that PostEvent accepted for one    *)
(* thread is executed by that thread, an event for the shared queue by any *)
(* thread; each box is first in, first out; an event is executed at most   *)
(* once and an accepted event that has not been executed is still there.   *)
(***************************************************************************)
EXTENDS Sequences

CONSTANTS Threads, Events, Imp, NoEvent

Dest == Threads \cup {Imp}
Idle == [from |-> Imp, event |-> NoEvent]

VARIABLES
    posted,     \* the events that were put into a box
    box,        \* the events waiting in each box
    hand,       \* what each thread is executing and where it took it
    executed    \* the events whose OnExecute has returned

bvars == <<posted, box, hand, executed>>

Init ==
    /\ posted = {}
    /\ box = [d \in Dest |-> <<>>]
    /\ hand = [t \in Threads |-> Idle]
    /\ executed = {}

Put(e, d) ==
    /\ e \notin posted
    /\ posted' = posted \cup {e}
    /\ box' = [box EXCEPT ![d] = Append(@, e)]
    /\ UNCHANGED <<hand, executed>>

Take(t, d) ==
    /\ d \in {t, Imp} /\ box[d] # <<>> /\ hand[t].event = NoEvent
    /\ hand' = [hand EXCEPT ![t] = [from |-> d, event |-> Head(box[d])]]
    /\ box' = [box EXCEPT ![d] = Tail(@)]
    /\ UNCHANGED <<posted, executed>>

Finish(t) ==
    /\ hand[t].event # NoEvent
    /\ hand[t].event \notin executed
    /\ executed' = executed \cup {hand[t].event}
    /\ hand' = [hand EXCEPT ![t] = Idle]
    /\ UNCHANGED <<posted, box>>

Next ==
    \/ \E e \in Events, d \in Dest : Put(e, d)
    \/ \E t \in Threads : Finish(t) \/ \E d \in Dest : Take(t, d)

Spec == Init /\ [][Next]_bvars
=============================================================================
