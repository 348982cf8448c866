------------------------------ MODULE EventFeed ------------------------------
(***************************************************************************)
(* What the fan-out promises each viewer: the events posted to it come in  *)
(* the order they were posted, each at most once; a viewer that falls      *)
(* behind skips the oldest, and only those that Depth newer ones follow.   *)
(***************************************************************************)
EXTENDS Naturals

CONSTANTS Viewers, Depth

VARIABLES
    posted,    \* how many events were posted to each viewer
    taken      \* the number of the event it took last

Init == posted = [v \in Viewers |-> 0] /\ taken = [v \in Viewers |-> 0]

Post(v) == posted' = [posted EXCEPT ![v] = @ + 1] /\ UNCHANGED taken

\* The oldest of the last Depth events that v has not taken yet.
Take(v) ==
    /\ taken[v] < posted[v]
    /\ taken' = [taken EXCEPT ![v] =
                    IF posted[v] - @ > Depth THEN posted[v] - Depth + 1 ELSE @ + 1]
    /\ UNCHANGED posted

Next == \E v \in Viewers : Post(v) \/ Take(v)

Spec == Init /\ [][Next]_<<posted, taken>>
=============================================================================
