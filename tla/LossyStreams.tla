----------------------------- MODULE LossyStreams -----------------------------
(***************************************************************************)
(* What the agent's stream promises, whatever becomes of its connections.  *)
(* queue[Live] leads from the source to the collector; the queues before   *)
(* it belong to streams that were given up while the collector could still *)
(* receive something of them, and it does so beside the live one or not at *)
(* all.  An event is refused or dropped only when Capacity of them are     *)
(* ahead of it; a connection that fails loses at most the Slack events at  *)
(* the head of its queue; and when the source closes it may cut off the    *)
(* newest.                                                                 *)
(***************************************************************************)
EXTENDS Naturals, Sequences

CONSTANTS Capacity, Slack

VARIABLES open, offered, queue, delivered

vars == <<open, offered, queue, delivered>>

Live == Len(queue)

Init ==
    /\ open = TRUE /\ offered = 0
    /\ queue = << <<>> >> /\ delivered = << <<>> >>

Accept ==
    /\ open
    /\ offered' = offered + 1
    /\ queue' = [queue EXCEPT ![Live] = Append(queue[Live], offered + 1)]
    /\ UNCHANGED <<open, delivered>>

Refuse ==
    /\ open /\ Len(queue[Live]) >= Capacity
    /\ offered' = offered + 1
    /\ UNCHANGED <<open, queue, delivered>>

Deliver(s) ==
    /\ queue[s] # <<>>
    /\ delivered' = [delivered EXCEPT ![s] = Append(delivered[s], Head(queue[s]))]
    /\ queue' = [queue EXCEPT ![s] = Tail(queue[s])]
    /\ UNCHANGED <<open, offered>>

Lose(s) ==
    /\ \E k \in 1 .. Len(queue[s]) :
          k <= Slack /\ queue' = [queue EXCEPT ![s] = SubSeq(queue[s], k + 1, Len(queue[s]))]
    /\ UNCHANGED <<open, offered, delivered>>

Drop ==
    /\ \E k \in 1 .. Len(queue[Live]) :
          /\ k > Capacity
          /\ queue' = [queue EXCEPT ![Live] =
                          SubSeq(queue[Live], 1, k - 1)
                              \o SubSeq(queue[Live], k + 1, Len(queue[Live]))]
    /\ UNCHANGED <<open, offered, delivered>>

\* The stream is given up: its first i events stay behind where the collector
\* may still receive them, those up to k are lost, and the rest goes on.
GiveUp ==
    /\ \E k \in 1 .. Len(queue[Live]), i \in 1 .. Len(queue[Live]) :
          /\ i <= k /\ k <= Slack
          /\ queue' = Append([queue EXCEPT ![Live] = SubSeq(queue[Live], 1, i)],
                             SubSeq(queue[Live], k + 1, Len(queue[Live])))
    /\ delivered' = Append(delivered, <<>>)
    /\ UNCHANGED <<open, offered>>

Close ==
    /\ open /\ open' = FALSE
    /\ \E k \in 0 .. Len(queue[Live]) :
          queue' = [queue EXCEPT ![Live] = SubSeq(queue[Live], 1, k)]
    /\ UNCHANGED <<offered, delivered>>

Next == \/ Accept \/ Refuse \/ Drop \/ GiveUp \/ Close
        \/ \E s \in 1 .. Live : Deliver(s) \/ Lose(s)

Spec == Init /\ [][Next]_vars
-----------------------------------------------------------------------------
(***************************************************************************)
(* Each stream delivers events in the order of the source, and a stream    *)
(* only events newer than any that an earlier one delivers, however late:  *)
(* no event is delivered twice, on one stream or on two.                   *)
(***************************************************************************)
DeliveredInOrder ==
    \A s, t \in 1 .. Len(delivered) :
        \A i \in 1 .. Len(delivered[s]), j \in 1 .. Len(delivered[t]) :
            s < t \/ (s = t /\ i < j) => delivered[s][i] < delivered[t][j]
=============================================================================
