------------------------------ MODULE MCConsole ------------------------------
(* Three events of two nodes.  The first two share a second, and the later  *)
(* of them has the smaller key.  Two agents' clocks are wrong.              *)
EXTENDS Console

At(sec, d1, d2) == [sec |-> sec, frac |-> <<d1, d2>>]

MCReceived == <<
    [node |-> "a", id |-> 2, at |-> At(1, 0, 0), claimed |-> At(1, 0, 0)],
    [node |-> "b", id |-> 1, at |-> At(1, 5, 0), claimed |-> At(9, 0, 0)],
    [node |-> "a", id |-> 3, at |-> At(2, 0, 5), claimed |-> At(0, 3, 0)]>>

MCViews == {[node |-> "", limit |-> 2], [node |-> "a", limit |-> 1],
            [node |-> "b", limit |-> 2]}

MCFirstView == [node |-> "", limit |-> 2]
=============================================================================
