------------------------------- MODULE Calendar --------------------------------
(***************************************************************************)
(* What booking promises whatever the requests do concurrently: the        *)
(* bookings that hold a resource never overlap, and an appointment that    *)
(* gave its time back never holds time again.                              *)
(***************************************************************************)
EXTENDS Naturals

VARIABLES held,      \* bookings in force: [id, resource, start, end]
          released   \* ids of the appointments that gave their time back

Overlap(b, c) ==
    /\ b.resource = c.resource
    /\ b.start < c.end
    /\ c.start < b.end

Init ==
    /\ held = {}
    /\ released = {}

Reserve(b) ==
    /\ b \notin held
    /\ b.id \notin released
    /\ b.start < b.end
    /\ \A c \in held : c.id # b.id /\ ~Overlap(b, c)
    /\ held' = held \union {b}
    /\ UNCHANGED released

Release(b) ==
    /\ held' = held \ {b}
    /\ released' = released \union {b.id}

Next ==
    \/ \E b \in held' : Reserve(b)
    \/ \E b \in held : Release(b)

Spec == Init /\ [][Next]_<<held, released>>
================================================================================
