---------------------------- MODULE MCAppointments -----------------------------
(* Instances of Appointments for TLC. *)
EXTENDS Appointments, TLC

CONSTANTS r1, p1, p2, w1, w2

\* Two days of two instants; a service of half the day and one of all of it, so
\* that bookings on different grids can overlap; a daily series of two.
MCSeries == {[step |-> 2, extra |-> 1]}
MCNoSeries == {}
MCException == {[resource |-> r1, start |-> 3, end |-> 4]}

RequestSymmetry == Permutations(Request)
WorkerSymmetry == Permutations(Worker)
================================================================================
