--------------------------- MODULE MCReservation ---------------------------
(* Reservation on small sets of workers and reservation rows.              *)
EXTENDS Reservation, TLC

\* Workers and reservation rows are interchangeable (safety runs only).
Symmetry == Permutations(Workers) \cup Permutations(Reservations)
=============================================================================
