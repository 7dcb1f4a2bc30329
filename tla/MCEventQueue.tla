---------------------------- MODULE MCEventQueue ----------------------------
(* Small instances of EventQueue. *)
EXTENDS EventQueue, TLC

\* Events are interchangeable; threads are not (the list has an order).
EventSymmetry == Permutations(Events)
=============================================================================
