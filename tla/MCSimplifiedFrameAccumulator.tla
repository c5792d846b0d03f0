--------------------- MODULE MCSimplifiedFrameAccumulator ---------------------
(***************************************************************************)
(* A small instance of the simplified protocol's accumulator for TLC.      *)
(***************************************************************************)
EXTENDS SimplifiedFrameAccumulator

\* Frame 6 has no valid header; then the sonar restarts and uses index 1 again,
\* for a frame of another size.
MCStream == << [index |-> 1, size |-> 3, header |-> TRUE],
               [index |-> 5, size |-> 4, header |-> TRUE],
               [index |-> 6, size |-> 2, header |-> FALSE],
               [index |-> 1, size |-> 2, header |-> TRUE],
               [index |-> 2, size |-> 3, header |-> TRUE] >>
=============================================================================
