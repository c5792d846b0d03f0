-------------------------- MODULE MCCppFrameStream --------------------------
(***************************************************************************)
(* A small instance of the C++ frame stream for TLC.                       *)
(***************************************************************************)
EXTENDS CppFrameStream

\* Frames of different sizes; the header of frame 3 is empty; then the sonar
\* restarts, sends two frames of lower indexes, and one whose index it has used.
MCStream == << [index |-> 1, size |-> 3, header |-> TRUE],
               [index |-> 4, size |-> 2, header |-> TRUE],
               [index |-> 5, size |-> 1, header |-> FALSE],
               [index |-> 2, size |-> 2, header |-> TRUE],
               [index |-> 3, size |-> 3, header |-> TRUE],
               [index |-> 4, size |-> 1, header |-> TRUE] >>

\* Two frames of one sonar that never restarts.
MCTwoFrames == << [index |-> 1, size |-> 2, header |-> TRUE],
                  [index |-> 2, size |-> 2, header |-> TRUE] >>
=============================================================================
