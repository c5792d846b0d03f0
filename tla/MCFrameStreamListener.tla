------------------------ MODULE MCFrameStreamListener ------------------------
(***************************************************************************)
(* A small instance of the frame stream for TLC.                           *)
(***************************************************************************)
EXTENDS FrameStreamListener

\* The client joins at frame 2 of a first run of the sonar.  The header of
\* frame 3 is empty.  Then the sonar restarts and sends frame 1, and a frame 2
\* whose size differs from that of the old frame 2.
MCStream == << [index |-> 2, size |-> 2, header |-> TRUE],
               [index |-> 3, size |-> 1, header |-> FALSE],
               [index |-> 1, size |-> 2, header |-> TRUE],
               [index |-> 2, size |-> 3, header |-> TRUE] >>

\* A shorter stream for the run that checks liveness, the last frame of it without
\* a header.
MCShortStream == << [index |-> 2, size |-> 2, header |-> TRUE],
                    [index |-> 1, size |-> 1, header |-> TRUE],
                    [index |-> 3, size |-> 1, header |-> FALSE] >>

\* Two frames in a row, for the runs that show a disagreement.
MCTwoFrames == << [index |-> 1, size |-> 2, header |-> TRUE],
                  [index |-> 2, size |-> 2, header |-> TRUE] >>
=============================================================================
