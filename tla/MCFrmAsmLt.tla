----------------------------- MODULE MCFrmAsmLt -----------------------------
(***************************************************************************)
(* A small instance of the lite assembler for TLC.                         *)
(***************************************************************************)
EXTENDS FrmAsmLt, TLC

\* Frames of different sizes; the header part of frame 3 has not a header's size.
MCStream == << [index |-> 1, size |-> 3, header |-> TRUE],
               [index |-> 2, size |-> 4, header |-> TRUE],
               [index |-> 3, size |-> 3, header |-> FALSE],
               [index |-> 4, size |-> 2, header |-> TRUE] >>

\* Parts of one sample and of two, and smaller ones at the end of a frame: frame 1
\* with part 2 of frame 2 overruns, with those of frame 3 it needs a third one.
MCSamplesTo == << (0 :> 0 @@ 1 :> 2 @@ 2 :> 3),
                  (0 :> 0 @@ 1 :> 2 @@ 2 :> 4 @@ 3 :> 5),
                  (0 :> 0 @@ 1 :> 1 @@ 2 :> 2),
                  (0 :> 0 @@ 1 :> 1) >>
=============================================================================
