------------------------------ MODULE FramePart ------------------------------
(***************************************************************************)
(* The frame-stream protocol of frame_stream.proto, as the receivers see   *)
(* it.  The sonar cuts every raw frame into FramePart datagrams.  The data *)
(* is abstracted to parts of unit size: a frame of size n travels as n     *)
(* FramePart messages whose dataOffset runs through 0 .. n-1, and only the *)
(* first of them carries the frame header.                                 *)
(*                                                                         *)
(* Stream is everything one sonar sends, in the order it sends it.  A      *)
(* sonar that restarts counts its frames from the beginning again, so two  *)
(* raw frames of Stream may carry the same index.                          *)
(***************************************************************************)
EXTENDS Integers, Sequences

CONSTANT Stream  \* the raw frames the sonar sends, first to last

\* What is known of a raw frame: the index the sonar gave it, the size of its
\* sample data, and whether its header has any bytes.
RawFrame == [index : Nat, size : Nat \ {0}, header : BOOLEAN]

ASSUME StreamAssumption == Stream \in Seq(RawFrame)

\* A datagram names the raw frame it was cut from; receivers do not see this
\* field, only the operators below.
Packets == UNION {[frame : {f}, dataOffset : 0 .. Stream[f].size - 1] :
                     f \in DOMAIN Stream}

FrameIndex(p) == Stream[p.frame].index

TotalDataSize(p) == Stream[p.frame].size

HasHeader(p) == p.dataOffset = 0 /\ Stream[p.frame].header

\* No other frame the sonar sends has this one's index.
HasOwnIndex(f) == \A g \in DOMAIN Stream : Stream[g].index = Stream[f].index => g = f

AllPartsOf(f) == [k \in 1 .. Stream[f].size |-> [frame |-> f, dataOffset |-> k - 1]]

-----------------------------------------------------------------------------
\* The parts collected for one frame, in the order they were appended.

\* The parts are parts 0, 1, 2, ... of frames with one and the same index: no
\* gap, no part twice, nothing of a frame with another index.  All of them are
\* of one raw frame only if no two frames involved share that index.
IsRunOfOneIndex(parts) ==
    \A k \in DOMAIN parts : /\ parts[k].dataOffset = k - 1
                            /\ FrameIndex(parts[k]) = FrameIndex(parts[1])

\* As far as a receiver can tell, which knows indexes and offsets only, the
\* parts are all the parts of a frame.
LooksWhole(parts) == /\ parts # <<>>
                     /\ IsRunOfOneIndex(parts)
                     /\ Len(parts) = TotalDataSize(parts[1])

\* The parts are indeed all the parts of one raw frame.
IsWhole(parts) == parts # <<>> /\ parts = AllPartsOf(parts[1].frame)
=============================================================================
