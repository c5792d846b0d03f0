----------------------------- MODULE WholeFrames -----------------------------
(***************************************************************************)
(* What a client may rely on, whichever receiver assembles the frames: the *)
(* frames it is handed are numbered 0, 1, 2, ... without a gap, and each   *)
(* is made of datagrams the receiver took.  A frame whose index no other   *)
(* frame has is exactly the parts of one raw frame.  Where a sonar that    *)
(* restarted uses an index again, receivers cannot tell the two frames     *)
(* apart, and the client may be handed parts of both as one: no part is    *)
(* missing and none is there twice, but the frame is no raw frame.         *)
(* Nothing is ever taken back.                                             *)
(*                                                                         *)
(* How many frames come out of one datagram, which frames are dropped, and *)
(* whether a frame that is sent twice comes out twice, is left open.       *)
(***************************************************************************)
EXTENDS FramePart

VARIABLES accepted,   \* the datagrams whose data went into some frame
          published   \* the frames handed to the client: [number, parts]

vars == <<accepted, published>>

\* A frame a client may be handed, given the datagrams taken so far.
IsDeliverable(frame, taken) ==
    /\ LooksWhole(frame.parts)
    /\ HasOwnIndex(frame.parts[1].frame) => IsWhole(frame.parts)
    /\ \A k \in DOMAIN frame.parts : frame.parts[k] \in taken

Init == /\ accepted = {}
        /\ published = <<>>

\* A datagram is taken, a frame is handed over, or both.
Take == /\ accepted \subseteq accepted'
        /\ accepted' \subseteq Packets

HandOver == /\ Len(published) =< Len(published')
            /\ \A k \in DOMAIN published : published'[k] = published[k]
            /\ \A k \in (Len(published) + 1) .. Len(published') :
                  /\ published'[k].number = k - 1
                  /\ IsDeliverable(published'[k], accepted')

Next == Take /\ HandOver

Spec == Init /\ [][Next]_vars
=============================================================================
