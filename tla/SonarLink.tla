------------------------------ MODULE SonarLink ------------------------------
(***************************************************************************)
(* The UDP link between the sonar and a receiver.  It is outside this      *)
(* repository; this is all its receivers may assume of it.                 *)
(***************************************************************************)
EXTENDS FramePart

VARIABLES steady,    \* whether this behaviour's link and sonar are steady
          delivered  \* what a steady link has handed to the receiver

linkVars == <<steady, delivered>>

LinkInit == /\ steady \in BOOLEAN
            /\ delivered = {}

SentBefore(q, p) == \/ q.frame < p.frame
                    \/ q.frame = p.frame /\ q.dataOffset < p.dataOffset

\* UDP may lose, repeat and reorder what the sonar sends.  A steady link only
\* loses datagrams.
Transmit(p) == /\ steady => \A q \in delivered : SentBefore(q, p)
               /\ delivered' = IF steady THEN delivered \cup {p} ELSE delivered
               /\ UNCHANGED steady

\* What a steady link has delivered of the raw frame f.
AllDelivered(f) == \A p \in Packets : p.frame = f => p \in delivered
=============================================================================
