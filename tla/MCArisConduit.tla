---------------------------- MODULE MCArisConduit ----------------------------
EXTENDS ArisConduit

\* The commands, cookies and sockets of which are not bounded by their type.
MCCommand == AnyCommand

\* Settings with a frame rate too high for the sonar are slowed down.
MCSettings == {"fast", "slow"}
MCConstrain == [s \in MCSettings |-> "slow"]
=============================================================================
