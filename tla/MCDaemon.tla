------------------------------ MODULE MCDaemon ------------------------------
(* Instances of Daemon for TLC.                                            *)
EXTENDS Daemon

MCGroups == {3}
MCTimes == {1750}
MCBackground == {TRUE}
MCEitherMode == BOOLEAN
=============================================================================
