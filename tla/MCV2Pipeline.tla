---------------------------- MODULE MCV2Pipeline ----------------------------
(***************************************************************************)
(* Model checking of V2Pipeline on the captures of MCTraffic, with two     *)
(* workers: enough for every interleaving of one worker with another and   *)
(* with the main thread.                                                   *)
(***************************************************************************)
EXTENDS V2Pipeline, MCTraffic

\* The CRC-32 of a flow: its lower endpoint's address, so that addresses 1 and
\* 2 fall to different workers.
MCCrc32 == [flow \in Endpoints \X Protocol |-> flow[1][1]]
=============================================================================
