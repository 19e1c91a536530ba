---------------------------- MODULE AudioUplinkMC ----------------------------
(***************************************************************************)
(* Instances of AudioUplink.  One run covers three kinds of behaviour,     *)
(* which differ in what they may still do: three frames in a queue of two  *)
(* on one connection, two frames across two connections in turn, or one    *)
(* frame on a connection that a ws_client_stop ends.                       *)
(***************************************************************************)
EXTENDS AudioUplink

\* Of 3 frames, 2 connections and 1 stop
MCSpent ==
    {[frames |-> 0, conns |-> 1, stops |-> 1],
     [frames |-> 1, conns |-> 0, stops |-> 1],
     [frames |-> 2, conns |-> 1, stops |-> 0]}

=============================================================================
