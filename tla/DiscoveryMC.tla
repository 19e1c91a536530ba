---------------------------- MODULE DiscoveryMC -----------------------------
(***************************************************************************)
(* Three servers: one of the version of the firmware, one of another, and  *)
(* one that announces none.                                                *)
(***************************************************************************)
EXTENDS Discovery

MCServers == {"good", "old", "mute"}

MCVersion == [good |-> "0.1.5", old |-> "0.1.4", mute |-> "missing"]

=============================================================================
