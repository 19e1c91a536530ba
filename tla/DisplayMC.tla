----------------------------- MODULE DisplayMC ------------------------------
(***************************************************************************)
(* The instance of Display that TLC checks: a looped animation longer than *)
(* the ring, a still one, and one that ends.                               *)
(***************************************************************************)
EXTENDS Display

MCFrameCount ==
    [t \in Types |-> CASE t = Happy -> 3 [] t = Standby -> 1 [] OTHER -> 2]

=============================================================================
