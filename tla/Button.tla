------------------------------ MODULE Button -------------------------------
(***************************************************************************)
(* The talk button (hal_button.c): a pin of the I/O expander that the      *)
(* voice task polls.  A read of the expander may fail; the driver then     *)
(* keeps the state it knows and leaves the expander alone for a while.     *)
(* Times are left out: after a failure a poll may or may not come within   *)
(* the cooldown.  The 50 ms of the debounce are shorter than the 60 ms     *)
(* between two polls and never tell.                                       *)
(***************************************************************************)
EXTENDS Naturals

CONSTANTS
    MaxTurns,       \* bound: times the user presses or lets go
    MaxFailures     \* bound: reads that fail

ASSUME ButtonAssumption == {MaxTurns, MaxFailures} \subseteq Nat

VARIABLES
    held,           \* external: the user holds the button
    pressed,        \* g_is_pressed
    backend,        \* g_backend_ready, and g_callback with it
    probe,          \* g_probe_cached and g_probe_ready
    turns, failures

button == <<held, pressed, backend, probe, turns, failures>>

ButtonInit ==
    /\ held = FALSE /\ pressed = FALSE /\ backend = FALSE /\ probe = "none"
    /\ turns = 0 /\ failures = 0

User ==
    /\ turns < MaxTurns /\ turns' = turns + 1
    /\ held' = ~held
    /\ UNCHANGED <<pressed, backend, probe, failures>>

-----------------------------------------------------------------------------
(* hal_button_poll *)

\* Without a backend, or within the cooldown, the expander is not read.
PollSkips ==
    /\ ~backend \/ probe = "failed"
    /\ UNCHANGED button

PollFails ==
    /\ backend /\ failures < MaxFailures /\ failures' = failures + 1
    /\ probe' = "failed"
    /\ UNCHANGED <<held, pressed, backend, turns>>

PollReads ==
    /\ backend
    /\ probe' = "ready" /\ pressed' = held
    /\ UNCHANGED <<held, backend, turns, failures>>

-----------------------------------------------------------------------------
(* hal_button_init and hal_button_deinit *)

\* The expander answers the probe, cached or not, and the first read.
Attach ==
    /\ pressed' = held /\ backend' = TRUE /\ probe' = "ready"
    /\ UNCHANGED <<held, turns, failures>>

\* The expander fails the probe, which is made unless an earlier one is known to be good.
ProbeFails ==
    /\ probe # "ready" /\ failures < MaxFailures /\ failures' = failures + 1
    /\ probe' = "failed"
    /\ UNCHANGED <<held, pressed, backend, turns>>

\* The probe is good, and the first read fails.
AttachFails ==
    /\ failures < MaxFailures /\ failures' = failures + 1
    /\ probe' = "ready" /\ pressed' = FALSE /\ backend' = FALSE
    /\ UNCHANGED <<held, turns>>

\* The probe has failed lately, and is not made again.
AttachSkipped ==
    /\ probe = "failed"
    /\ UNCHANGED button

Detach ==
    /\ backend' = FALSE
    /\ UNCHANGED <<held, pressed, probe, turns, failures>>

ButtonTypeOK ==
    /\ {held, pressed, backend} \subseteq BOOLEAN /\ probe \in {"none", "failed", "ready"}
    /\ turns \in 0 .. MaxTurns /\ failures \in 0 .. MaxFailures

=============================================================================
