------------------------ MODULE TransportCoordinatorMC ------------------------
(***************************************************************************)
(* Instances of TransportCoordinator: what happens in the behaviours of    *)
(* each run.                                                               *)
(***************************************************************************)
EXTENDS TransportCoordinator

CONSTANTS u1, u2

Quiet == [servers |-> {u1}, kinds |-> {}, mishaps |-> 0, sessions |-> 0, edits |-> 0]

\* A change of the credentials in a BLE session, or the loss of the access point
Edited    == [Quiet EXCEPT !.sessions = 1, !.edits = 1, !.kinds = {"store"}, !.mishaps = 1]
LostInBle == [Quiet EXCEPT !.sessions = 1, !.kinds = {"loss"}, !.mishaps = 1]

\* Three faults that the code tries again; the access point lost, and memory short until a
\* recovery has begun and once more
Faults  == [Quiet EXCEPT !.servers = {u1, u2}, !.mishaps = 3,
                         !.kinds = {"loss", "drop", "moved", "search", "heap", "init", "start"}]
ShortOf == [Quiet EXCEPT !.kinds = {"loss", "heap"}, !.mishaps = 5]

\* What the code does not try again: a station that does not start and connections that fail, at
\* once or early; a handle that is kept when the server moves
Untried == [Quiet EXCEPT !.kinds = {"radio", "connect", "early"}, !.mishaps = 2]
Kept    == [Quiet EXCEPT !.servers = {u1, u2}, !.kinds = {"moved", "postponed"}, !.mishaps = 1]

MCBounds == {Edited, LostInBle, Faults, ShortOf, Untried, Kept}

=============================================================================
