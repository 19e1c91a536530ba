----------------------------- MODULE CommandsMC -----------------------------
(* A small instance of Commands. *)
EXTENDS Commands

\* A status of no state of its own: the word done stands for happy.
MCShapes == {[action |-> NoName, status |-> "task", words |-> {"done", "error"}, text |-> TRUE]}

MCConfigs == {[w |-> 1, h |-> 1, fps |-> 0], [w |-> 2, h |-> 0, fps |-> 0],
              [w |-> 0, h |-> 0, fps |-> 5]}
MCSupported == {<<1, 1>>}
=============================================================================
