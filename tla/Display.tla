------------------------------ MODULE Display -------------------------------
(***************************************************************************)
(* The screen: display_ui.c over the animation player of AnimPlayer.  The  *)
(* behaviour task shows the text and the picture of a state; other tasks   *)
(* set the text alone (behavior_state_set_text_style), and stop the        *)
(* animation before a recording and before the cloud connection            *)
(* (freeze_current_animation, transport_quiet_display_motion).  None of    *)
(* display_ui.c's state has a lock; each call of the HAL takes LVGL's.     *)
(* The size and the style of a text are part of it.                        *)
(***************************************************************************)
EXTENDS AnimPlayer

CONSTANTS
    Texts,      \* the texts of states
    Notices,    \* the texts other tasks set
    Happy,      \* the animation hal_display_ui_init starts
    Standby,    \* the value display_ui_init gives g_current_emoji
    MaxStops,   \* bound: times the animation is stopped
    MaxUpdates  \* bound: calls of display_update_with_style, all together

None == "null"  \* a NULL text or emoji

ASSUME DisplayAssumption ==
    {Happy, Standby} \subseteq Types /\ None \notin Types \cup Texts \cup Notices
ASSUME DisplayBounds == {MaxStops, MaxUpdates} \subseteq Nat

Callers == {"behavior", "other"}

VARIABLES
    pc,         \* where the call of each task is
    call,       \* its arguments, and emoji_changed
    known,      \* g_current_emoji
    stored,     \* g_current_text
    label,      \* the text label_text shows
    stops, updates,
    overlapped, \* history: two tasks have been setting the text at the same time
    wanted      \* history: the emoji the behaviour task asked for last, None when it is
                \* not to be expected: see Honoured

calls       == <<pc, call, known, stored, label, stops, updates, overlapped, wanted>>
displayVars == <<player, pc, call, known, stored, label, stops, updates, overlapped, wanted>>

NoCall == [text |-> None, emoji |-> None, changes |-> FALSE]

DisplayInit ==
    /\ PlayerInit
    /\ pc = [t \in Callers |-> IF t = "behavior" THEN "boot" ELSE "idle"]
    /\ call = [t \in Callers |-> NoCall]
    /\ known = Standby /\ stored = "" /\ label = "Ready"
    /\ stops = 0 /\ updates = 0 /\ overlapped = FALSE /\ wanted = None

Goto(t, l) == pc' = [pc EXCEPT ![t] = l]

\* sync_current_emoji_from_hal: a stopped animation tells nothing.
Synced == IF current = NoType THEN known ELSE current

\* Whoever is between the comparison of a text and its copy
Setting(t) == pc[t] \in {"label", "store"}

\* hal_display_ui_init starts an animation, whatever comes of it.
Boot ==
    /\ pc["behavior"] = "boot" /\ MutexFree
    /\ StartOpened(Happy) \/ StartFailed(Happy)
    /\ Goto("behavior", "idle")
    /\ UNCHANGED <<call, known, stored, label, stops, updates, overlapped, wanted>>

-----------------------------------------------------------------------------
(* display_update_with_style *)

\* Where call c goes on when the text is done
AfterText(c) == IF c.changes THEN "emoji" ELSE "idle"

\* What is expected of a request for emoji e that is compared with Synced: one that is
\* skipped because the animation in front is the same is honoured only if that
\* animation is neither stopped nor about to be replaced.
Honoured(e) ==
    IF e = None THEN wanted
    ELSE IF e # Synced \/ state = "playing" THEN e ELSE None

\* Whether emoji e is another one than what is shown: previous_emoji
Changes(e) == e # None /\ e # Synced

\* The comparison with what is shown, which decides both the text and the emoji
Update(t, text, emoji) ==
    /\ pc[t] = "idle" /\ updates < MaxUpdates
    /\ updates' = updates + 1
    /\ known' = Synced
    /\ LET changed == text # None /\ text # stored
           asked == [text |-> text, emoji |-> emoji, changes |-> Changes(emoji)]
       IN
       /\ call' = [call EXCEPT ![t] = asked]
       /\ Goto(t, IF changed THEN "label" ELSE AfterText(asked))
       /\ overlapped' = (overlapped \/ (changed /\ \E u \in Callers \ {t} : Setting(u)))
    /\ wanted' = IF Changes(emoji) THEN None ELSE Honoured(emoji)
    /\ UNCHANGED <<player, stored, label, stops>>

\* hal_display_set_text_with_style before hal_display_ui_init has made the label: the
\* call ends, nothing is remembered.
LabelMissing(t) ==
    /\ pc[t] = "label" /\ pc["behavior"] = "boot"
    /\ Goto(t, "idle")
    /\ UNCHANGED <<player, call, known, stored, label, stops, updates, overlapped, wanted>>

\* hal_display_set_text_with_style
SetLabel(t) ==
    /\ pc[t] = "label" /\ pc["behavior"] # "boot"
    /\ label' = call[t].text
    /\ Goto(t, "store")
    /\ UNCHANGED <<player, call, known, stored, stops, updates, overlapped, wanted>>

\* The text is remembered.
Store(t) ==
    /\ pc[t] = "store"
    /\ stored' = call[t].text
    /\ Goto(t, AfterText(call[t]))
    /\ UNCHANGED <<player, call, known, label, stops, updates, overlapped, wanted>>

\* hal_display_set_emoji, and what its outcome makes known
SetEmoji(t) ==
    /\ pc[t] = "emoji" /\ MutexFree
    /\ LET e == call[t].emoji IN
       \/ /\ UnderWay(e) /\ UNCHANGED player
          /\ Goto(t, "sync") /\ wanted' = e
       \/ /\ StartOpened(e)
          /\ Goto(t, "sync") /\ wanted' = e
       \/ /\ StartFailed(e)
          /\ Goto(t, "idle") /\ wanted' = None
    /\ UNCHANGED <<call, known, stored, label, stops, updates, overlapped>>

Sync(t) ==
    /\ pc[t] = "sync"
    /\ known' = Synced
    /\ Goto(t, "idle")
    /\ UNCHANGED <<player, call, stored, label, stops, updates, overlapped, wanted>>

UpdateStep(t) == LabelMissing(t) \/ SetLabel(t) \/ Store(t) \/ SetEmoji(t) \/ Sync(t)

\* emoji_anim_stop, by the voice recorder or the transport coordinator
Freeze ==
    /\ pc["behavior"] # "boot"
    /\ stops < MaxStops /\ stops' = stops + 1
    /\ Stop
    /\ wanted' = None
    /\ UNCHANGED <<pc, call, known, stored, label, updates, overlapped>>

PlayerStep ==
    /\ Fill \/ FrameTimer \/ ServiceTimer
    /\ UNCHANGED <<pc, call, known, stored, label, stops, updates, overlapped, wanted>>

DisplayNext ==
    \/ Boot
    \/ \E text \in Texts \cup {None}, e \in Types \cup {None} : Update("behavior", text, e)
    \/ \E text \in Notices : Update("other", text, None)
    \/ \E t \in Callers : UpdateStep(t)
    \/ Freeze
    \/ PlayerStep

DisplaySpec == DisplayInit /\ [][DisplayNext]_displayVars

\* The task that fills the ring and the timers of LVGL go on; nobody has to ask for
\* anything.
Fairness ==
    /\ WF_displayVars(Fill /\ UNCHANGED calls)
    /\ WF_displayVars(FrameTimer /\ UNCHANGED calls)
    /\ WF_displayVars(ServiceTimer /\ UNCHANGED calls)

DisplayFairSpec == DisplaySpec /\ Fairness

-----------------------------------------------------------------------------

DisplayTypeOK ==
    /\ PlayerTypeOK
    /\ pc \in [Callers -> {"boot", "idle", "label", "store", "emoji", "sync"}]
    /\ call \in [Callers -> [text : Texts \cup Notices \cup {None}, emoji : Types \cup {None},
                             changes : BOOLEAN]]
    /\ known \in Types
    /\ stored \in Texts \cup Notices \cup {""} /\ label \in Texts \cup Notices \cup {"Ready"}
    /\ stops \in 0 .. MaxStops /\ updates \in 0 .. MaxUpdates
    /\ overlapped \in BOOLEAN /\ wanted \in Types \cup {None}

\* The text display_ui.c holds to be shown is the one on the screen when nobody is
\* setting it, so a text that is asked for again is not left out by mistake; except
\* when two tasks have been setting texts at the same time, which nothing prevents.
TextShown ==
    ~overlapped /\ (\A t \in Callers : ~Setting(t)) /\ stored # "" => label = stored

\* The emoji asked for last is the one that plays or will play: neither a switch under
\* way nor an earlier request wins over it.  The requests display_ui.c leaves out
\* because it compares them with an animation being replaced or stopped are excused.
RequestHonoured ==
    wanted # None =>
        IF pending.inUse THEN pending.type = wanted ELSE active.inUse /\ active.type = wanted

\* The pictures are whole, and in order.
DrawnRight == [](RingsInOrder /\ ShownIntact) /\ FramesInOrder

\* What was asked for last is what is shown.
LastAskedShown == TextShown /\ RequestHonoured

\* Neither a switch nor an animation comes to a halt.
GoesOn == SwitchCompletes /\ KeepsMoving

=============================================================================
