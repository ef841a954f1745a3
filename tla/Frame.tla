---------------------------------- MODULE Frame ----------------------------------
(***************************************************************************)
(* The frame of the application: its tabs, moved by click or by key, the   *)
(* "Apply & restart" of the load bar, which another panel carries out, a   *)
(* panel that fails to render, and the transient messages (App.tsx,        *)
(* TabNav.tsx, ErrorBoundary.tsx, useFlashMessage.ts).                     *)
(***************************************************************************)
EXTENDS Integers, Sequences

CONSTANTS
  Tabs,         \* the sequence of tabs, "chat" and "tuning" among them
  MaxRequests,  \* bound: clicks on "Apply & restart"
  MaxMessages   \* bound: transient messages

VARIABLE frame
vars == <<frame>>

TabSet == {Tabs[i] : i \in DOMAIN Tabs}
Index(tab) == (CHOOSE i \in DOMAIN Tabs : Tabs[i] = tab) - 1

Init ==
  frame = [ tab |-> "chat", mounted |-> {"chat"},
            focus |-> "none",     \* the tab that the next frame of the page focuses
            loaded |-> FALSE,     \* the Tuning panel has its configuration
            failed |-> {},        \* panels whose boundary shows an error
            requests |-> 0, handled |-> 0,
            flash |-> 0, timers |-> {} ]

\* selectTab: a panel is mounted when it is first shown, and stays mounted.
Shown(f, tab) == [f EXCEPT !.tab = tab, !.mounted = @ \cup {tab}]

Click == \E tab \in TabSet : frame' = Shown(frame, tab)

\* activate: the keyboard's focus follows with the next frame.
Activate(tab) == frame' = [Shown(frame, tab) EXCEPT !.focus = tab]

Move(delta) == Activate(Tabs[1 + ((Index(frame.tab) + delta + Len(Tabs)) % Len(Tabs))])

Key == Move(1) \/ Move(-1) \/ Activate(Tabs[1]) \/ Activate(Tabs[Len(Tabs)])
Focuses == frame.focus # "none" /\ frame' = [frame EXCEPT !.focus = "none"]

PanelFails == \E tab \in frame.mounted : frame' = [frame EXCEPT !.failed = @ \cup {tab}]
Recover == \E tab \in frame.failed : frame' = [frame EXCEPT !.failed = @ \ {tab}]

\* requestApplyRestart counts the clicks; the effect of the Tuning panel, whose
\* code and configuration may be loading, takes a count once.
RequestApply ==
  /\ frame.requests < MaxRequests
  /\ frame' = [Shown(frame, "tuning") EXCEPT !.requests = @ + 1]
ConfigLoads == "tuning" \in frame.mounted /\ frame' = [frame EXCEPT !.loaded = TRUE]

Applies ==
  /\ frame.loaded /\ frame.requests > 0 /\ frame.handled # frame.requests
  /\ frame' = [frame EXCEPT !.handled = frame.requests]

\* Mutant: the timer of the earlier message is not cleared.
Flashed_KeepsTimer(f, n) == [f EXCEPT !.flash = n, !.timers = @ \cup ({n} \ {0})]

\* showFlash, dismissFlash: one timer, the one of the message shown.
Flashed(f, n) == [f EXCEPT !.flash = n, !.timers = {n} \ {0}]
ShowFlash == \E n \in 0..MaxMessages : n # frame.flash /\ frame' = Flashed(frame, n)
FlashExpires == \E n \in frame.timers : frame' = [frame EXCEPT !.flash = 0, !.timers = @ \ {n}]

Next ==
  \/ Click \/ Key \/ Focuses \/ PanelFails \/ Recover \/ RequestApply \/ ConfigLoads \/ Applies
  \/ ShowFlash \/ FlashExpires

Spec == Init /\ [][Next]_vars

-----------------------------------------------------------------------------
TypeOK ==
  /\ frame.tab \in frame.mounted /\ frame.mounted \subseteq TabSet /\ frame.failed \subseteq frame.mounted
  /\ frame.focus \in TabSet \cup {"none"} /\ frame.handled \in 0..frame.requests

\* A timer that runs is the shown message's own: none ends a newer message
\* early, and no message is left without its end.
FlashIsItsOwn == frame.timers = {frame.flash} \ {0}
================================================================================
