------------------------------ MODULE ModelsPanel ------------------------------
(***************************************************************************)
(* The Models panel (Models.tsx): the scan of the models directory, which  *)
(* runs again for every change of the directory and may be cancelled, the  *)
(* folder's draft, deleting a model, and the adapters of the server.       *)
(* Saves of the configuration are calls; the panel sees it change later.   *)
(***************************************************************************)
EXTENDS Naturals, Sequences

CONSTANTS
  Dirs,
  NoDir,        \* the empty directory
  MaxScans,     \* bound: scans started or cancelled
  MaxEdits      \* bound: edits, saves and deletions

VARIABLE models
vars == <<models>>

Nothing == [gen |-> 0, dir |-> NoDir]
Servers == {"down", "up"}

TypeOK ==
  /\ models.dir \in Dirs \cup {NoDir} /\ models.saved \in Dirs \cup {NoDir}
  /\ models.requested \in Dirs \cup {NoDir}
  /\ {models.dirty, models.asked, models.timer, models.scanning, models.adapterBusy} \subseteq BOOLEAN
  /\ models.gen \in 0..MaxScans /\ models.edits \in 0..MaxEdits
  /\ \A s \in models.scans \cup {models.shown} : s.gen \in 0..models.gen /\ s.dir \in Dirs \cup {NoDir}
  /\ models.server \in Servers /\ models.adapters \in {"none", "listed"}

Edits == models.edits < MaxEdits

\* The effects a render runs: a configured directory the panel has not asked
\* for yet replaces the draft, unless that is being edited; once a scan was
\* asked for, a change of the directory arms the timer again.
Rendered(m, changed) ==
  LET follows == ~m.dirty /\ m.saved # NoDir /\ m.requested # m.saved
      n == IF follows THEN [m EXCEPT !.dir = m.saved, !.requested = m.saved, !.asked = TRUE] ELSE m
  IN  IF follows \/ (changed /\ n.asked) THEN [n EXCEPT !.timer = TRUE] ELSE n

Init ==
  \E cfg \in Dirs \cup {NoDir} :
    models = Rendered(
      [ dir |-> cfg, saved |-> cfg, dirty |-> FALSE,
        requested |-> NoDir,  \* requestedScanDirRef
        asked |-> FALSE,      \* scanRequest > 0
        timer |-> FALSE,      \* scanTimer, which scans the present dir
        gen |-> 0,            \* scanGeneration
        scanning |-> FALSE,
        scans |-> {},         \* scans the back end has not answered
        shown |-> Nothing,    \* the scan whose result is on the screen
        saving |-> <<>>,      \* folder saves in the queue
        deleting |-> {},      \* directories a deletion will scan again
        server |-> "down", adapters |-> "none", adapterBusy |-> FALSE,
        applying |-> 0, asking |-> 0, edits |-> 0 ], FALSE)

\* The configuration arrives after the panel.
ConfigLoads ==
  models.saved = NoDir /\ \E d \in Dirs : models' = Rendered([models EXCEPT !.saved = d], FALSE)

\* scan, of the directory its closure has.
Scan(m, dir) ==
  IF dir = NoDir
  THEN [m EXCEPT !.gen = @ + 1, !.scanning = FALSE, !.shown = [gen |-> m.gen + 1, dir |-> NoDir]]
  ELSE [m EXCEPT !.gen = @ + 1, !.scanning = TRUE, !.scans = @ \cup {[gen |-> m.gen + 1, dir |-> dir]}]

TimerFires ==
  /\ models.timer /\ models.gen < MaxScans
  /\ models' = Scan([models EXCEPT !.timer = FALSE], models.dir)

\* Mutant: an overtaken scan is shown.
Returned_AnyScan(m, s) ==
  [m EXCEPT !.scans = @ \ {s}, !.shown = s, !.scanning = s.gen # m.gen /\ @]

\* Mutant: any scan's end stops the spinner.
Returned_Finally(m, s) ==
  IF s.gen # m.gen THEN [m EXCEPT !.scans = @ \ {s}, !.scanning = FALSE]
  ELSE [m EXCEPT !.scans = @ \ {s}, !.shown = s, !.scanning = FALSE]

Returned(m, s) ==
  IF s.gen # m.gen THEN [m EXCEPT !.scans = @ \ {s}]
  ELSE [m EXCEPT !.scans = @ \ {s}, !.shown = s, !.scanning = FALSE]

ScanReturns == \E s \in models.scans : models' = Returned(models, s)

CancelScan ==
  /\ models.scanning /\ models.gen < MaxScans
  /\ models' = [models EXCEPT !.gen = @ + 1, !.timer = FALSE, !.scanning = FALSE]

Rescan == ~models.scanning /\ models' = [models EXCEPT !.asked = TRUE, !.timer = TRUE]

\* The buttons of a list that is empty or could not be read scan at once.
ScanAgain == ~models.scanning /\ models.gen < MaxScans /\ models' = Scan(models, models.dir)

\* A key in the directory's input.
Type ==
  \E d \in (Dirs \cup {NoDir}) \ {models.dir} :
    Edits /\ models' = Rendered([models EXCEPT !.dir = d, !.dirty = TRUE, !.edits = @ + 1], TRUE)

\* The save button, and a directory chosen in the system's dialog.
SaveFolder ==
  /\ Edits /\ models.dirty /\ ~models.scanning
  /\ models' = [models EXCEPT !.saving = Append(@, models.dir), !.edits = @ + 1]
Browse ==
  \E d \in Dirs :
    /\ Edits /\ ~models.scanning
    /\ models' = Rendered([models EXCEPT !.dir = d, !.saving = Append(@, d), !.edits = @ + 1], d # models.dir)

SaveReturns ==
  /\ models.saving # <<>>
  /\ LET d == Head(models.saving) m == [models EXCEPT !.saving = Tail(@)] IN
     \/ models' = Rendered([m EXCEPT !.saved = d, !.dirty = FALSE, !.requested = d,
                                     !.asked = TRUE, !.timer = TRUE], FALSE)
     \/ models' = m

\* removeModel, confirmed: the scan that follows is the one of the render that
\* opened the dialog.
Delete ==
  /\ Edits /\ models.server = "down" /\ models.shown.dir # NoDir
  /\ models' = [models EXCEPT !.deleting = @ \cup {models.dir}, !.edits = @ + 1]
DeleteReturns ==
  \E d \in models.deleting :
    \/ models.gen < MaxScans /\ models' = Scan([models EXCEPT !.deleting = @ \ {d}], d)
    \/ models' = [models EXCEPT !.deleting = @ \ {d}]

\* refreshServerAdapters, when the server goes up or down.
ServerChanges ==
  /\ Edits
  /\ models' = IF models.server = "down"
               THEN [models EXCEPT !.server = "up", !.adapterBusy = TRUE, !.asking = @ + 1, !.edits = @ + 1]
               ELSE [models EXCEPT !.server = "down", !.adapters = "none", !.edits = @ + 1]
\* The adapters' own button, which is disabled while they read "busy".
RefreshAdapters ==
  /\ Edits /\ models.server = "up" /\ ~models.adapterBusy
  /\ models' = [models EXCEPT !.adapterBusy = TRUE, !.asking = @ + 1, !.edits = @ + 1]
\* Any answer ends "busy", and the last one to come is shown: they have no numbers.
AdaptersReturn ==
  /\ models.asking > 0
  /\ \E has \in {"none", "listed"} :
       models' = [models EXCEPT !.asking = @ - 1, !.adapters = has, !.adapterBusy = FALSE]
\* applyServerAdapters: the new scales are set, then listed again.
ApplyAdapters ==
  /\ Edits /\ models.server = "up" /\ ~models.adapterBusy /\ models.adapters = "listed"
  /\ models' = [models EXCEPT !.applying = @ + 1, !.edits = @ + 1]
ApplyReturns ==
  /\ models.applying > 0
  /\ \/ models' = [models EXCEPT !.applying = @ - 1, !.adapterBusy = TRUE, !.asking = @ + 1]
     \/ models' = [models EXCEPT !.applying = @ - 1]

Next ==
  \/ ConfigLoads \/ TimerFires \/ ScanReturns \/ CancelScan \/ Rescan \/ ScanAgain \/ Type
  \/ SaveFolder \/ Browse \/ SaveReturns \/ Delete \/ DeleteReturns \/ ServerChanges \/ RefreshAdapters \/ AdaptersReturn \/ ApplyAdapters
  \/ ApplyReturns

Spec == Init /\ [][Next]_vars

-----------------------------------------------------------------------------
\* The panel says "scanning", and offers to cancel, exactly while the answer
\* it would show is still to come: scans that were overtaken or cancelled
\* neither end the newest one's spinner nor leave one turning.  Of the adapters only
\* the second half holds: they never read "busy" with no answer due, but the first of
\* two answers ends it, whichever it is.
SpinsForTheNewest ==
  /\ models.scanning <=> \E s \in models.scans : s.gen = models.gen
  /\ models.adapterBusy => models.asking > 0

\* Answers come in any order, and an older scan never replaces the list of a
\* newer one.
NeverOlder == models'.shown.gen >= models.shown.gen
================================================================================
