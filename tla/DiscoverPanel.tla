----------------------------- MODULE DiscoverPanel -----------------------------
(***************************************************************************)
(* The Discover panel (Discover.tsx): a search, the files of the model     *)
(* selected in its results, one download at a time, and the listener for a *)
(* download's progress, which is registered while the panel is in view.    *)
(***************************************************************************)
EXTENDS Naturals, FiniteSets

CONSTANTS
  Repos, NoRepo,
  MaxInspects,  \* bound: inspections started
  MaxViews      \* bound: times the panel comes into view

VARIABLE discover
vars == <<discover>>

NoDownload == [of |-> NoRepo, projector |-> FALSE]

TypeOK ==
  /\ {discover.searching, discover.found, discover.loading, discover.inView} \subseteq BOOLEAN
  /\ {discover.selected, discover.files} \subseteq Repos \cup {NoRepo}
  /\ discover.inspections \subseteq [gen : 1..discover.gen, of : Repos]
  /\ discover.download \in [of : Repos \cup {NoRepo}, projector : BOOLEAN]
  /\ discover.listeners \cup discover.registering \subseteq 1..discover.view
  /\ discover.server \in {"stopped", "running"}

Init ==
  discover = [ searching |-> FALSE, found |-> FALSE, selected |-> NoRepo, files |-> NoRepo,
               gen |-> 0,            \* inspectGeneration
               inspections |-> {}, loading |-> FALSE,
               download |-> NoDownload, server |-> "stopped",
               inView |-> FALSE, view |-> 0, registering |-> {},
               listeners |-> {} ]    \* listeners an event would reach

\* search; its button is off until the answer came, so there is one at a time.
Search ==
  /\ ~discover.searching
  /\ \E typed \in BOOLEAN :
       discover' = [discover EXCEPT !.selected = NoRepo, !.files = NoRepo, !.searching = typed]

SearchReturns ==
  /\ discover.searching
  /\ \E found \in BOOLEAN : discover' = [discover EXCEPT !.searching = FALSE, !.found = found]

Inspect ==
  \E r \in Repos :
    /\ discover.found /\ discover.gen < MaxInspects
    /\ discover' = [discover EXCEPT !.gen = @ + 1, !.selected = r, !.files = NoRepo, !.loading = TRUE,
                      !.inspections = @ \cup {[gen |-> discover.gen + 1, of |-> r]}]

\* Mutant: the generation is not compared.
InspectReturns_AnyGeneration(d, i, files) ==
  [d EXCEPT !.inspections = @ \ {i}, !.files = files, !.loading = i.gen # d.gen /\ @]

InspectReturns(d, i, files) ==
  IF i.gen # d.gen THEN [d EXCEPT !.inspections = @ \ {i}]
  ELSE [d EXCEPT !.inspections = @ \ {i}, !.files = files, !.loading = FALSE]

Inspected ==
  \E i \in discover.inspections :
    \/ discover' = InspectReturns(discover, i, i.of)
    \/ discover' = InspectReturns(discover, i, discover.files)  \* failed

\* download, of one of the files on the screen.
Download ==
  \E projector \in BOOLEAN :
    /\ discover.selected # NoRepo /\ discover.files # NoRepo
    /\ discover.download = NoDownload /\ discover.server = "stopped"
    /\ discover' = [discover EXCEPT !.download = [of |-> discover.selected, projector |-> projector]]

\* It was done and configured as the model or the projector, failed or was cancelled.
DownloadReturns ==
  discover.download # NoDownload /\ discover' = [discover EXCEPT !.download = NoDownload]

ServerChanges ==
  \E to \in {"stopped", "running"} \ {discover.server} : discover' = [discover EXCEPT !.server = to]

\* The effect of "active": register a listener, dispose of it later.
ComesIntoView ==
  /\ ~discover.inView /\ discover.view < MaxViews
  /\ discover' = [discover EXCEPT !.inView = TRUE, !.view = @ + 1, !.registering = @ \cup {discover.view + 1}]

GoesOutOfView ==
  /\ discover.inView
  /\ discover' = [discover EXCEPT !.inView = FALSE, !.listeners = @ \ {discover.view}]

Disposed(d, v) == v # d.view \/ ~d.inView

\* Mutant: a listener that registers after its view is gone stays.
Registered_Kept(d, v) == [d EXCEPT !.registering = @ \ {v}, !.listeners = @ \cup {v}]

\* The registration answers; a listener disposed of meanwhile is taken off at once.
Registered(d, v) ==
  IF Disposed(d, v) THEN [d EXCEPT !.registering = @ \ {v}]
  ELSE [d EXCEPT !.registering = @ \ {v}, !.listeners = @ \cup {v}]

ListenerRegistered == \E v \in discover.registering : discover' = Registered(discover, v)

Next ==
  \/ Search \/ SearchReturns \/ Inspect \/ Inspected \/ Download \/ DownloadReturns
  \/ ServerChanges \/ ComesIntoView \/ GoesOutOfView \/ ListenerRegistered

Spec == Init /\ [][Next]_vars

-----------------------------------------------------------------------------
\* Under a selected model the files on the screen, which "download" fetches
\* from that model's repository, are that model's own, whatever was inspected
\* before and answers late; and they load exactly while its answer is due.
FilesOfSelected ==
  /\ discover.selected # NoRepo /\ discover.files # NoRepo => discover.files = discover.selected
  /\ discover.loading <=> \E i \in discover.inspections : i.gen = discover.gen

\* A panel that left the view keeps no listener, and one in view has its own
\* alone: a registration that answers late does not leave one behind.
NoListenerLeft ==
  discover.listeners \subseteq (IF discover.inView THEN {discover.view} ELSE {})
================================================================================
