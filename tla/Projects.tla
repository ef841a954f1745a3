-------------------------------- MODULE Projects --------------------------------
(***************************************************************************)
(* Projects: the presets in local storage (projectStore.ts) and the panel  *)
(* that edits them (Projects.tsx).  A write is announced by an event the   *)
(* panel answers at once by reading the store again and following the      *)
(* active project; applying and importing wait in between.  The storage    *)
(* may refuse a write, which then has no event and reports nothing.        *)
(***************************************************************************)
EXTENDS Naturals, Sequences

CONSTANTS
  Names,        \* names that differ in more than case
  NoId,
  MaxIds,       \* bound: projects made
  MaxProjects,  \* projects kept (100)
  MaxVersions   \* bound: edits

VARIABLE projects
vars == <<projects>>

Ids == 1..MaxIds
Project == [id : Ids, name : Names, v : 0..MaxVersions]
NoProject == [name |-> "", v |-> 0]  \* the editor of a new project
\* The elements of s that are in S, in their order (Array.prototype.filter).
Among(s, S) ==
  LET Kept[i \in 0..Len(s)] ==
        IF i = 0 THEN <<>> ELSE IF s[i] \in S THEN Append(Kept[i - 1], s[i]) ELSE Kept[i - 1]
  IN  Kept[Len(s)]

IdsOf(list) == {list[i].id : i \in DOMAIN list}
Content(list, id) ==
  IF id \in IdsOf(list)
  THEN LET p == list[CHOOSE i \in DOMAIN list : list[i].id = id] IN [name |-> p.name, v |-> p.v]
  ELSE NoProject

TypeOK ==
  /\ projects.stored \in Seq(Project) /\ projects.listed \in Seq(Project)
  /\ {projects.active, projects.selected} \subseteq Ids \cup {NoId}
  /\ projects.editor.name \in Names \cup {""} /\ projects.editor.v \in 0..MaxVersions
  /\ projects.edited \in BOOLEAN /\ projects.refused \in BOOLEAN /\ projects.ids \in 0..MaxIds
  /\ projects.applying \subseteq Ids

Kept(list) == SubSeq(list, 1, IF Len(list) < MaxProjects THEN Len(list) ELSE MaxProjects)

\* Mutant: only the id is compared.
Upsert_ById(p, list) == Kept(<<p>> \o Among(list, {q \in Project : q.id # p.id}))

\* upsertProject: one project of a name, and of an id.
Upsert(p, list) == Kept(<<p>> \o Among(list, {q \in Project : q.id # p.id /\ q.name # p.name}))

\* The effect of a new selection rehydrates the editor; a selection of nothing
\* listed is none.
Hydrated(p, selected) ==
  IF selected = p.selected THEN p
  ELSE [p EXCEPT !.selected = IF selected \in IdsOf(p.listed) THEN selected ELSE NoId,
                 !.editor = Content(p.listed, selected), !.edited = FALSE,
                 !.refused = @ /\ p.listed # p.stored]

\* What the panel selects after PROJECTS_CHANGED_EVENT.
Followed(list, active) ==
  IF active \in IdsOf(list) THEN active ELSE IF list = <<>> THEN NoId ELSE list[1].id

\* Mutant: only the list is read again.
Refreshed_ListOnly(p) == [p EXCEPT !.listed = p.stored]

\* refresh, the listener of PROJECTS_CHANGED_EVENT.
Refreshed(p) == Hydrated([p EXCEPT !.listed = p.stored], Followed(p.stored, p.active))

Init ==
  \E n \in 0..1, name \in Names, active \in {1, NoId} :
    projects = Hydrated(
      [ stored |-> IF n = 0 THEN <<>> ELSE <<[id |-> 1, name |-> name, v |-> 0]>>,
        listed |-> IF n = 0 THEN <<>> ELSE <<[id |-> 1, name |-> name, v |-> 0]>>,
        active |-> active, selected |-> NoId, editor |-> NoProject,
        edited |-> FALSE,   \* typed in since it was filled or stored
        refused |-> FALSE,  \* a list was not stored since the editor was filled from what is
        applying |-> {},    \* projects whose configuration is being saved
        importing |-> {},   \* files being read, with the list their closure has
        ids |-> 1, versions |-> 0 ], active)

\* loadProject, of a listed project or for a new one.
LoadProject ==
  \E id \in IdsOf(projects.listed) \cup {NoId} :
    projects' = [projects EXCEPT !.selected = id, !.editor = Content(projects.listed, id), !.edited = FALSE,
                            !.refused = @ /\ projects.listed # projects.stored]

Edit ==
  \E name \in Names :
    /\ projects.versions < MaxVersions
    /\ projects' = [projects EXCEPT !.editor = [name |-> name, v |-> projects.versions + 1],
                      !.edited = TRUE, !.versions = @ + 1]

\* save, of an editor with a name: its project becomes the active one.  The list may be
\* refused; then the event of the active project, if that is stored, brings the old one back.
Save ==
  LET old == projects.selected \in IdsOf(projects.listed)
      id == IF old THEN projects.selected ELSE projects.ids + 1
      p == [id |-> id, name |-> projects.editor.name, v |-> projects.editor.v]
      next == Upsert(p, projects.listed)
      made == [projects EXCEPT !.ids = IF old THEN @ ELSE @ + 1] IN
  /\ projects.editor.name # "" /\ (old \/ projects.ids < MaxIds)
  /\ \/ \E active \in {id, projects.active} :
          projects' = [made EXCEPT !.stored = next, !.listed = next, !.active = active, !.selected = id,
                                   !.edited = FALSE, !.refused = FALSE]
     \/ projects' = Refreshed([made EXCEPT !.active = id, !.refused = TRUE])
     \/ projects' = Hydrated([made EXCEPT !.listed = next, !.refused = TRUE], id)

\* apply: the configuration is saved, then the project is the active one, unless
\* the first failed or the storage refuses the second.
Apply ==
  \E id \in IdsOf(projects.listed) : projects' = [projects EXCEPT !.applying = @ \cup {id}]
ApplyReturns ==
  \E id \in projects.applying :
    \/ projects' = Refreshed([projects EXCEPT !.applying = @ \ {id}, !.active = id])
    \/ projects' = [projects EXCEPT !.applying = @ \ {id}]

\* confirmRemove.  The event selects what is active; removing the selected
\* project makes the first one left both.  A list that is refused is shown all the
\* same, unless the event of the active project reads the old one again.
RemoveProject ==
  \E id \in IdsOf(projects.listed), stores \in BOOLEAN :
    LET next == Among(projects.listed, {q \in Project : q.id # id})
        first == IF next = <<>> THEN NoId ELSE next[1].id
        gone == [projects EXCEPT !.stored = IF stores THEN next ELSE @, !.listed = next, !.refused = @ \/ ~stores] IN
    \/ projects.selected # id /\ projects' = IF stores THEN Refreshed(gone) ELSE gone
    \/ projects.selected = id /\ projects' = Hydrated([gone EXCEPT !.listed = gone.stored, !.active = first], first)
    \/ projects.selected = id /\ projects' = Hydrated(gone, first)

\* importSelected: the file is read, and its project is put into the list the
\* panel had when it was chosen, under a new id.
Import ==
  projects.importing = {} /\ projects' = [projects EXCEPT !.importing = {projects.listed}]
ImportReturns ==
  \E list \in projects.importing :
    \/ \E name \in Names, stores \in BOOLEAN :
         LET p == [id |-> projects.ids + 1, name |-> name, v |-> 0]
             next == Upsert(p, list) IN
         /\ projects.ids < MaxIds
         /\ projects' = Hydrated([projects EXCEPT !.importing = {}, !.ids = @ + 1, !.listed = next,
                                    !.stored = IF stores THEN next ELSE @, !.refused = @ \/ ~stores], p.id)
    \/ projects' = [projects EXCEPT !.importing = {}]  \* not a preset

Next ==
  \/ LoadProject \/ Edit \/ Save \/ Apply \/ ApplyReturns \/ RemoveProject \/ Import \/ ImportReturns

Spec == Init /\ [][Next]_vars

-----------------------------------------------------------------------------
\* However saves, removals, late imports and refused writes fall together, the
\* store and the panel's list have at most the limit of projects, and no two of one
\* id or of one name; and they are the same list unless a write was refused.
DistinctProjects ==
  /\ \A list \in {projects.stored, projects.listed} :
       /\ Len(list) <= MaxProjects
       /\ \A i, j \in DOMAIN list : i # j => list[i].id # list[j].id /\ list[i].name # list[j].name
  /\ ~projects.refused => projects.listed = projects.stored

\* What is selected is in the panel's list.  And an editor nobody has typed in shows
\* the stored content of the project it would be saved as, or nothing for a new one:
\* a project that was removed, renamed away or imported over leaves no editor that
\* would bring it back.  Once the storage has refused a list, this holds again when
\* the editor is next filled from what is stored; until then the panel may show what
\* is not stored, and what was typed into a new project may be replaced by a stored one.
EditorShowsSelected ==
  /\ projects.selected \in IdsOf(projects.listed) \cup {NoId}
  /\ ~projects.edited /\ ~projects.refused => projects.editor = Content(projects.stored, projects.selected)
================================================================================
