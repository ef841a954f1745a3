--------------------------- MODULE RuntimeActivation ---------------------------
(***************************************************************************)
(* Managed runtimes on disk (runtime.rs): release installs, pull-request   *)
(* builds, their prebuilt artifacts and bundle imports stage a tree, check *)
(* it and swap it in by two renames; an uninstall removes one; a crash may *)
(* come between any two steps; the sweep at start-up runs beside all this. *)
(*                                                                         *)
(* A tree is what it was made from, or Broken while it is incomplete.  One *)
(* operation is under way at a time (Desktop: BusyExclusive).              *)
(***************************************************************************)
EXTENDS Naturals, FiniteSets, TLC

CONSTANTS
  Releases,  \* runtimes named after a release
  Pulls,     \* runtimes named after a pull request
  Commits,   \* what a tree can be made from
  Broken,    \* an incomplete tree
  None,      \* nothing there
  MaxLeft    \* bound: directories moved aside and never removed, at one time

Builds == Releases \cup Pulls
Trees == Commits \cup {Broken}

ASSUME PullsAssumption == Releases \cap Pulls = {}
ASSUME BoundAssumption == MaxLeft \in Nat

VARIABLES
  slot,      \* directory at the path of each runtime
  pc,        \* where the operation under way is
  op,        \* its kind, runtime, the commit confirmed and the one resolved
  staging,   \* tree in its staging directory
  backup,    \* directory moved aside by replace_runtime
  mine,      \* its other files: "archive", "workspace", "root" of an import
  left,      \* directories moved aside and never removed
  junk,      \* there are other leftovers of operations that are over
  cancel,    \* runtime_cancel
  head,      \* head commit of the pull requests, on the remote side
  sweeping,  \* the sweep of this start is not done
  installed, \* runtimes activated and not uninstalled since
  swept,     \* those of which the sweep took a copy while nothing was at their path
  pressed,   \* cancelled while the operation under way could still be
  dirty      \* there was a crash, or a rename or removal failed

vars == <<slot, pc, op, staging, backup, mine, left, junk, cancel, head, sweeping,
          installed, swept, pressed, dirty>>
disk == <<slot, staging, backup, mine, left, junk, installed, swept, dirty>>
others == <<left, junk, head, sweeping, swept>>

\* aged: last modified more than ORPHAN_SWEEP_MAX_AGE ago.  A rename keeps that time.
Dirs == [tree : Trees, aged : BOOLEAN]
Kept == [build : Builds, tree : Trees, aged : BOOLEAN]
Kinds == {"release", "source", "artifact", "import", "uninstall"}
Ops == [kind : Kinds, build : Builds, confirmed : Commits \cup {None},
        origin : Commits \cup {None}]
ASSUME MarksAssumption == Broken \notin Commits /\ None \notin Trees \cup Dirs \cup Ops

Pcs == {"idle", "begun", "resolving", "fetching", "staging", "packed", "testing",
        "replacing", "moved", "rollback", "dropping", "cleaning", "removing"}

Fresh(t) == [tree |-> t, aged |-> FALSE]
Aside(b, d) == [build |-> b, tree |-> d.tree, aged |-> d.aged]
Goto(l) == pc' = l
Dirty(failed) == dirty' = (dirty \/ failed)

Init ==
  /\ slot \in [Builds -> [tree : Commits, aged : BOOLEAN] \cup {None}]
  /\ pc = "idle"
  /\ op = None
  /\ staging = None
  /\ backup = None
  /\ mine = {}
  /\ left = {}
  /\ junk = FALSE
  /\ cancel = FALSE
  /\ head \in Commits
  /\ sweeping = TRUE
  /\ installed = {b \in Builds : slot[b] # None}
  /\ swept = {}
  /\ pressed = FALSE
  /\ dirty = FALSE

-------------------------------------------------------------------------------
(* Admission and cancellation *)

\* Which runtimes an operation of each kind can be about.
Targets(kind) ==
  CASE kind = "release" -> Releases
    [] kind = "source" -> Pulls
    [] kind \in {"import", "uninstall"} -> Builds
    [] OTHER -> {}

\* For a pull request the user confirmed a commit.
Begin(kind, b, confirmed) ==
  /\ pc = "idle"
  /\ b \in Targets(kind)
  /\ (confirmed = None) = (kind # "source")
  /\ op' = [kind |-> kind, build |-> b, confirmed |-> confirmed, origin |-> None]
  /\ Goto("begun")
  /\ UNCHANGED <<disk, cancel, head, sweeping, pressed>>

\* The server runs, or the file dialog was closed.
Refused ==
  /\ pc = "begun"
  /\ Goto("idle") /\ op' = None
  /\ UNCHANGED <<disk, cancel, head, sweeping, pressed>>

First(kind) ==
  CASE kind = "uninstall" -> "removing"
    [] kind = "source" -> "resolving"
    [] OTHER -> "fetching"

\* Mutant: a request resets the flag before runtime_busy refuses it.
Admit_Early ==
  /\ cancel' = FALSE
  /\ pressed' = (pressed /\ pc # "begun")
  /\ IF pc = "begun" THEN Goto(First(op.kind)) ELSE UNCHANGED pc
  /\ UNCHANGED <<disk, op, head, sweeping>>

\* runtime_cancel is reset; an uninstall does not look at it.
Admit ==
  /\ pc = "begun"
  /\ cancel' = (cancel /\ op.kind = "uninstall")
  /\ pressed' = FALSE
  /\ Goto(First(op.kind))
  /\ UNCHANGED <<disk, op, head, sweeping>>

\* rt_cancel, at any time.
Cancel ==
  /\ ~cancel
  /\ cancel' = TRUE
  /\ pressed' = (pressed \/ pc \in {"resolving", "fetching", "staging", "packed", "testing"})
  /\ UNCHANGED <<disk, pc, op, head, sweeping>>

-------------------------------------------------------------------------------
(* Getting a tree *)

\* Somebody pushes to the pull request.
HeadMoves ==
  /\ head' \in Commits \ {head}
  /\ UNCHANGED <<disk, pc, op, cancel, sweeping, pressed>>

\* Mutant: the confirmed commit is not compared with the head.
Resolve_Trusting ==
  /\ pc = "resolving"
  /\ \E kind \in {"source", "artifact"} : op' = [op EXCEPT !.kind = kind, !.origin = head]
  /\ Goto("fetching")
  /\ UNCHANGED <<disk, cancel, head, sweeping, pressed>>

\* The head is fetched again and has to be the confirmed commit; a prebuilt
\* artifact of the pull request is preferred.
Resolve ==
  /\ pc = "resolving"
  /\ op.confirmed = head
  /\ \E kind \in {"source", "artifact"} : op' = [op EXCEPT !.kind = kind, !.origin = head]
  /\ Goto("fetching")
  /\ UNCHANGED <<disk, cancel, head, sweeping, pressed>>

Downloads(kind) ==
  CASE kind = "source" -> {"workspace"}
    [] kind \in {"release", "artifact"} -> {"archive"}
    [] OTHER -> {}

\* Mutant: a staging directory is taken for granted.
Fetch_AssumesStaged ==
  /\ pc = "fetching"
  /\ mine' = Downloads(op.kind)
  /\ Goto("packed")
  /\ UNCHANGED <<slot, op, staging, backup, cancel, installed, pressed, dirty, others>>

\* The archive is complete and has the expected digest; an import uses the user's own.
Fetch ==
  /\ pc = "fetching"
  /\ mine' = Downloads(op.kind)
  /\ Goto("staging")
  /\ UNCHANGED <<slot, op, staging, backup, cancel, installed, pressed, dirty, others>>

\* The first files of the tree are written.
StageBegins ==
  /\ pc = "staging" /\ staging = None
  /\ staging' = Broken
  /\ UNCHANGED <<slot, pc, op, backup, mine, cancel, installed, pressed, dirty, others>>

OfPull == op.kind \in {"source", "artifact"}

\* Mutant: the tree is used without verify_runtime_files.
StageEnds_Unverified ==
  /\ pc = "staging" /\ staging = Broken
  /\ staging' \in Trees
  /\ OfPull => staging' \in {op.origin, Broken}
  /\ Goto("packed")
  /\ UNCHANGED <<slot, op, backup, mine, cancel, installed, pressed, dirty, others>>

\* Every file is there, and a pull request's tree is of the commit that was resolved
\* (the manifest of an artifact, the directory name of a source archive).
StageEnds ==
  /\ pc = "staging" /\ staging = Broken
  /\ staging' \in Commits
  /\ OfPull => staging' = op.origin
  /\ Goto("packed")
  /\ UNCHANGED <<slot, op, backup, mine, cancel, installed, pressed, dirty, others>>

\* The staged programs answer, and the manifests are written.
Preflight ==
  /\ pc = "packed" /\ ~cancel
  /\ Goto("testing")
  /\ UNCHANGED <<disk, op, cancel, head, sweeping, pressed>>

LastCheck ==
  /\ pc = "testing" /\ ~cancel
  /\ Goto("replacing")
  /\ UNCHANGED <<disk, op, cancel, head, sweeping, pressed>>

\* Any of these steps fails, or sees the flag; files may be left half written.
InstallFails ==
  /\ \/ pc = "fetching" /\ mine' \in {{}, Downloads(op.kind)}
     \/ pc \in {"resolving", "staging", "packed", "testing", "replacing"} /\ UNCHANGED mine
  /\ Goto("cleaning")
  /\ UNCHANGED <<slot, op, staging, backup, cancel, installed, pressed, dirty, others>>

-------------------------------------------------------------------------------
(* replace_runtime *)

\* Mutant: the old runtime is removed instead of moved aside.
MoveOld_Removes ==
  /\ pc = "replacing"
  /\ slot' = [slot EXCEPT ![op.build] = None]
  /\ Goto("moved")
  /\ UNCHANGED <<op, staging, backup, mine, cancel, installed, pressed, dirty, others>>

\* The old runtime, if there is one, is renamed to a backup.
MoveOld ==
  /\ pc = "replacing"
  /\ backup' = slot[op.build]
  /\ slot' = [slot EXCEPT ![op.build] = None]
  /\ Goto("moved")
  /\ UNCHANGED <<op, staging, mine, cancel, installed, pressed, dirty, others>>

\* The staged tree is renamed to the runtime's path; of an import the directory it
\* was staged in remains.
Activate ==
  /\ pc = "moved"
  /\ slot' = [slot EXCEPT ![op.build] = Fresh(staging)]
  /\ staging' = None
  /\ mine' = IF op.kind \in {"import", "artifact"} THEN mine \cup {"root"} ELSE mine
  /\ installed' = installed \cup {op.build}
  /\ swept' = swept \ {op.build}
  /\ Goto("dropping")
  /\ UNCHANGED <<op, backup, left, junk, cancel, head, sweeping, pressed, dirty>>

ActivateFails ==
  /\ pc = "moved"
  /\ Goto("rollback")
  /\ UNCHANGED <<disk, op, cancel, head, sweeping, pressed>>

\* The backup is renamed back; it may be gone.
RollBack ==
  /\ pc = "rollback"
  /\ slot' = [slot EXCEPT ![op.build] = backup]
  /\ backup' = None
  /\ Goto("cleaning")
  /\ UNCHANGED <<op, staging, mine, cancel, installed, pressed, dirty, others>>

\* The backup stays where it is.
KeepBackup ==
  /\ backup # None => Cardinality(left) < MaxLeft
  /\ left' = IF backup = None THEN left ELSE left \cup {Aside(op.build, backup)}
  /\ backup' = None

RollBackFails ==
  /\ pc = "rollback"
  /\ backup # None
  /\ KeepBackup
  /\ Dirty(TRUE)
  /\ Goto("cleaning")
  /\ UNCHANGED <<slot, op, staging, mine, junk, cancel, head, sweeping, installed,
                 swept, pressed>>

\* remove_tree_bounded: some files go first ...
DropBegins ==
  /\ pc = "dropping"
  /\ backup # None /\ backup.tree # Broken
  /\ backup' = [backup EXCEPT !.tree = Broken]
  /\ UNCHANGED <<slot, pc, op, staging, mine, cancel, installed, pressed, dirty, others>>

\* ... then the rest, or not: a failure is not reported.
DropEnds ==
  /\ pc = "dropping"
  /\ \/ backup' = None /\ UNCHANGED <<left, dirty>>
     \/ backup # None /\ KeepBackup /\ Dirty(TRUE)
  /\ Goto("cleaning")
  /\ UNCHANGED <<slot, op, staging, mine, junk, cancel, head, sweeping, installed,
                 swept, pressed>>

Own == mine \cup (IF staging = None THEN {} ELSE {"staging"})

\* Mutant: what a failed install staged is left where it is.
Clean_Committed ==
  /\ pc = "cleaning"
  /\ \E kept \in SUBSET mine :
       /\ junk' = (junk \/ kept # {} \/ staging # None)
       /\ Dirty(kept # {})
  /\ staging' = None /\ mine' = {} /\ op' = None
  /\ Goto("idle")
  /\ UNCHANGED <<slot, backup, left, cancel, head, sweeping, installed, swept, pressed>>

\* InstallCleanup.finish, remove_import_staging: what cannot be removed stays.
Clean ==
  /\ pc = "cleaning"
  /\ \E kept \in SUBSET Own :
       /\ junk' = (junk \/ kept # {})
       /\ Dirty(kept # {})
  /\ staging' = None /\ mine' = {} /\ op' = None
  /\ Goto("idle")
  /\ UNCHANGED <<slot, backup, left, cancel, head, sweeping, installed, swept, pressed>>

-------------------------------------------------------------------------------
(* uninstall *)

\* The first files are gone.
RemoveBegins ==
  /\ pc = "removing"
  /\ slot[op.build] # None
  /\ slot' = [slot EXCEPT ![op.build] = Fresh(Broken)]
  /\ installed' = installed \ {op.build}
  /\ UNCHANGED <<pc, op, staging, backup, mine, cancel, pressed, dirty, others>>

\* All files are gone, or there were none; or some could not be removed.
RemoveEnds ==
  /\ pc = "removing"
  /\ \/ /\ slot[op.build] = None \/ op.build \notin installed
        /\ slot' = [slot EXCEPT ![op.build] = None]
        /\ installed' = installed \ {op.build}
     \/ UNCHANGED <<slot, installed>>
  /\ Goto("idle") /\ op' = None
  /\ UNCHANGED <<staging, backup, mine, cancel, pressed, dirty, others>>

-------------------------------------------------------------------------------
(* Crashes, the sweep, time *)

\* The application dies and is started again; nothing is lost by a crash at rest
\* during the sweep, which is left out.
Crash ==
  /\ pc # "idle" \/ ~sweeping
  /\ KeepBackup
  /\ junk' = (junk \/ Own # {})
  /\ Goto("idle") /\ op' = None
  /\ staging' = None /\ mine' = {}
  /\ cancel' = FALSE /\ pressed' = FALSE
  /\ sweeping' = TRUE
  /\ Dirty(TRUE)
  /\ UNCHANGED <<slot, head, installed, swept>>

\* Files of operations that are over; those under way are younger.
SweepJunk ==
  /\ sweeping
  /\ junk /\ junk' = FALSE
  /\ UNCHANGED <<slot, pc, op, staging, backup, mine, left, cancel, head, sweeping,
                 installed, swept, pressed, dirty>>

\* Nothing was at the path of that runtime: this may have been its only copy.
Takes(b) == swept' = IF slot[b] = None /\ b \in installed THEN swept \cup {b} ELSE swept

\* A directory that was moved aside by an operation that is over ...
SweepLeft ==
  /\ sweeping
  /\ \E x \in left :
       /\ x.aged
       /\ \/ left' = left \ {x}
          \/ left' = (left \ {x}) \cup {[x EXCEPT !.tree = Broken]}
       /\ Takes(x.build)
  /\ UNCHANGED <<slot, pc, op, staging, backup, mine, junk, cancel, head, sweeping,
                 installed, pressed, dirty>>

\* ... or by the one under way: its time is that of the old runtime.  At first only
\* some files are gone.
SweepBackup ==
  /\ sweeping
  /\ backup # None /\ backup.aged
  /\ \/ backup.tree # Broken /\ backup' = [backup EXCEPT !.tree = Broken]
     \/ backup' = None
  /\ Takes(op.build)
  /\ UNCHANGED <<slot, pc, op, staging, mine, left, junk, cancel, head, sweeping,
                 installed, pressed, dirty>>

SweepEnds ==
  /\ sweeping
  /\ sweeping' = FALSE
  /\ UNCHANGED <<disk, pc, op, cancel, head, pressed>>

\* A week passes; no operation takes that long.
Week ==
  /\ pc = "idle"
  /\ slot' = [b \in Builds |-> IF slot[b] = None THEN None ELSE [slot[b] EXCEPT !.aged = TRUE]]
  /\ left' = {[x EXCEPT !.aged = TRUE] : x \in left}
  /\ UNCHANGED <<pc, op, staging, backup, mine, junk, cancel, head, sweeping, installed,
                 swept, pressed, dirty>>

-------------------------------------------------------------------------------

Request ==
  \/ \E kind \in Kinds, b \in Builds, c \in Commits \cup {None} : Begin(kind, b, c)
  \/ Refused \/ Admit \/ Cancel

Obtain ==
  \/ Resolve \/ Fetch \/ StageBegins \/ StageEnds \/ Preflight \/ LastCheck
  \/ InstallFails

Replace ==
  \/ MoveOld \/ Activate \/ ActivateFails \/ RollBack \/ RollBackFails
  \/ DropBegins \/ DropEnds \/ Clean

Remove == RemoveBegins \/ RemoveEnds

Outside == HeadMoves \/ Crash \/ Week

Sweep == SweepJunk \/ SweepLeft \/ SweepBackup \/ SweepEnds

Next == Request \/ Obtain \/ Replace \/ Remove \/ Outside \/ Sweep

Spec == Init /\ [][Next]_vars

-------------------------------------------------------------------------------
(* Properties *)

\* Every variable stays in its domain.
TypeOK ==
  /\ slot \in [Builds -> Dirs \cup {None}]
  /\ pc \in Pcs
  /\ op \in Ops \cup {None}
  /\ staging \in Trees \cup {None}
  /\ backup \in Dirs \cup {None}
  /\ mine \subseteq {"archive", "workspace", "root"}
  /\ left \subseteq Kept
  /\ junk \in BOOLEAN
  /\ cancel \in BOOLEAN
  /\ head \in Commits
  /\ sweeping \in BOOLEAN
  /\ installed \subseteq Builds
  /\ swept \subseteq Builds
  /\ pressed \in BOOLEAN
  /\ dirty \in BOOLEAN

\* There is a complete directory.
Whole(d) == d # None /\ d.tree # Broken

\* Whatever fails, and wherever the application dies, a runtime that was installed
\* and not uninstalled is complete somewhere, unless the sweep took a copy while nothing was at its path.
InstalledIsKept ==
  \A b \in installed \ swept :
    \/ Whole(slot[b])
    \/ Whole(backup) /\ op.build = b
    \/ \E x \in left : x.build = b /\ x.tree # Broken

\* What is at the path of an installed runtime is complete: no partial download,
\* extraction or build is ever activated.
InstalledIsWhole ==
  \A b \in installed \ swept : slot[b] # None => slot[b].tree # Broken

\* What was installed stays usable: it is complete where it is used, or a complete
\* copy of it waits elsewhere.
InstalledIsSafe == InstalledIsKept /\ InstalledIsWhole

\* A pull request's runtime is activated only if it was made from the commit the user
\* confirmed, wherever the head of the pull request has moved meanwhile.
PullIsConfirmed ==
  pc = "dropping" /\ OfPull => slot[op.build].tree = op.confirmed

\* After a cancellation that came before the last check nothing is replaced.
CancelHonoured == pc \in {"replacing", "moved", "rollback", "dropping"} => ~pressed

\* When nothing fails, no operation leaves a staging directory, archive, workspace or
\* backup behind, whether it succeeded, was refused or was cancelled.
NothingLeft == pc = "idle" /\ ~dirty => ~junk /\ left = {}

\* An operation that is stopped stops, and leaves nothing.
EndsClean == CancelHonoured /\ NothingLeft

\* What the comment on the sweep promises: "managed runtimes and user directories are
\* not touched".
SweepSparesRuntimes == swept = {}

\* For TLC: no commit is told from another.
CommitSymmetry == Permutations(Commits)
================================================================================
