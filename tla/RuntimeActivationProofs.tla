----------------------- MODULE RuntimeActivationProofs ------------------------
(***************************************************************************)
(* Proofs about RuntimeActivation, for any runtimes and commits.           *)
(***************************************************************************)
EXTENDS RuntimeActivation, TLAPS

\* Which control points an operation under way has behind it.
Working == {"fetching", "staging", "packed", "testing", "replacing", "moved", "rollback",
            "dropping"}
Stoppable == {"resolving", "fetching", "staging", "packed", "testing"}

Control ==
  /\ (pc = "idle") <=> (op = None)
  /\ pc = "begun" => op.kind # "artifact"

\* What is staged is complete, and of a pull request what was resolved and confirmed.
Staged == pc \in {"packed", "testing", "replacing", "moved"} =>
            staging \in Commits /\ (OfPull => staging = op.origin)
Pinned == pc \in Working /\ OfPull => op.origin = op.confirmed

\* The backup exists while the runtime's path is empty or holds the new tree.
BackupIsAside == backup # None => pc \in {"moved", "rollback", "dropping"}
PathIsFree == pc \in {"moved", "rollback"} => slot[op.build] = None
PathIsTaken == pc = "dropping" => Whole(slot[op.build])
BackupIsWhole ==
  pc \in {"moved", "rollback"} /\ backup # None /\ op.build \in installed \ swept
    => backup.tree # Broken

\* A cancellation in time is still in the flag at the next check.
Pressed ==
  /\ pressed /\ pc \in Stoppable => cancel
  /\ CancelHonoured

Tidy == ~dirty => ~junk /\ left = {}

IInv ==
  /\ TypeOK
  /\ Control
  /\ Staged /\ Pinned /\ PullIsConfirmed
  /\ BackupIsAside /\ PathIsFree /\ PathIsTaken /\ BackupIsWhole
  /\ InstalledIsKept /\ InstalledIsWhole
  /\ Pressed
  /\ Tidy
-------------------------------------------------------------------------------
(* Preservation, one lemma per action *)

\* An operation that has begun has touched nothing.
LEMMA BeginKeeps ==
  ASSUME IInv, NEW kind \in Kinds, NEW b \in Builds, NEW c \in Commits \cup {None},
         Begin(kind, b, c)
  PROVE  IInv'
  <1>1. TypeOK' /\ Control'
    BY MarksAssumption
    DEF IInv, Begin, Targets, TypeOK, Control, Ops, Pcs, Kinds, Dirs, Kept, Trees, Goto,
        disk
  <1>2. Staged' /\ Pinned' /\ PullIsConfirmed'
    BY MarksAssumption
    DEF IInv, Begin, Targets, TypeOK, Control, Ops, Kinds, Goto, disk, Staged, Pinned,
        PullIsConfirmed, OfPull, Working
  <1>3. BackupIsAside' /\ PathIsFree' /\ PathIsTaken' /\ BackupIsWhole'
    BY MarksAssumption
    DEF IInv, Begin, Targets, TypeOK, Control, Ops, Dirs, Goto, disk, BackupIsAside,
        PathIsFree, PathIsTaken, BackupIsWhole, InstalledIsWhole, Staged, Whole
  <1>4. InstalledIsKept'
    BY MarksAssumption
    DEF IInv, Begin, Targets, TypeOK, Control, Ops, Dirs, Goto, disk, InstalledIsKept,
        InstalledIsWhole, BackupIsAside, PathIsFree, PathIsTaken, BackupIsWhole, Staged,
        Whole
  <1>5. InstalledIsWhole'
    BY MarksAssumption
    DEF IInv, Begin, Targets, TypeOK, Control, Ops, Dirs, Goto, disk, InstalledIsWhole,
        BackupIsWhole, BackupIsAside, Staged
  <1>6. Pressed'
    BY DEF IInv, Begin, Targets, TypeOK, Goto, disk, Pressed, CancelHonoured, Stoppable
  <1>7. Tidy'
    BY DEF IInv, Begin, Targets, TypeOK, Goto, disk, Tidy
  <1> QED BY <1>1, <1>2, <1>3, <1>4, <1>5, <1>6, <1>7 DEF IInv

\* A refused one leaves all as it is.
LEMMA RefusedKeeps ==
  ASSUME IInv, Refused
  PROVE  IInv'
  <1>1. TypeOK' /\ Control'
    BY MarksAssumption
    DEF IInv, Refused, TypeOK, Control, Ops, Pcs, Kinds, Dirs, Kept, Trees, Goto, disk
  <1>2. Staged' /\ Pinned' /\ PullIsConfirmed'
    BY MarksAssumption
    DEF IInv, Refused, TypeOK, Control, Ops, Kinds, Goto, disk, Staged, Pinned,
        PullIsConfirmed, OfPull, Working
  <1>3. BackupIsAside' /\ PathIsFree' /\ PathIsTaken' /\ BackupIsWhole'
    BY MarksAssumption
    DEF IInv, Refused, TypeOK, Control, Ops, Dirs, Goto, disk, BackupIsAside,
        PathIsFree, PathIsTaken, BackupIsWhole, InstalledIsWhole, Staged, Whole
  <1>4. InstalledIsKept'
    BY MarksAssumption
    DEF IInv, Refused, TypeOK, Control, Ops, Dirs, Goto, disk, InstalledIsKept,
        InstalledIsWhole, BackupIsAside, PathIsFree, PathIsTaken, BackupIsWhole, Staged,
        Whole
  <1>5. InstalledIsWhole'
    BY MarksAssumption
    DEF IInv, Refused, TypeOK, Control, Ops, Dirs, Goto, disk, InstalledIsWhole,
        BackupIsWhole, BackupIsAside, Staged
  <1>6. Pressed'
    BY DEF IInv, Refused, TypeOK, Goto, disk, Pressed, CancelHonoured, Stoppable
  <1>7. Tidy'
    BY DEF IInv, Refused, TypeOK, Goto, disk, Tidy
  <1> QED BY <1>1, <1>2, <1>3, <1>4, <1>5, <1>6, <1>7 DEF IInv

\* No cancellation of an earlier operation counts.
LEMMA AdmitKeeps ==
  ASSUME IInv, Admit
  PROVE  IInv'
  <1>1. TypeOK' /\ Control'
    BY MarksAssumption
    DEF IInv, Admit, First, TypeOK, Control, Ops, Pcs, Kinds, Dirs, Kept, Trees, Goto,
        disk
  <1>2. Staged' /\ Pinned' /\ PullIsConfirmed'
    BY MarksAssumption
    DEF IInv, Admit, First, TypeOK, Control, Ops, Kinds, Goto, disk, Staged, Pinned,
        PullIsConfirmed, OfPull, Working
  <1>3. BackupIsAside' /\ PathIsFree' /\ PathIsTaken' /\ BackupIsWhole'
    BY MarksAssumption
    DEF IInv, Admit, First, TypeOK, Control, Ops, Dirs, Goto, disk, BackupIsAside,
        PathIsFree, PathIsTaken, BackupIsWhole, InstalledIsWhole, Staged, Whole
  <1>4. InstalledIsKept'
    BY MarksAssumption
    DEF IInv, Admit, First, TypeOK, Control, Ops, Dirs, Goto, disk, InstalledIsKept,
        InstalledIsWhole, BackupIsAside, PathIsFree, PathIsTaken, BackupIsWhole, Staged,
        Whole
  <1>5. InstalledIsWhole'
    BY MarksAssumption
    DEF IInv, Admit, First, TypeOK, Control, Ops, Dirs, Goto, disk, InstalledIsWhole,
        BackupIsWhole, BackupIsAside, Staged
  <1>6. Pressed'
    BY DEF IInv, Admit, First, TypeOK, Goto, disk, Pressed, CancelHonoured, Stoppable
  <1>7. Tidy'
    BY DEF IInv, Admit, First, TypeOK, Goto, disk, Tidy
  <1> QED BY <1>1, <1>2, <1>3, <1>4, <1>5, <1>6, <1>7 DEF IInv

\* The flag is set for whoever looks next.
LEMMA CancelKeeps ==
  ASSUME IInv, Cancel
  PROVE  IInv'
  <1>1. TypeOK' /\ Control'
    BY MarksAssumption
    DEF IInv, Cancel, TypeOK, Control, Ops, Pcs, Kinds, Dirs, Kept, Trees, disk
  <1>2. Staged' /\ Pinned' /\ PullIsConfirmed'
    BY MarksAssumption
    DEF IInv, Cancel, TypeOK, Control, Ops, Kinds, disk, Staged, Pinned,
        PullIsConfirmed, OfPull, Working
  <1>3. BackupIsAside' /\ PathIsFree' /\ PathIsTaken' /\ BackupIsWhole'
    BY MarksAssumption
    DEF IInv, Cancel, TypeOK, Control, Ops, Dirs, disk, BackupIsAside, PathIsFree,
        PathIsTaken, BackupIsWhole, InstalledIsWhole, Staged, Whole
  <1>4. InstalledIsKept'
    BY MarksAssumption
    DEF IInv, Cancel, TypeOK, Control, Ops, Dirs, disk, InstalledIsKept,
        InstalledIsWhole, BackupIsAside, PathIsFree, PathIsTaken, BackupIsWhole, Staged,
        Whole
  <1>5. InstalledIsWhole'
    BY MarksAssumption
    DEF IInv, Cancel, TypeOK, Control, Ops, Dirs, disk, InstalledIsWhole, BackupIsWhole,
        BackupIsAside, Staged
  <1>6. Pressed'
    BY DEF IInv, Cancel, TypeOK, disk, Pressed, CancelHonoured, Stoppable
  <1>7. Tidy'
    BY DEF IInv, Cancel, TypeOK, disk, Tidy
  <1> QED BY <1>1, <1>2, <1>3, <1>4, <1>5, <1>6, <1>7 DEF IInv

\* The head that was fetched is the confirmed commit.
LEMMA ResolveKeeps ==
  ASSUME IInv, Resolve
  PROVE  IInv'
  <1>a. op \in Ops
    BY DEF IInv, TypeOK, Control, Resolve
  <1>b. op' \in Ops
    BY <1>a DEF IInv, TypeOK, Resolve, Ops, Kinds
  <1>1. TypeOK' /\ Control'
    BY <1>a, <1>b, MarksAssumption DEF IInv, Resolve, TypeOK, Control, Pcs, Goto, disk
  <1>2. Staged' /\ Pinned' /\ PullIsConfirmed'
    BY MarksAssumption
    DEF IInv, Resolve, TypeOK, Control, Ops, Kinds, Goto, disk, Staged, Pinned,
        PullIsConfirmed, OfPull, Working
  <1>3. BackupIsAside' /\ PathIsFree' /\ PathIsTaken' /\ BackupIsWhole'
    BY MarksAssumption
    DEF IInv, Resolve, TypeOK, Control, Ops, Dirs, Goto, disk, BackupIsAside,
        PathIsFree, PathIsTaken, BackupIsWhole, InstalledIsWhole, Staged, Whole
  <1>4. InstalledIsKept'
    BY MarksAssumption
    DEF IInv, Resolve, TypeOK, Control, Ops, Dirs, Goto, disk, InstalledIsKept,
        InstalledIsWhole, BackupIsAside, PathIsFree, PathIsTaken, BackupIsWhole, Staged,
        Whole
  <1>5. InstalledIsWhole'
    BY MarksAssumption
    DEF IInv, Resolve, TypeOK, Control, Ops, Dirs, Goto, disk, InstalledIsWhole,
        BackupIsWhole, BackupIsAside, Staged
  <1>6. Pressed'
    BY DEF IInv, Resolve, TypeOK, Goto, disk, Pressed, CancelHonoured, Stoppable
  <1>7. Tidy'
    BY DEF IInv, Resolve, TypeOK, Goto, disk, Tidy
  <1> QED BY <1>1, <1>2, <1>3, <1>4, <1>5, <1>6, <1>7 DEF IInv

\* A download touches no runtime.
LEMMA FetchKeeps ==
  ASSUME IInv, Fetch
  PROVE  IInv'
  <1>1. TypeOK' /\ Control'
    BY MarksAssumption
    DEF IInv, Fetch, Downloads, TypeOK, Control, Ops, Pcs, Kinds, Dirs, Kept, Trees,
        Goto, others
  <1>2. Staged' /\ Pinned' /\ PullIsConfirmed'
    BY MarksAssumption
    DEF IInv, Fetch, Downloads, TypeOK, Control, Ops, Kinds, Goto, others, Staged,
        Pinned, PullIsConfirmed, OfPull, Working
  <1>3. BackupIsAside' /\ PathIsFree' /\ PathIsTaken' /\ BackupIsWhole'
    BY MarksAssumption
    DEF IInv, Fetch, Downloads, TypeOK, Control, Ops, Dirs, Goto, others, BackupIsAside,
        PathIsFree, PathIsTaken, BackupIsWhole, InstalledIsWhole, Staged, Whole
  <1>4. InstalledIsKept'
    BY MarksAssumption
    DEF IInv, Fetch, Downloads, TypeOK, Control, Ops, Dirs, Goto, others,
        InstalledIsKept, InstalledIsWhole, BackupIsAside, PathIsFree, PathIsTaken,
        BackupIsWhole, Staged, Whole
  <1>5. InstalledIsWhole'
    BY MarksAssumption
    DEF IInv, Fetch, Downloads, TypeOK, Control, Ops, Dirs, Goto, others,
        InstalledIsWhole, BackupIsWhole, BackupIsAside, Staged
  <1>6. Pressed'
    BY DEF IInv, Fetch, Downloads, TypeOK, Goto, others, Pressed, CancelHonoured,
           Stoppable
  <1>7. Tidy'
    BY DEF IInv, Fetch, Downloads, TypeOK, Goto, others, Tidy
  <1> QED BY <1>1, <1>2, <1>3, <1>4, <1>5, <1>6, <1>7 DEF IInv

\* Files go to the staging directory only.
LEMMA StageBeginsKeeps ==
  ASSUME IInv, StageBegins
  PROVE  IInv'
  <1>1. TypeOK' /\ Control'
    BY MarksAssumption
    DEF IInv, StageBegins, TypeOK, Control, Ops, Pcs, Kinds, Dirs, Kept, Trees, others
  <1>2. Staged' /\ Pinned' /\ PullIsConfirmed'
    BY MarksAssumption
    DEF IInv, StageBegins, TypeOK, Control, Ops, Kinds, others, Staged, Pinned,
        PullIsConfirmed, OfPull, Working
  <1>3. BackupIsAside' /\ PathIsFree' /\ PathIsTaken' /\ BackupIsWhole'
    BY MarksAssumption
    DEF IInv, StageBegins, TypeOK, Control, Ops, Dirs, others, BackupIsAside,
        PathIsFree, PathIsTaken, BackupIsWhole, InstalledIsWhole, Staged, Whole
  <1>4. InstalledIsKept'
    BY MarksAssumption
    DEF IInv, StageBegins, TypeOK, Control, Ops, Dirs, others, InstalledIsKept,
        InstalledIsWhole, BackupIsAside, PathIsFree, PathIsTaken, BackupIsWhole, Staged,
        Whole
  <1>5. InstalledIsWhole'
    BY MarksAssumption
    DEF IInv, StageBegins, TypeOK, Control, Ops, Dirs, others, InstalledIsWhole,
        BackupIsWhole, BackupIsAside, Staged
  <1>6. Pressed'
    BY DEF IInv, StageBegins, TypeOK, others, Pressed, CancelHonoured, Stoppable
  <1>7. Tidy'
    BY DEF IInv, StageBegins, TypeOK, others, Tidy
  <1> QED BY <1>1, <1>2, <1>3, <1>4, <1>5, <1>6, <1>7 DEF IInv

\* What passes the checks is complete and pinned.
LEMMA StageEndsKeeps ==
  ASSUME IInv, StageEnds
  PROVE  IInv'
  <1>1. TypeOK' /\ Control'
    BY MarksAssumption
    DEF IInv, StageEnds, TypeOK, Control, Ops, Pcs, Kinds, Dirs, Kept, Trees, Goto,
        others
  <1>2. Staged' /\ Pinned' /\ PullIsConfirmed'
    BY MarksAssumption
    DEF IInv, StageEnds, TypeOK, Control, Ops, Kinds, Goto, others, Staged, Pinned,
        PullIsConfirmed, OfPull, Working
  <1>3. BackupIsAside' /\ PathIsFree' /\ PathIsTaken' /\ BackupIsWhole'
    BY MarksAssumption
    DEF IInv, StageEnds, TypeOK, Control, Ops, Dirs, Goto, others, BackupIsAside,
        PathIsFree, PathIsTaken, BackupIsWhole, InstalledIsWhole, Staged, Whole
  <1>4. InstalledIsKept'
    BY MarksAssumption
    DEF IInv, StageEnds, TypeOK, Control, Ops, Dirs, Goto, others, InstalledIsKept,
        InstalledIsWhole, BackupIsAside, PathIsFree, PathIsTaken, BackupIsWhole, Staged,
        Whole
  <1>5. InstalledIsWhole'
    BY MarksAssumption
    DEF IInv, StageEnds, TypeOK, Control, Ops, Dirs, Goto, others, InstalledIsWhole,
        BackupIsWhole, BackupIsAside, Staged
  <1>6. Pressed'
    BY DEF IInv, StageEnds, TypeOK, Goto, others, Pressed, CancelHonoured, Stoppable
  <1>7. Tidy'
    BY DEF IInv, StageEnds, TypeOK, Goto, others, Tidy
  <1> QED BY <1>1, <1>2, <1>3, <1>4, <1>5, <1>6, <1>7 DEF IInv

\* A check passed without the flag.
LEMMA PreflightKeeps ==
  ASSUME IInv, Preflight
  PROVE  IInv'
  <1>1. TypeOK' /\ Control'
    BY MarksAssumption
    DEF IInv, Preflight, TypeOK, Control, Ops, Pcs, Kinds, Dirs, Kept, Trees, Goto, disk
  <1>2. Staged' /\ Pinned' /\ PullIsConfirmed'
    BY MarksAssumption
    DEF IInv, Preflight, TypeOK, Control, Ops, Kinds, Goto, disk, Staged, Pinned,
        PullIsConfirmed, OfPull, Working
  <1>3. BackupIsAside' /\ PathIsFree' /\ PathIsTaken' /\ BackupIsWhole'
    BY MarksAssumption
    DEF IInv, Preflight, TypeOK, Control, Ops, Dirs, Goto, disk, BackupIsAside,
        PathIsFree, PathIsTaken, BackupIsWhole, InstalledIsWhole, Staged, Whole
  <1>4. InstalledIsKept'
    BY MarksAssumption
    DEF IInv, Preflight, TypeOK, Control, Ops, Dirs, Goto, disk, InstalledIsKept,
        InstalledIsWhole, BackupIsAside, PathIsFree, PathIsTaken, BackupIsWhole, Staged,
        Whole
  <1>5. InstalledIsWhole'
    BY MarksAssumption
    DEF IInv, Preflight, TypeOK, Control, Ops, Dirs, Goto, disk, InstalledIsWhole,
        BackupIsWhole, BackupIsAside, Staged
  <1>6. Pressed'
    BY DEF IInv, Preflight, TypeOK, Goto, disk, Pressed, CancelHonoured, Stoppable
  <1>7. Tidy'
    BY DEF IInv, Preflight, TypeOK, Goto, disk, Tidy
  <1> QED BY <1>1, <1>2, <1>3, <1>4, <1>5, <1>6, <1>7 DEF IInv

\* No cancellation came before the last check.
LEMMA LastCheckKeeps ==
  ASSUME IInv, LastCheck
  PROVE  IInv'
  <1>1. TypeOK' /\ Control'
    BY MarksAssumption
    DEF IInv, LastCheck, TypeOK, Control, Ops, Pcs, Kinds, Dirs, Kept, Trees, Goto, disk
  <1>2. Staged' /\ Pinned' /\ PullIsConfirmed'
    BY MarksAssumption
    DEF IInv, LastCheck, TypeOK, Control, Ops, Kinds, Goto, disk, Staged, Pinned,
        PullIsConfirmed, OfPull, Working
  <1>3. BackupIsAside' /\ PathIsFree' /\ PathIsTaken' /\ BackupIsWhole'
    BY MarksAssumption
    DEF IInv, LastCheck, TypeOK, Control, Ops, Dirs, Goto, disk, BackupIsAside,
        PathIsFree, PathIsTaken, BackupIsWhole, InstalledIsWhole, Staged, Whole
  <1>4. InstalledIsKept'
    BY MarksAssumption
    DEF IInv, LastCheck, TypeOK, Control, Ops, Dirs, Goto, disk, InstalledIsKept,
        InstalledIsWhole, BackupIsAside, PathIsFree, PathIsTaken, BackupIsWhole, Staged,
        Whole
  <1>5. InstalledIsWhole'
    BY MarksAssumption
    DEF IInv, LastCheck, TypeOK, Control, Ops, Dirs, Goto, disk, InstalledIsWhole,
        BackupIsWhole, BackupIsAside, Staged
  <1>6. Pressed'
    BY DEF IInv, LastCheck, TypeOK, Goto, disk, Pressed, CancelHonoured, Stoppable
  <1>7. Tidy'
    BY DEF IInv, LastCheck, TypeOK, Goto, disk, Tidy
  <1> QED BY <1>1, <1>2, <1>3, <1>4, <1>5, <1>6, <1>7 DEF IInv

\* Before replace_runtime a failure touches no runtime.
LEMMA InstallFailsKeeps ==
  ASSUME IInv, InstallFails
  PROVE  IInv'
  <1>1. TypeOK' /\ Control'
    BY MarksAssumption
    DEF IInv, InstallFails, Downloads, TypeOK, Control, Ops, Pcs, Kinds, Dirs, Kept,
        Trees, Goto, others
  <1>2. Staged' /\ Pinned' /\ PullIsConfirmed'
    BY MarksAssumption
    DEF IInv, InstallFails, Downloads, TypeOK, Control, Ops, Kinds, Goto, others,
        Staged, Pinned, PullIsConfirmed, OfPull, Working
  <1>3. BackupIsAside' /\ PathIsFree' /\ PathIsTaken' /\ BackupIsWhole'
    BY MarksAssumption
    DEF IInv, InstallFails, Downloads, TypeOK, Control, Ops, Dirs, Goto, others,
        BackupIsAside, PathIsFree, PathIsTaken, BackupIsWhole, InstalledIsWhole, Staged,
        Whole
  <1>4. InstalledIsKept'
    BY MarksAssumption
    DEF IInv, InstallFails, Downloads, TypeOK, Control, Ops, Dirs, Goto, others,
        InstalledIsKept, InstalledIsWhole, BackupIsAside, PathIsFree, PathIsTaken,
        BackupIsWhole, Staged, Whole
  <1>5. InstalledIsWhole'
    BY MarksAssumption
    DEF IInv, InstallFails, Downloads, TypeOK, Control, Ops, Dirs, Goto, others,
        InstalledIsWhole, BackupIsWhole, BackupIsAside, Staged
  <1>6. Pressed'
    BY DEF IInv, InstallFails, Downloads, TypeOK, Goto, others, Pressed, CancelHonoured,
           Stoppable
  <1>7. Tidy'
    BY DEF IInv, InstallFails, Downloads, TypeOK, Goto, others, Tidy
  <1> QED BY <1>1, <1>2, <1>3, <1>4, <1>5, <1>6, <1>7 DEF IInv

\* The old runtime becomes the backup.
LEMMA MoveOldKeeps ==
  ASSUME IInv, MoveOld
  PROVE  IInv'
  <1>1. TypeOK' /\ Control'
    BY MarksAssumption
    DEF IInv, MoveOld, TypeOK, Control, Ops, Pcs, Kinds, Dirs, Kept, Trees, Goto, others
  <1>2. Staged' /\ Pinned' /\ PullIsConfirmed'
    BY MarksAssumption
    DEF IInv, MoveOld, TypeOK, Control, Ops, Kinds, Goto, others, Staged, Pinned,
        PullIsConfirmed, OfPull, Working
  <1>3. BackupIsAside' /\ PathIsFree' /\ PathIsTaken' /\ BackupIsWhole'
    BY MarksAssumption
    DEF IInv, MoveOld, TypeOK, Control, Ops, Dirs, Goto, others, BackupIsAside,
        PathIsFree, PathIsTaken, BackupIsWhole, InstalledIsWhole, Staged, Whole
  <1>4. InstalledIsKept'
    BY MarksAssumption
    DEF IInv, MoveOld, TypeOK, Control, Ops, Dirs, Goto, others, InstalledIsKept,
        InstalledIsWhole, BackupIsAside, PathIsFree, PathIsTaken, BackupIsWhole, Staged,
        Whole
  <1>5. InstalledIsWhole'
    BY MarksAssumption
    DEF IInv, MoveOld, TypeOK, Control, Ops, Dirs, Goto, others, InstalledIsWhole,
        BackupIsWhole, BackupIsAside, Staged
  <1>6. Pressed'
    BY DEF IInv, MoveOld, TypeOK, Goto, others, Pressed, CancelHonoured, Stoppable
  <1>7. Tidy'
    BY DEF IInv, MoveOld, TypeOK, Goto, others, Tidy
  <1> QED BY <1>1, <1>2, <1>3, <1>4, <1>5, <1>6, <1>7 DEF IInv

\* The staged tree is complete, and so is the new runtime.
LEMMA ActivateKeeps ==
  ASSUME IInv, Activate
  PROVE  IInv'
  <1>a. op \in Ops /\ op.build \in Builds
    BY DEF IInv, TypeOK, Control, Activate, Ops
  <1>s. staging \in Commits
    BY DEF IInv, Staged, Activate
  <1>d. Fresh(staging) \in Dirs /\ Fresh(staging).tree = staging
    BY <1>s DEF Fresh, Dirs, Trees
  <1>b. Fresh(staging) # None /\ Fresh(staging).tree # Broken
    BY <1>s, <1>d, MarksAssumption
  <1>c. /\ slot'[op.build] = Fresh(staging)
        /\ \A b \in Builds : b # op.build => slot'[b] = slot[b]
    BY <1>a DEF IInv, TypeOK, Activate
  <1>1. TypeOK' /\ Control'
    BY <1>a, <1>s, <1>d, <1>b, <1>c, MarksAssumption
    DEF IInv, Activate, TypeOK, Control, Pcs, Goto
  <1>2. Staged' /\ Pinned' /\ PullIsConfirmed'
    BY MarksAssumption
    DEF IInv, Activate, Fresh, TypeOK, Control, Ops, Kinds, Goto, Staged, Pinned,
        PullIsConfirmed, OfPull, Working
  <1>3. BackupIsAside' /\ PathIsFree' /\ PathIsTaken' /\ BackupIsWhole'
    BY <1>a, <1>s, <1>d, <1>b, <1>c, MarksAssumption
    DEF IInv, Activate, TypeOK, Control, BackupIsAside, PathIsFree, PathIsTaken,
        BackupIsWhole, Whole, Goto
  <1>4. InstalledIsKept'
    BY <1>a, <1>s, <1>d, <1>b, <1>c, MarksAssumption
    DEF IInv, Activate, TypeOK, InstalledIsKept, Whole, BackupIsAside, PathIsFree
  <1>5. InstalledIsWhole'
    BY MarksAssumption
    DEF IInv, Activate, Fresh, TypeOK, Control, Ops, Dirs, Goto, InstalledIsWhole,
        BackupIsWhole, BackupIsAside, Staged
  <1>6. Pressed'
    BY DEF IInv, Activate, Fresh, TypeOK, Goto, Pressed, CancelHonoured, Stoppable
  <1>7. Tidy'
    BY DEF IInv, Activate, Fresh, TypeOK, Goto, Tidy
  <1> QED BY <1>1, <1>2, <1>3, <1>4, <1>5, <1>6, <1>7 DEF IInv

\* The backup is still there.
LEMMA ActivateFailsKeeps ==
  ASSUME IInv, ActivateFails
  PROVE  IInv'
  <1>1. TypeOK' /\ Control'
    BY MarksAssumption
    DEF IInv, ActivateFails, TypeOK, Control, Ops, Pcs, Kinds, Dirs, Kept, Trees, Goto,
        disk
  <1>2. Staged' /\ Pinned' /\ PullIsConfirmed'
    BY MarksAssumption
    DEF IInv, ActivateFails, TypeOK, Control, Ops, Kinds, Goto, disk, Staged, Pinned,
        PullIsConfirmed, OfPull, Working
  <1>3. BackupIsAside' /\ PathIsFree' /\ PathIsTaken' /\ BackupIsWhole'
    BY MarksAssumption
    DEF IInv, ActivateFails, TypeOK, Control, Ops, Dirs, Goto, disk, BackupIsAside,
        PathIsFree, PathIsTaken, BackupIsWhole, InstalledIsWhole, Staged, Whole
  <1>4. InstalledIsKept'
    BY MarksAssumption
    DEF IInv, ActivateFails, TypeOK, Control, Ops, Dirs, Goto, disk, InstalledIsKept,
        InstalledIsWhole, BackupIsAside, PathIsFree, PathIsTaken, BackupIsWhole, Staged,
        Whole
  <1>5. InstalledIsWhole'
    BY MarksAssumption
    DEF IInv, ActivateFails, TypeOK, Control, Ops, Dirs, Goto, disk, InstalledIsWhole,
        BackupIsWhole, BackupIsAside, Staged
  <1>6. Pressed'
    BY DEF IInv, ActivateFails, TypeOK, Goto, disk, Pressed, CancelHonoured, Stoppable
  <1>7. Tidy'
    BY DEF IInv, ActivateFails, TypeOK, Goto, disk, Tidy
  <1> QED BY <1>1, <1>2, <1>3, <1>4, <1>5, <1>6, <1>7 DEF IInv

\* The backup is the runtime again.
LEMMA RollBackKeeps ==
  ASSUME IInv, RollBack
  PROVE  IInv'
  <1>1. TypeOK' /\ Control'
    BY MarksAssumption
    DEF IInv, RollBack, TypeOK, Control, Ops, Pcs, Kinds, Dirs, Kept, Trees, Goto,
        others
  <1>2. Staged' /\ Pinned' /\ PullIsConfirmed'
    BY MarksAssumption
    DEF IInv, RollBack, TypeOK, Control, Ops, Kinds, Goto, others, Staged, Pinned,
        PullIsConfirmed, OfPull, Working
  <1>3. BackupIsAside' /\ PathIsFree' /\ PathIsTaken' /\ BackupIsWhole'
    BY MarksAssumption
    DEF IInv, RollBack, TypeOK, Control, Ops, Dirs, Goto, others, BackupIsAside,
        PathIsFree, PathIsTaken, BackupIsWhole, InstalledIsWhole, Staged, Whole
  <1>4. InstalledIsKept'
    BY MarksAssumption
    DEF IInv, RollBack, TypeOK, Control, Ops, Dirs, Goto, others, InstalledIsKept,
        InstalledIsWhole, BackupIsAside, PathIsFree, PathIsTaken, BackupIsWhole, Staged,
        Whole
  <1>5. InstalledIsWhole'
    BY MarksAssumption
    DEF IInv, RollBack, TypeOK, Control, Ops, Dirs, Goto, others, InstalledIsWhole,
        BackupIsWhole, BackupIsAside, Staged
  <1>6. Pressed'
    BY DEF IInv, RollBack, TypeOK, Goto, others, Pressed, CancelHonoured, Stoppable
  <1>7. Tidy'
    BY DEF IInv, RollBack, TypeOK, Goto, others, Tidy
  <1> QED BY <1>1, <1>2, <1>3, <1>4, <1>5, <1>6, <1>7 DEF IInv

\* The backup remains as a leftover directory.
LEMMA RollBackFailsKeeps ==
  ASSUME IInv, RollBackFails
  PROVE  IInv'
  <1>a. backup # None => op \in Ops /\ op.build \in Builds /\ backup \in Dirs
    BY MarksAssumption DEF IInv, TypeOK, Control, BackupIsAside, Ops
  <1>b. backup # None => Aside(op.build, backup) \in Kept
    BY <1>a DEF Aside, Kept, Dirs
  <1>c. /\ Aside(op.build, backup).build = op.build
        /\ Aside(op.build, backup).tree = backup.tree
    BY DEF Aside
  <1>d. /\ left \subseteq left'
        /\ backup # None => Aside(op.build, backup) \in left'
        /\ left' \subseteq left \cup {Aside(op.build, backup)}
        /\ backup = None => left' = left
    BY DEF RollBackFails, KeepBackup
  <1>1. TypeOK' /\ Control'
    BY MarksAssumption
    DEF IInv, RollBackFails, KeepBackup, Aside, Dirty, TypeOK, Control, Ops, Pcs, Kinds,
        Dirs, Kept, Trees, Goto
  <1>2. Staged' /\ Pinned' /\ PullIsConfirmed'
    BY MarksAssumption
    DEF IInv, RollBackFails, KeepBackup, Aside, Dirty, TypeOK, Control, Ops, Kinds,
        Goto, Staged, Pinned, PullIsConfirmed, OfPull, Working
  <1>3. BackupIsAside' /\ PathIsFree' /\ PathIsTaken' /\ BackupIsWhole'
    BY MarksAssumption
    DEF IInv, RollBackFails, KeepBackup, Aside, Dirty, TypeOK, Control, Ops, Dirs, Goto,
        BackupIsAside, PathIsFree, PathIsTaken, BackupIsWhole, InstalledIsWhole, Staged,
        Whole
  <1>4. InstalledIsKept'
    <2>1. SUFFICES ASSUME NEW b \in installed \ swept
                   PROVE  Whole(slot[b]) \/ \E x \in left' : x.build = b /\ x.tree # Broken
      BY DEF RollBackFails, InstalledIsKept, Whole
    <2>2. CASE Whole(backup) /\ op.build = b
      BY <2>2, <1>c, <1>d DEF Whole
    <2>3. CASE \E x \in left : x.build = b /\ x.tree # Broken
      BY <2>3, <1>d
    <2> QED BY <2>2, <2>3 DEF IInv, InstalledIsKept
  <1>5. InstalledIsWhole'
    BY MarksAssumption
    DEF IInv, RollBackFails, KeepBackup, Aside, Dirty, TypeOK, Control, Ops, Dirs, Goto,
        InstalledIsWhole, BackupIsWhole, BackupIsAside, Staged
  <1>6. Pressed'
    BY DEF IInv, RollBackFails, KeepBackup, Aside, Dirty, TypeOK, Goto, Pressed,
           CancelHonoured, Stoppable
  <1>7. Tidy'
    BY DEF IInv, RollBackFails, KeepBackup, Aside, Dirty, TypeOK, Goto, Tidy
  <1> QED BY <1>1, <1>2, <1>3, <1>4, <1>5, <1>6, <1>7 DEF IInv

\* The backup is removed when the path is taken.
LEMMA DropBeginsKeeps ==
  ASSUME IInv, DropBegins
  PROVE  IInv'
  <1>1. TypeOK' /\ Control'
    BY MarksAssumption
    DEF IInv, DropBegins, TypeOK, Control, Ops, Pcs, Kinds, Dirs, Kept, Trees, others
  <1>2. Staged' /\ Pinned' /\ PullIsConfirmed'
    BY MarksAssumption
    DEF IInv, DropBegins, TypeOK, Control, Ops, Kinds, others, Staged, Pinned,
        PullIsConfirmed, OfPull, Working
  <1>3. BackupIsAside' /\ PathIsFree' /\ PathIsTaken' /\ BackupIsWhole'
    BY MarksAssumption
    DEF IInv, DropBegins, TypeOK, Control, Ops, Dirs, others, BackupIsAside, PathIsFree,
        PathIsTaken, BackupIsWhole, InstalledIsWhole, Staged, Whole
  <1>4. InstalledIsKept'
    BY MarksAssumption
    DEF IInv, DropBegins, TypeOK, Control, Ops, Dirs, others, InstalledIsKept,
        InstalledIsWhole, BackupIsAside, PathIsFree, PathIsTaken, BackupIsWhole, Staged,
        Whole
  <1>5. InstalledIsWhole'
    BY MarksAssumption
    DEF IInv, DropBegins, TypeOK, Control, Ops, Dirs, others, InstalledIsWhole,
        BackupIsWhole, BackupIsAside, Staged
  <1>6. Pressed'
    BY DEF IInv, DropBegins, TypeOK, others, Pressed, CancelHonoured, Stoppable
  <1>7. Tidy'
    BY DEF IInv, DropBegins, TypeOK, others, Tidy
  <1> QED BY <1>1, <1>2, <1>3, <1>4, <1>5, <1>6, <1>7 DEF IInv

\* What remains of it does no harm.
LEMMA DropEndsKeeps ==
  ASSUME IInv, DropEnds
  PROVE  IInv'
  <1>a. backup # None => op \in Ops /\ op.build \in Builds /\ backup \in Dirs
    BY MarksAssumption DEF IInv, TypeOK, Control, BackupIsAside, Ops
  <1>b. backup # None => Aside(op.build, backup) \in Kept
    BY <1>a DEF Aside, Kept, Dirs
  <1>c. /\ Aside(op.build, backup).build = op.build
        /\ Aside(op.build, backup).tree = backup.tree
    BY DEF Aside
  <1>d. (left' = left) \/ (backup # None /\ left' = left \cup {Aside(op.build, backup)})
    BY DEF DropEnds, KeepBackup
  <1>1. TypeOK' /\ Control'
    BY <1>a, <1>b, <1>c, <1>d, MarksAssumption
    DEF IInv, DropEnds, TypeOK, Control, Pcs, Goto, Dirty, KeepBackup
  <1>2. Staged' /\ Pinned' /\ PullIsConfirmed'
    BY MarksAssumption
    DEF IInv, DropEnds, KeepBackup, Aside, Dirty, TypeOK, Control, Ops, Kinds, Goto,
        Staged, Pinned, PullIsConfirmed, OfPull, Working
  <1>3. BackupIsAside' /\ PathIsFree' /\ PathIsTaken' /\ BackupIsWhole'
    BY MarksAssumption
    DEF IInv, DropEnds, KeepBackup, Aside, Dirty, TypeOK, Control, Ops, Dirs, Goto,
        BackupIsAside, PathIsFree, PathIsTaken, BackupIsWhole, InstalledIsWhole, Staged,
        Whole
  <1>4. InstalledIsKept'
    BY MarksAssumption
    DEF IInv, DropEnds, KeepBackup, Aside, Dirty, TypeOK, Control, Ops, Dirs, Goto,
        InstalledIsKept, InstalledIsWhole, BackupIsAside, PathIsFree, PathIsTaken,
        BackupIsWhole, Staged, Whole
  <1>5. InstalledIsWhole'
    BY MarksAssumption
    DEF IInv, DropEnds, KeepBackup, Aside, Dirty, TypeOK, Control, Ops, Dirs, Goto,
        InstalledIsWhole, BackupIsWhole, BackupIsAside, Staged
  <1>6. Pressed'
    BY DEF IInv, DropEnds, KeepBackup, Aside, Dirty, TypeOK, Goto, Pressed,
           CancelHonoured, Stoppable
  <1>7. Tidy'
    BY DEF IInv, DropEnds, KeepBackup, Aside, Dirty, TypeOK, Goto, Tidy
  <1> QED BY <1>1, <1>2, <1>3, <1>4, <1>5, <1>6, <1>7 DEF IInv

\* An operation that is over has no backup.
LEMMA CleanKeeps ==
  ASSUME IInv, Clean
  PROVE  IInv'
  <1>1. TypeOK' /\ Control'
    BY MarksAssumption
    DEF IInv, Clean, Own, Dirty, TypeOK, Control, Ops, Pcs, Kinds, Dirs, Kept, Trees,
        Goto
  <1>2. Staged' /\ Pinned' /\ PullIsConfirmed'
    BY MarksAssumption
    DEF IInv, Clean, Own, Dirty, TypeOK, Control, Ops, Kinds, Goto, Staged, Pinned,
        PullIsConfirmed, OfPull, Working
  <1>3. BackupIsAside' /\ PathIsFree' /\ PathIsTaken' /\ BackupIsWhole'
    BY MarksAssumption
    DEF IInv, Clean, Own, Dirty, TypeOK, Control, Ops, Dirs, Goto, BackupIsAside,
        PathIsFree, PathIsTaken, BackupIsWhole, InstalledIsWhole, Staged, Whole
  <1>4. InstalledIsKept'
    BY MarksAssumption
    DEF IInv, Clean, Own, Dirty, TypeOK, Control, Ops, Dirs, Goto, InstalledIsKept,
        InstalledIsWhole, BackupIsAside, PathIsFree, PathIsTaken, BackupIsWhole, Staged,
        Whole
  <1>5. InstalledIsWhole'
    BY MarksAssumption
    DEF IInv, Clean, Own, Dirty, TypeOK, Control, Ops, Dirs, Goto, InstalledIsWhole,
        BackupIsWhole, BackupIsAside, Staged
  <1>6. Pressed'
    BY DEF IInv, Clean, Own, Dirty, TypeOK, Goto, Pressed, CancelHonoured, Stoppable
  <1>7. Tidy'
    BY DEF IInv, Clean, Own, Dirty, TypeOK, Goto, Tidy
  <1> QED BY <1>1, <1>2, <1>3, <1>4, <1>5, <1>6, <1>7 DEF IInv

\* An uninstalled runtime is no longer promised.
LEMMA RemoveBeginsKeeps ==
  ASSUME IInv, RemoveBegins
  PROVE  IInv'
  <1>1. TypeOK' /\ Control'
    BY MarksAssumption
    DEF IInv, RemoveBegins, Fresh, TypeOK, Control, Ops, Pcs, Kinds, Dirs, Kept, Trees,
        others
  <1>2. Staged' /\ Pinned' /\ PullIsConfirmed'
    BY MarksAssumption
    DEF IInv, RemoveBegins, Fresh, TypeOK, Control, Ops, Kinds, others, Staged, Pinned,
        PullIsConfirmed, OfPull, Working
  <1>3. BackupIsAside' /\ PathIsFree' /\ PathIsTaken' /\ BackupIsWhole'
    BY MarksAssumption
    DEF IInv, RemoveBegins, Fresh, TypeOK, Control, Ops, Dirs, others, BackupIsAside,
        PathIsFree, PathIsTaken, BackupIsWhole, InstalledIsWhole, Staged, Whole
  <1>4. InstalledIsKept'
    BY MarksAssumption
    DEF IInv, RemoveBegins, Fresh, TypeOK, Control, Ops, Dirs, others, InstalledIsKept,
        InstalledIsWhole, BackupIsAside, PathIsFree, PathIsTaken, BackupIsWhole, Staged,
        Whole
  <1>5. InstalledIsWhole'
    BY MarksAssumption
    DEF IInv, RemoveBegins, Fresh, TypeOK, Control, Ops, Dirs, others, InstalledIsWhole,
        BackupIsWhole, BackupIsAside, Staged
  <1>6. Pressed'
    BY DEF IInv, RemoveBegins, Fresh, TypeOK, others, Pressed, CancelHonoured, Stoppable
  <1>7. Tidy'
    BY DEF IInv, RemoveBegins, Fresh, TypeOK, others, Tidy
  <1> QED BY <1>1, <1>2, <1>3, <1>4, <1>5, <1>6, <1>7 DEF IInv

\* Only a runtime no longer promised, or none, goes.
LEMMA RemoveEndsKeeps ==
  ASSUME IInv, RemoveEnds
  PROVE  IInv'
  <1>1. TypeOK' /\ Control'
    BY MarksAssumption
    DEF IInv, RemoveEnds, TypeOK, Control, Ops, Pcs, Kinds, Dirs, Kept, Trees, Goto,
        others
  <1>2. Staged' /\ Pinned' /\ PullIsConfirmed'
    BY MarksAssumption
    DEF IInv, RemoveEnds, TypeOK, Control, Ops, Kinds, Goto, others, Staged, Pinned,
        PullIsConfirmed, OfPull, Working
  <1>3. BackupIsAside' /\ PathIsFree' /\ PathIsTaken' /\ BackupIsWhole'
    BY MarksAssumption
    DEF IInv, RemoveEnds, TypeOK, Control, Ops, Dirs, Goto, others, BackupIsAside,
        PathIsFree, PathIsTaken, BackupIsWhole, InstalledIsWhole, Staged, Whole
  <1>4. InstalledIsKept'
    BY MarksAssumption
    DEF IInv, RemoveEnds, TypeOK, Control, Ops, Dirs, Goto, others, InstalledIsKept,
        InstalledIsWhole, BackupIsAside, PathIsFree, PathIsTaken, BackupIsWhole, Staged,
        Whole
  <1>5. InstalledIsWhole'
    BY MarksAssumption
    DEF IInv, RemoveEnds, TypeOK, Control, Ops, Dirs, Goto, others, InstalledIsWhole,
        BackupIsWhole, BackupIsAside, Staged
  <1>6. Pressed'
    BY DEF IInv, RemoveEnds, TypeOK, Goto, others, Pressed, CancelHonoured, Stoppable
  <1>7. Tidy'
    BY DEF IInv, RemoveEnds, TypeOK, Goto, others, Tidy
  <1> QED BY <1>1, <1>2, <1>3, <1>4, <1>5, <1>6, <1>7 DEF IInv

\* The commit was pinned before.
LEMMA HeadMovesKeeps ==
  ASSUME IInv, HeadMoves
  PROVE  IInv'
  <1>1. TypeOK' /\ Control'
    BY MarksAssumption
    DEF IInv, HeadMoves, TypeOK, Control, Ops, Pcs, Kinds, Dirs, Kept, Trees, disk
  <1>2. Staged' /\ Pinned' /\ PullIsConfirmed'
    BY MarksAssumption
    DEF IInv, HeadMoves, TypeOK, Control, Ops, Kinds, disk, Staged, Pinned,
        PullIsConfirmed, OfPull, Working
  <1>3. BackupIsAside' /\ PathIsFree' /\ PathIsTaken' /\ BackupIsWhole'
    BY MarksAssumption
    DEF IInv, HeadMoves, TypeOK, Control, Ops, Dirs, disk, BackupIsAside, PathIsFree,
        PathIsTaken, BackupIsWhole, InstalledIsWhole, Staged, Whole
  <1>4. InstalledIsKept'
    BY MarksAssumption
    DEF IInv, HeadMoves, TypeOK, Control, Ops, Dirs, disk, InstalledIsKept,
        InstalledIsWhole, BackupIsAside, PathIsFree, PathIsTaken, BackupIsWhole, Staged,
        Whole
  <1>5. InstalledIsWhole'
    BY MarksAssumption
    DEF IInv, HeadMoves, TypeOK, Control, Ops, Dirs, disk, InstalledIsWhole,
        BackupIsWhole, BackupIsAside, Staged
  <1>6. Pressed'
    BY DEF IInv, HeadMoves, TypeOK, disk, Pressed, CancelHonoured, Stoppable
  <1>7. Tidy'
    BY DEF IInv, HeadMoves, TypeOK, disk, Tidy
  <1> QED BY <1>1, <1>2, <1>3, <1>4, <1>5, <1>6, <1>7 DEF IInv

\* A backup outlives the crash as a leftover directory.
LEMMA CrashKeeps ==
  ASSUME IInv, Crash
  PROVE  IInv'
  <1>a. backup # None => op \in Ops /\ op.build \in Builds /\ backup \in Dirs
    BY MarksAssumption DEF IInv, TypeOK, Control, BackupIsAside, Ops
  <1>b. backup # None => Aside(op.build, backup) \in Kept
    BY <1>a DEF Aside, Kept, Dirs
  <1>c. /\ Aside(op.build, backup).build = op.build
        /\ Aside(op.build, backup).tree = backup.tree
    BY DEF Aside
  <1>d. /\ left \subseteq left'
        /\ backup # None => Aside(op.build, backup) \in left'
        /\ left' \subseteq left \cup {Aside(op.build, backup)}
        /\ backup = None => left' = left
    BY DEF Crash, KeepBackup
  <1>1. TypeOK' /\ Control'
    BY <1>a, <1>b, <1>c, <1>d, MarksAssumption
    DEF IInv, Crash, TypeOK, Control, Pcs, Goto, Dirty, KeepBackup
  <1>2. Staged' /\ Pinned' /\ PullIsConfirmed'
    BY MarksAssumption
    DEF IInv, Crash, KeepBackup, Aside, Own, Dirty, TypeOK, Control, Ops, Kinds, Goto,
        Staged, Pinned, PullIsConfirmed, OfPull, Working
  <1>3. BackupIsAside' /\ PathIsFree' /\ PathIsTaken' /\ BackupIsWhole'
    BY MarksAssumption
    DEF IInv, Crash, KeepBackup, Aside, Own, Dirty, TypeOK, Control, Ops, Dirs, Goto,
        BackupIsAside, PathIsFree, PathIsTaken, BackupIsWhole, InstalledIsWhole, Staged,
        Whole
  <1>4. InstalledIsKept'
    <2>1. SUFFICES ASSUME NEW b \in installed \ swept
                   PROVE  Whole(slot[b]) \/ \E x \in left' : x.build = b /\ x.tree # Broken
      BY DEF Crash, InstalledIsKept, Whole
    <2>2. CASE Whole(backup) /\ op.build = b
      BY <2>2, <1>c, <1>d DEF Whole
    <2>3. CASE \E x \in left : x.build = b /\ x.tree # Broken
      BY <2>3, <1>d
    <2> QED BY <2>2, <2>3 DEF IInv, InstalledIsKept
  <1>5. InstalledIsWhole'
    BY MarksAssumption
    DEF IInv, Crash, KeepBackup, Aside, Own, Dirty, TypeOK, Control, Ops, Dirs, Goto,
        InstalledIsWhole, BackupIsWhole, BackupIsAside, Staged
  <1>6. Pressed'
    BY DEF IInv, Crash, KeepBackup, Aside, Own, Dirty, TypeOK, Goto, Pressed,
           CancelHonoured, Stoppable
  <1>7. Tidy'
    BY DEF IInv, Crash, KeepBackup, Aside, Own, Dirty, TypeOK, Goto, Tidy
  <1> QED BY <1>1, <1>2, <1>3, <1>4, <1>5, <1>6, <1>7 DEF IInv

\* Only ages change.
LEMMA WeekKeeps ==
  ASSUME IInv, Week
  PROVE  IInv'
  <1>a. \A b \in Builds :
        /\ slot'[b] \in Dirs \cup {None}
        /\ slot[b] = None => slot'[b] = None
        /\ slot[b] # None => slot'[b] # None /\ slot'[b].tree = slot[b].tree
    BY MarksAssumption DEF IInv, TypeOK, Week, Dirs
  <1>b. \A x \in left : [x EXCEPT !.aged = TRUE] \in Kept /\ [x EXCEPT !.aged = TRUE].build = x.build
             /\ [x EXCEPT !.aged = TRUE].tree = x.tree
    BY DEF IInv, TypeOK, Kept
  <1>c. left' \subseteq Kept /\ \A x \in left : \E y \in left' : y.build = x.build /\ y.tree = x.tree
    BY <1>b DEF Week
  <1>d. slot' \in [Builds -> Dirs \cup {None}]
    BY <1>a DEF Week
  <1>1. TypeOK' /\ Control'
    BY <1>a, <1>b, <1>c, <1>d, MarksAssumption
    DEF IInv, Week, TypeOK, Control, Pcs, disk
  <1>2. Staged' /\ Pinned' /\ PullIsConfirmed'
    BY MarksAssumption
    DEF IInv, Week, TypeOK, Control, Ops, Kinds, Staged, Pinned, PullIsConfirmed,
        OfPull, Working
  <1>3. BackupIsAside' /\ PathIsFree' /\ PathIsTaken' /\ BackupIsWhole'
    BY MarksAssumption
    DEF IInv, Week, TypeOK, Control, Ops, Dirs, BackupIsAside, PathIsFree, PathIsTaken,
        BackupIsWhole, InstalledIsWhole, Staged, Whole
  <1>4. InstalledIsKept'
    <2>1. SUFFICES ASSUME NEW b \in installed \ swept
                   PROVE  \/ Whole(slot'[b])
                          \/ Whole(backup) /\ op.build = b
                          \/ \E x \in left' : x.build = b /\ x.tree # Broken
      BY DEF Week, InstalledIsKept, Whole
    <2>2. CASE Whole(slot[b])
      BY <2>2, <1>a DEF IInv, TypeOK, Whole
    <2>3. CASE \E x \in left : x.build = b /\ x.tree # Broken
      BY <2>3, <1>c
    <2> QED BY <2>2, <2>3 DEF IInv, InstalledIsKept
  <1>5. InstalledIsWhole'
    BY MarksAssumption
    DEF IInv, Week, TypeOK, Control, Ops, Dirs, InstalledIsWhole, BackupIsWhole,
        BackupIsAside, Staged
  <1>6. Pressed'
    BY DEF IInv, Week, TypeOK, Pressed, CancelHonoured, Stoppable
  <1>7. Tidy'
    BY DEF IInv, Week, TypeOK, Tidy
  <1> QED BY <1>1, <1>2, <1>3, <1>4, <1>5, <1>6, <1>7 DEF IInv

\* Leftovers that are not copies of a runtime.
LEMMA SweepJunkKeeps ==
  ASSUME IInv, SweepJunk
  PROVE  IInv'
  <1>1. TypeOK' /\ Control'
    BY MarksAssumption DEF IInv, SweepJunk, TypeOK, Control, Pcs
  <1>2. Staged' /\ Pinned' /\ PullIsConfirmed'
    BY MarksAssumption
    DEF IInv, SweepJunk, TypeOK, Control, Ops, Kinds, Staged, Pinned, PullIsConfirmed,
        OfPull, Working
  <1>3. BackupIsAside' /\ PathIsFree' /\ PathIsTaken' /\ BackupIsWhole'
    BY MarksAssumption
    DEF IInv, SweepJunk, TypeOK, Control, Ops, Dirs, BackupIsAside, PathIsFree,
        PathIsTaken, BackupIsWhole, InstalledIsWhole, Staged, Whole
  <1>4. InstalledIsKept'
    BY MarksAssumption
    DEF IInv, SweepJunk, TypeOK, Control, Ops, Dirs, InstalledIsKept, InstalledIsWhole,
        BackupIsAside, PathIsFree, PathIsTaken, BackupIsWhole, Staged, Whole
  <1>5. InstalledIsWhole'
    BY MarksAssumption
    DEF IInv, SweepJunk, TypeOK, Control, Ops, Dirs, InstalledIsWhole, BackupIsWhole,
        BackupIsAside, Staged
  <1>6. Pressed'
    BY DEF IInv, SweepJunk, TypeOK, Pressed, CancelHonoured, Stoppable
  <1>7. Tidy'
    BY DEF IInv, SweepJunk, TypeOK, Tidy
  <1> QED BY <1>1, <1>2, <1>3, <1>4, <1>5, <1>6, <1>7 DEF IInv

\* A copy is taken: the path holds the runtime, or it counts as swept.
LEMMA SweepLeftKeeps ==
  ASSUME IInv, SweepLeft
  PROVE  IInv'
  <1>1. TypeOK' /\ Control'
    BY MarksAssumption
    DEF IInv, SweepLeft, Takes, TypeOK, Control, Ops, Pcs, Kinds, Dirs, Kept, Trees
  <1>2. Staged' /\ Pinned' /\ PullIsConfirmed'
    BY MarksAssumption
    DEF IInv, SweepLeft, Takes, TypeOK, Control, Ops, Kinds, Staged, Pinned,
        PullIsConfirmed, OfPull, Working
  <1>3. BackupIsAside' /\ PathIsFree' /\ PathIsTaken' /\ BackupIsWhole'
    BY MarksAssumption
    DEF IInv, SweepLeft, Takes, TypeOK, Control, Ops, Dirs, BackupIsAside, PathIsFree,
        PathIsTaken, BackupIsWhole, InstalledIsWhole, Staged, Whole
  <1>4. InstalledIsKept'
    BY MarksAssumption
    DEF IInv, SweepLeft, Takes, TypeOK, Control, Ops, Dirs, InstalledIsKept,
        InstalledIsWhole, BackupIsAside, PathIsFree, PathIsTaken, BackupIsWhole, Staged,
        Whole
  <1>5. InstalledIsWhole'
    BY MarksAssumption
    DEF IInv, SweepLeft, Takes, TypeOK, Control, Ops, Dirs, InstalledIsWhole,
        BackupIsWhole, BackupIsAside, Staged
  <1>6. Pressed'
    BY DEF IInv, SweepLeft, Takes, TypeOK, Pressed, CancelHonoured, Stoppable
  <1>7. Tidy'
    BY DEF IInv, SweepLeft, Takes, TypeOK, Tidy
  <1> QED BY <1>1, <1>2, <1>3, <1>4, <1>5, <1>6, <1>7 DEF IInv

\* The same for the backup of the operation under way.
LEMMA SweepBackupKeeps ==
  ASSUME IInv, SweepBackup
  PROVE  IInv'
  <1>1. TypeOK' /\ Control'
    BY MarksAssumption
    DEF IInv, SweepBackup, Takes, TypeOK, Control, Ops, Pcs, Kinds, Dirs, Kept, Trees
  <1>2. Staged' /\ Pinned' /\ PullIsConfirmed'
    BY MarksAssumption
    DEF IInv, SweepBackup, Takes, TypeOK, Control, Ops, Kinds, Staged, Pinned,
        PullIsConfirmed, OfPull, Working
  <1>3. BackupIsAside' /\ PathIsFree' /\ PathIsTaken' /\ BackupIsWhole'
    BY MarksAssumption
    DEF IInv, SweepBackup, Takes, TypeOK, Control, Ops, Dirs, BackupIsAside, PathIsFree,
        PathIsTaken, BackupIsWhole, InstalledIsWhole, Staged, Whole
  <1>4. InstalledIsKept'
    BY MarksAssumption
    DEF IInv, SweepBackup, Takes, TypeOK, Control, Ops, Dirs, InstalledIsKept,
        InstalledIsWhole, BackupIsAside, PathIsFree, PathIsTaken, BackupIsWhole, Staged,
        Whole
  <1>5. InstalledIsWhole'
    BY MarksAssumption
    DEF IInv, SweepBackup, Takes, TypeOK, Control, Ops, Dirs, InstalledIsWhole,
        BackupIsWhole, BackupIsAside, Staged
  <1>6. Pressed'
    BY DEF IInv, SweepBackup, Takes, TypeOK, Pressed, CancelHonoured, Stoppable
  <1>7. Tidy'
    BY DEF IInv, SweepBackup, Takes, TypeOK, Tidy
  <1> QED BY <1>1, <1>2, <1>3, <1>4, <1>5, <1>6, <1>7 DEF IInv

\* Nothing on disk changes.
LEMMA SweepEndsKeeps ==
  ASSUME IInv, SweepEnds
  PROVE  IInv'
  <1>1. TypeOK' /\ Control'
    BY MarksAssumption DEF IInv, SweepEnds, TypeOK, Control, Pcs, disk
  <1>2. Staged' /\ Pinned' /\ PullIsConfirmed'
    BY MarksAssumption
    DEF IInv, SweepEnds, TypeOK, Control, Ops, Kinds, disk, Staged, Pinned,
        PullIsConfirmed, OfPull, Working
  <1>3. BackupIsAside' /\ PathIsFree' /\ PathIsTaken' /\ BackupIsWhole'
    BY MarksAssumption
    DEF IInv, SweepEnds, TypeOK, Control, Ops, Dirs, disk, BackupIsAside, PathIsFree,
        PathIsTaken, BackupIsWhole, InstalledIsWhole, Staged, Whole
  <1>4. InstalledIsKept'
    BY MarksAssumption
    DEF IInv, SweepEnds, TypeOK, Control, Ops, Dirs, disk, InstalledIsKept,
        InstalledIsWhole, BackupIsAside, PathIsFree, PathIsTaken, BackupIsWhole, Staged,
        Whole
  <1>5. InstalledIsWhole'
    BY MarksAssumption
    DEF IInv, SweepEnds, TypeOK, Control, Ops, Dirs, disk, InstalledIsWhole,
        BackupIsWhole, BackupIsAside, Staged
  <1>6. Pressed'
    BY DEF IInv, SweepEnds, TypeOK, disk, Pressed, CancelHonoured, Stoppable
  <1>7. Tidy'
    BY DEF IInv, SweepEnds, TypeOK, disk, Tidy
  <1> QED BY <1>1, <1>2, <1>3, <1>4, <1>5, <1>6, <1>7 DEF IInv

-------------------------------------------------------------------------------
(* Theorems *)

\* Complete runtimes, no operation under way.
LEMMA InitEstablishes == Init => IInv
  <1>1. Init => TypeOK /\ Control
    BY MarksAssumption DEF Init, TypeOK, Control, Dirs, Trees, Pcs
  <1>2. Init => InstalledIsKept /\ InstalledIsWhole
    <2>1. SUFFICES ASSUME Init, NEW b \in Builds, slot[b] # None
                   PROVE  slot[b].tree # Broken
      BY DEF Init, InstalledIsKept, InstalledIsWhole, Whole
    <2>2. slot[b] \in [tree : Commits, aged : BOOLEAN]
      BY <2>1 DEF Init
    <2> QED BY <2>2, MarksAssumption
  <1>3. Init => /\ Staged /\ Pinned /\ PullIsConfirmed
                /\ BackupIsAside /\ PathIsFree /\ PathIsTaken /\ BackupIsWhole
                /\ Pressed /\ Tidy
    BY DEF Init, Staged, Pinned, PullIsConfirmed, Working, BackupIsAside, PathIsFree,
           PathIsTaken, BackupIsWhole, Pressed, CancelHonoured, Tidy
  <1> QED BY <1>1, <1>2, <1>3 DEF IInv

\* A stuttering step.
LEMMA StutterKeeps ==
  ASSUME IInv, UNCHANGED vars
  PROVE  IInv'
  BY DEF vars, IInv, TypeOK, Control, Staged, Pinned, OfPull, PullIsConfirmed,
         BackupIsAside, PathIsFree, PathIsTaken, BackupIsWhole, InstalledIsKept,
         InstalledIsWhole, Whole, Pressed, CancelHonoured, Tidy

\* What holds of the disk and the operation under way, in every reachable state.
THEOREM Invariance == Spec => []IInv
  <1>1. Init => IInv
    BY InitEstablishes
  <1>2. ASSUME IInv, [Next]_vars
        PROVE  IInv'
    <2>1. CASE Request
      <3>1. ASSUME NEW kind \in Kinds, NEW b \in Builds, NEW c \in Commits \cup {None},
                   Begin(kind, b, c)
            PROVE  IInv'
        BY <1>2, <3>1, BeginKeeps
      <3> QED BY <1>2, <2>1, <3>1, RefusedKeeps, AdmitKeeps, CancelKeeps DEF Request
    <2>2. CASE Obtain
      BY <1>2, <2>2, ResolveKeeps, FetchKeeps, StageBeginsKeeps, StageEndsKeeps,
         PreflightKeeps, LastCheckKeeps, InstallFailsKeeps
      DEF Obtain
    <2>3. CASE Replace
      BY <1>2, <2>3, MoveOldKeeps, ActivateKeeps, ActivateFailsKeeps, RollBackKeeps,
         RollBackFailsKeeps, DropBeginsKeeps, DropEndsKeeps, CleanKeeps
      DEF Replace
    <2>4. CASE Remove
      BY <1>2, <2>4, RemoveBeginsKeeps, RemoveEndsKeeps DEF Remove
    <2>5. CASE Outside
      BY <1>2, <2>5, HeadMovesKeeps, CrashKeeps, WeekKeeps DEF Outside
    <2>6. CASE Sweep
      BY <1>2, <2>6, SweepJunkKeeps, SweepLeftKeeps, SweepBackupKeeps, SweepEndsKeeps
      DEF Sweep
    <2>7. CASE UNCHANGED vars
      BY <1>2, <2>7, StutterKeeps
    <2> QED BY <1>2, <2>1, <2>2, <2>3, <2>4, <2>5, <2>6, <2>7 DEF Next
  <1> QED BY <1>1, <1>2, PTL DEF Spec

\* Every variable stays in its domain.
THEOREM TypeCorrect == Spec => []TypeOK
  <1>1. IInv => TypeOK
    BY DEF IInv
  <1> QED BY <1>1, Invariance, PTL

\* No failure, crash or cancellation of replace_runtime loses an installed runtime: a
\* complete copy remains, unless the sweep took one while nothing was at its path.
THEOREM RuntimesAreKept == Spec => []InstalledIsKept
  <1>1. IInv => InstalledIsKept
    BY DEF IInv
  <1> QED BY <1>1, Invariance, PTL

\* Nothing incomplete is ever at the path of an installed runtime, with the same exception.
THEOREM RuntimesAreWhole == Spec => []InstalledIsWhole
  <1>1. IInv => InstalledIsWhole
    BY DEF IInv
  <1> QED BY <1>1, Invariance, PTL

\* A pull request's runtime is activated only from the commit the user confirmed.
THEOREM PullsAreConfirmed == Spec => []PullIsConfirmed
  <1>1. IInv => PullIsConfirmed
    BY DEF IInv
  <1> QED BY <1>1, Invariance, PTL

\* Nothing is replaced after a cancellation that came before the last check.
THEOREM CancellationHonoured == Spec => []CancelHonoured
  <1>1. IInv => CancelHonoured
    BY DEF IInv, Pressed
  <1> QED BY <1>1, Invariance, PTL

\* Without failures and crashes nothing an operation created outlives it.
THEOREM WorkIsCleanedUp == Spec => []NothingLeft
  <1>1. IInv => NothingLeft
    BY DEF IInv, Tidy, NothingLeft
  <1> QED BY <1>1, Invariance, PTL

\* An installed runtime stays complete at its path or beside it.
THEOREM RuntimesAreSafe == Spec => []InstalledIsSafe
BY RuntimesAreKept, RuntimesAreWhole, PTL DEF InstalledIsSafe

\* A cancelled operation replaces nothing, and an operation leaves nothing behind.
THEOREM OperationsEndClean == Spec => []EndsClean
BY CancellationHonoured, WorkIsCleanedUp, PTL DEF EndsClean
===============================================================================
