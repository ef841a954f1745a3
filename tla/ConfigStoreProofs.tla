--------------------------- MODULE ConfigStoreProofs ---------------------------
(* What is proved of ConfigStore for any edits, runtimes and participants. *)
EXTENDS ConfigStore, TLAPS

-------------------------------------------------------------------------------
(* The inductive invariant *)

\* Who holds a configuration, and the queue has an operation while a save is under way.
Holding ==
  /\ \A r \in AllRoles : pc[r] \in {"migrating", "read"} => hand[r] \in Configs
  /\ pc["start"] \in {"called", "validating"} => hand["start"] \in Configs
  /\ pc["save"] # "idle" =>
       /\ pc["save"] \in {"called", "waiting", "saved", "refused"}
       /\ queue # <<>>
       /\ hand["save"] \in Configs
       /\ previous \in Configs
  /\ pc["load"] \in {"idle", "reading", "migrating", "read"}

\* An edit is queued once, and not after it was reported.
QueueFresh ==
  /\ \A i \in DOMAIN queue : queue[i] \notin accepted \cup failed
  /\ \A i, j \in DOMAIN queue : i # j => queue[i] # queue[j]

Pending == IF pc["save"] = "idle" THEN {} ELSE {Head(queue)}
Committed == IF pc["save"] = "saved" THEN {Head(queue)} ELSE {}

\* c has what was reported as saved, and besides that only what is in extra.
Within(c, extra) ==
  /\ accepted \subseteq c.edits
  /\ c.edits \subseteq accepted \cup {CliEdit} \cup extra

FileGood == Within(file, Committed) /\ Committed \subseteq file.edits
ViewGood == view # NoConfig => Within(view, Pending)
SaveGood ==
  pc["save"] # "idle" =>
    /\ Within(hand["save"], Pending)
    /\ Head(queue) \in hand["save"].edits
    /\ Within(previous, {})
LoadGood ==
  pc["load"] \in {"migrating", "read"} =>
    Within(hand["load"], Committed) /\ Committed \subseteq hand["load"].edits
StartGood ==
  pc["start"] \in {"called", "validating"} =>
    Within(hand["start"], {}) /\ pc["save"] # "saved"

Fresh == FileGood /\ ViewGood /\ SaveGood /\ LoadGood /\ StartGood

IInv == TypeOK /\ Holding /\ QueueFresh /\ (~raced => Fresh)


-------------------------------------------------------------------------------
(* The queue *)

\* Taking the head off a queue without repetitions.
LEMMA HeadTail ==
  ASSUME NEW q \in Seq(Edits), q # <<>>
  PROVE  /\ Tail(q) \in Seq(Edits)
         /\ Head(q) = q[1] /\ 1 \in DOMAIN q /\ Head(q) \in Edits
         /\ \A i \in DOMAIN Tail(q) : i + 1 \in DOMAIN q /\ Tail(q)[i] = q[i + 1] /\ i \in Nat /\ i # 0
  OBVIOUS

\* Adding at the end.
LEMMA Appended ==
  ASSUME NEW q \in Seq(Edits), NEW e \in Edits
  PROVE  /\ Append(q, e) \in Seq(Edits)
         /\ Append(q, e) # <<>>
         /\ q # <<>> => Head(Append(q, e)) = Head(q)
         /\ \A i \in DOMAIN Append(q, e) :
              \/ i \in DOMAIN q /\ Append(q, e)[i] = q[i]
              \/ i = Len(q) + 1 /\ i \notin DOMAIN q /\ Append(q, e)[i] = e
<1>1. Append(q, e) \in Seq(Edits) /\ Len(Append(q, e)) = Len(q) + 1 /\ Len(q) \in Nat
  OBVIOUS
<1>2. \A i \in 1 .. Len(q) : Append(q, e)[i] = q[i]
  OBVIOUS
<1>3. Append(q, e)[Len(q) + 1] = e
  OBVIOUS
<1>4. Append(q, e) # <<>>
  BY <1>1
<1>5. DOMAIN q = 1 .. Len(q) /\ DOMAIN Append(q, e) = 1 .. Len(q) + 1
  BY <1>1
<1>6. ASSUME q # <<>> PROVE Head(Append(q, e)) = Head(q)
  BY <1>1, <1>2, <1>6
<1> QED
  BY <1>1, <1>2, <1>3, <1>4, <1>5, <1>6

-------------------------------------------------------------------------------
(* Every step keeps the invariant *)

\* The domains.
LEMMA TypeStep ==
  ASSUME TypeOK /\ Holding /\ QueueFresh, [Next]_vars
  PROVE  TypeOK'
<1>1. ASSUME NEW r \in AllRoles, Read(r)
      PROVE  TypeOK'
  BY <1>1 DEF Read, Reader, Goto, TypeOK, Holding, Configs, Pcs, AllRoles, front
<1>2. ASSUME NEW r \in AllRoles, Migrate(r)
      PROVE  TypeOK'
  BY <1>2
  DEF Migrate, WriteBack, Write, Goto, TypeOK, Holding, Configs, Pcs, AllRoles,
      front
<1>3. ASSUME NEW e \in Edits, Submit(e)
      PROVE  TypeOK'
  BY <1>3, Appended DEF Submit, TypeOK, Holding, Configs, Pcs, AllRoles, front
<1>4. CASE QueueTakes
  BY <1>4, HeadTail
  DEF QueueTakes, AddEdit, Goto, TypeOK, Holding, Configs, Pcs, AllRoles, front
<1>5. CASE QueueTooEarly
  BY <1>5, HeadTail
  DEF QueueTooEarly, TypeOK, Holding, Configs, Pcs, AllRoles, front, QueueFresh
<1>6. CASE SaveChecks
  BY <1>6 DEF SaveChecks, Goto, TypeOK, Holding, Configs, Pcs, AllRoles, front
<1>7. CASE SaveCommits
  BY <1>7
  DEF SaveCommits, Overlap, Write, Goto, TypeOK, Holding, Configs, Pcs, AllRoles,
      front
<1>8. CASE SaveFails
  BY <1>8 DEF SaveFails, Goto, TypeOK, Holding, Configs, Pcs, AllRoles, front
<1>9. CASE SaveReturns
  BY <1>9, HeadTail
  DEF SaveReturns, Done, TypeOK, Holding, Configs, Pcs, AllRoles, front, QueueFresh
<1>10. CASE SaveRejects
  BY <1>10, HeadTail
  DEF SaveRejects, Done, TypeOK, Holding, Configs, Pcs, AllRoles, front, QueueFresh
<1>11. CASE LoadReturns
  BY <1>11 DEF LoadReturns, Done, TypeOK, Holding, Configs, Pcs, AllRoles, front
<1>12. CASE LoadFails
  BY <1>12 DEF LoadFails, Done, TypeOK, Holding, Configs, Pcs, AllRoles, front
<1>13. CASE Poll
  BY <1>13 DEF Poll, Goto, Done, TypeOK, Holding, Configs, Pcs, AllRoles, front
<1>14. CASE StartCalled
  BY <1>14 DEF StartCalled, Goto, TypeOK, Holding, Configs, Pcs, AllRoles, front
<1>15. CASE StartBegin
  BY <1>15 DEF StartBegin, Goto, TypeOK, Holding, Configs, Pcs, AllRoles, front
<1>16. CASE StartSaves
  BY <1>16
  DEF StartSaves, Write, Goto, TypeOK, Holding, Configs, Pcs, AllRoles, front
<1>17. CASE StartEnds
  BY <1>17 DEF StartEnds, Done, TypeOK, Holding, Configs, Pcs, AllRoles, front
<1>18. ASSUME NEW b \in Builds, SelectBegin(b)
      PROVE  TypeOK'
  BY <1>18
  DEF SelectBegin, RuntimeBegin, Goto, TypeOK, Holding, Configs, Pcs, AllRoles,
      front
<1>19. ASSUME NEW b \in Builds, UninstallBegin(b)
      PROVE  TypeOK'
  BY <1>19
  DEF UninstallBegin, RuntimeBegin, Goto, TypeOK, Holding, Configs, Pcs, AllRoles,
      front
<1>20. CASE RuntimeLocks("select")
  BY <1>20 DEF RuntimeLocks, Goto, TypeOK, Holding, Configs, Pcs, AllRoles, front
<1>21. CASE RuntimeLocks("uninstall")
  BY <1>21 DEF RuntimeLocks, Goto, TypeOK, Holding, Configs, Pcs, AllRoles, front
<1>22. CASE SelectSaves
  BY <1>22
  DEF SelectSaves, WriteBack, Write, TypeOK, Holding, Configs, Pcs, AllRoles, front
<1>23. CASE SelectFails
  BY <1>23 DEF SelectFails, Done, TypeOK, Holding, Configs, Pcs, AllRoles, front
<1>24. CASE UninstallRefused
  BY <1>24
  DEF UninstallRefused, Done, TypeOK, Holding, Configs, Pcs, AllRoles, front
<1>25. CASE UninstallAllowed
  BY <1>25
  DEF UninstallAllowed, Goto, TypeOK, Holding, Configs, Pcs, AllRoles, front
<1>26. CASE UninstallRemoves
  BY <1>26
  DEF UninstallRemoves, Done, TypeOK, Holding, Configs, Pcs, AllRoles, front
<1>27. CASE CliBegin
  BY <1>27 DEF CliBegin, Goto, TypeOK, Holding, Configs, Pcs, AllRoles, front
<1>28. CASE CliSaves
  BY <1>28
  DEF CliSaves, WriteBack, Write, AddEdit, Done, TypeOK, Holding, Configs, Pcs,
      AllRoles, front
<1>29. CASE UNCHANGED vars
  BY <1>29 DEF vars, TypeOK, Holding, Configs, Pcs, AllRoles, front
<1> QED
  BY <1>1, <1>2, <1>3, <1>4, <1>5, <1>6, <1>7, <1>8, <1>9, <1>10, <1>11, <1>12,
     <1>13, <1>14, <1>15, <1>16, <1>17, <1>18, <1>19, <1>20, <1>21, <1>22, <1>23,
     <1>24, <1>25, <1>26, <1>27, <1>28, <1>29
  DEF Next, SaveStep, LoadStep, StartStep, RuntimeStep

\* Who holds what.
LEMMA HoldingStep ==
  ASSUME TypeOK /\ Holding, [Next]_vars
  PROVE  Holding'
<1>1. ASSUME NEW r \in AllRoles, Read(r)
      PROVE  Holding'
  BY <1>1 DEF Read, Reader, Goto, TypeOK, Holding, Configs, AllRoles, front
<1>2. ASSUME NEW r \in AllRoles, Migrate(r)
      PROVE  Holding'
  BY <1>2
  DEF Migrate, WriteBack, Write, Goto, TypeOK, Holding, Configs, AllRoles, front
<1>3. ASSUME NEW e \in Edits, Submit(e)
      PROVE  Holding'
  BY <1>3, Appended DEF Submit, TypeOK, Holding, Configs, AllRoles, front
<1>4. CASE QueueTakes
  <2>1. view \in Configs /\ Head(queue) \in Edits /\ queue # <<>>
    BY <1>4, HeadTail DEF QueueTakes, TypeOK
  <2>2. AddEdit(view, Head(queue)) \in Configs
    BY <2>1 DEF AddEdit, Configs
  <2> QED
    BY <1>4, <2>1, <2>2 DEF QueueTakes, Goto, TypeOK, Holding, AllRoles, front
<1>5. CASE QueueTooEarly
  BY <1>5, HeadTail DEF QueueTooEarly, TypeOK, Holding, Configs, AllRoles, front
<1>6. CASE SaveChecks
  BY <1>6 DEF SaveChecks, Goto, TypeOK, Holding, Configs, AllRoles, front
<1>7. CASE SaveCommits
  BY <1>7
  DEF SaveCommits, Overlap, Write, Goto, TypeOK, Holding, Configs, AllRoles, front
<1>8. CASE SaveFails
  BY <1>8 DEF SaveFails, Goto, TypeOK, Holding, Configs, AllRoles, front
<1>9. CASE SaveReturns
  BY <1>9, HeadTail DEF SaveReturns, Done, TypeOK, Holding, Configs, AllRoles, front
<1>10. CASE SaveRejects
  BY <1>10, HeadTail
  DEF SaveRejects, Done, TypeOK, Holding, Configs, AllRoles, front
<1>11. CASE LoadReturns
  BY <1>11 DEF LoadReturns, Done, TypeOK, Holding, Configs, AllRoles, front
<1>12. CASE LoadFails
  BY <1>12 DEF LoadFails, Done, TypeOK, Holding, Configs, AllRoles, front
<1>13. CASE Poll
  BY <1>13 DEF Poll, Goto, Done, TypeOK, Holding, Configs, AllRoles, front
<1>14. CASE StartCalled
  BY <1>14 DEF StartCalled, Goto, TypeOK, Holding, Configs, AllRoles, front
<1>15. CASE StartBegin
  BY <1>15 DEF StartBegin, Goto, TypeOK, Holding, Configs, AllRoles, front
<1>16. CASE StartSaves
  BY <1>16 DEF StartSaves, Write, Goto, TypeOK, Holding, Configs, AllRoles, front
<1>17. CASE StartEnds
  BY <1>17 DEF StartEnds, Done, TypeOK, Holding, Configs, AllRoles, front
<1>18. ASSUME NEW b \in Builds, SelectBegin(b)
      PROVE  Holding'
  BY <1>18
  DEF SelectBegin, RuntimeBegin, Goto, TypeOK, Holding, Configs, AllRoles, front
<1>19. ASSUME NEW b \in Builds, UninstallBegin(b)
      PROVE  Holding'
  BY <1>19
  DEF UninstallBegin, RuntimeBegin, Goto, TypeOK, Holding, Configs, AllRoles, front
<1>20. CASE RuntimeLocks("select")
  BY <1>20 DEF RuntimeLocks, Goto, TypeOK, Holding, Configs, AllRoles, front
<1>21. CASE RuntimeLocks("uninstall")
  BY <1>21 DEF RuntimeLocks, Goto, TypeOK, Holding, Configs, AllRoles, front
<1>22. CASE SelectSaves
  BY <1>22
  DEF SelectSaves, WriteBack, Write, TypeOK, Holding, Configs, AllRoles, front
<1>23. CASE SelectFails
  BY <1>23 DEF SelectFails, Done, TypeOK, Holding, Configs, AllRoles, front
<1>24. CASE UninstallRefused
  BY <1>24 DEF UninstallRefused, Done, TypeOK, Holding, Configs, AllRoles, front
<1>25. CASE UninstallAllowed
  BY <1>25 DEF UninstallAllowed, Goto, TypeOK, Holding, Configs, AllRoles, front
<1>26. CASE UninstallRemoves
  BY <1>26 DEF UninstallRemoves, Done, TypeOK, Holding, Configs, AllRoles, front
<1>27. CASE CliBegin
  BY <1>27 DEF CliBegin, Goto, TypeOK, Holding, Configs, AllRoles, front
<1>28. CASE CliSaves
  BY <1>28
  DEF CliSaves, WriteBack, Write, AddEdit, Done, TypeOK, Holding, Configs, AllRoles,
      front
<1>29. CASE UNCHANGED vars
  BY <1>29 DEF vars, TypeOK, Holding, Configs, AllRoles, front
<1> QED
  BY <1>1, <1>2, <1>3, <1>4, <1>5, <1>6, <1>7, <1>8, <1>9, <1>10, <1>11, <1>12,
     <1>13, <1>14, <1>15, <1>16, <1>17, <1>18, <1>19, <1>20, <1>21, <1>22, <1>23,
     <1>24, <1>25, <1>26, <1>27, <1>28, <1>29
  DEF Next, SaveStep, LoadStep, StartStep, RuntimeStep

\* The queue.
LEMMA QueueStep ==
  ASSUME TypeOK /\ Holding /\ QueueFresh, [Next]_vars
  PROVE  QueueFresh'
<1>1. ASSUME NEW r \in AllRoles, Read(r)
      PROVE  QueueFresh'
  BY <1>1 DEF Read, Reader, Goto, TypeOK, QueueFresh, front
<1>2. ASSUME NEW r \in AllRoles, Migrate(r)
      PROVE  QueueFresh'
  BY <1>2 DEF Migrate, WriteBack, Write, Goto, TypeOK, QueueFresh, front
<1>3. ASSUME NEW e \in Edits, Submit(e)
      PROVE  QueueFresh'
  BY <1>3, Appended DEF Submit, TypeOK, QueueFresh, front
<1>4. CASE QueueTakes
  BY <1>4, HeadTail DEF QueueTakes, AddEdit, Goto, TypeOK, QueueFresh, front
<1>5. CASE QueueTooEarly
  BY <1>5, HeadTail DEF QueueTooEarly, TypeOK, QueueFresh, front
<1>6. CASE SaveChecks
  BY <1>6 DEF SaveChecks, Goto, TypeOK, QueueFresh, front
<1>7. CASE SaveCommits
  BY <1>7 DEF SaveCommits, Overlap, Write, Goto, TypeOK, QueueFresh, front
<1>8. CASE SaveFails
  BY <1>8 DEF SaveFails, Goto, TypeOK, QueueFresh, front
<1>9. CASE SaveReturns
  BY <1>9, HeadTail DEF SaveReturns, Done, TypeOK, QueueFresh, front
<1>10. CASE SaveRejects
  BY <1>10, HeadTail DEF SaveRejects, Done, TypeOK, QueueFresh, front
<1>11. CASE LoadReturns
  BY <1>11 DEF LoadReturns, Done, TypeOK, QueueFresh, front
<1>12. CASE LoadFails
  BY <1>12 DEF LoadFails, Done, TypeOK, QueueFresh, front
<1>13. CASE Poll
  BY <1>13 DEF Poll, Goto, Done, TypeOK, QueueFresh, front
<1>14. CASE StartCalled
  BY <1>14 DEF StartCalled, Goto, TypeOK, QueueFresh, front
<1>15. CASE StartBegin
  BY <1>15 DEF StartBegin, Goto, TypeOK, QueueFresh, front
<1>16. CASE StartSaves
  BY <1>16 DEF StartSaves, Write, Goto, TypeOK, QueueFresh, front
<1>17. CASE StartEnds
  BY <1>17 DEF StartEnds, Done, TypeOK, QueueFresh, front
<1>18. ASSUME NEW b \in Builds, SelectBegin(b)
      PROVE  QueueFresh'
  BY <1>18 DEF SelectBegin, RuntimeBegin, Goto, TypeOK, QueueFresh, front
<1>19. ASSUME NEW b \in Builds, UninstallBegin(b)
      PROVE  QueueFresh'
  BY <1>19 DEF UninstallBegin, RuntimeBegin, Goto, TypeOK, QueueFresh, front
<1>20. CASE RuntimeLocks("select")
  BY <1>20 DEF RuntimeLocks, Goto, TypeOK, QueueFresh, front
<1>21. CASE RuntimeLocks("uninstall")
  BY <1>21 DEF RuntimeLocks, Goto, TypeOK, QueueFresh, front
<1>22. CASE SelectSaves
  BY <1>22 DEF SelectSaves, WriteBack, Write, TypeOK, QueueFresh, front
<1>23. CASE SelectFails
  BY <1>23 DEF SelectFails, Done, TypeOK, QueueFresh, front
<1>24. CASE UninstallRefused
  BY <1>24 DEF UninstallRefused, Done, TypeOK, QueueFresh, front
<1>25. CASE UninstallAllowed
  BY <1>25 DEF UninstallAllowed, Goto, TypeOK, QueueFresh, front
<1>26. CASE UninstallRemoves
  BY <1>26 DEF UninstallRemoves, Done, TypeOK, QueueFresh, front
<1>27. CASE CliBegin
  BY <1>27 DEF CliBegin, Goto, TypeOK, QueueFresh, front
<1>28. CASE CliSaves
  BY <1>28 DEF CliSaves, WriteBack, Write, AddEdit, Done, TypeOK, QueueFresh, front
<1>29. CASE UNCHANGED vars
  BY <1>29 DEF vars, TypeOK, QueueFresh, front
<1> QED
  BY <1>1, <1>2, <1>3, <1>4, <1>5, <1>6, <1>7, <1>8, <1>9, <1>10, <1>11, <1>12,
     <1>13, <1>14, <1>15, <1>16, <1>17, <1>18, <1>19, <1>20, <1>21, <1>22, <1>23,
     <1>24, <1>25, <1>26, <1>27, <1>28, <1>29
  DEF Next, SaveStep, LoadStep, StartStep, RuntimeStep

\* What nobody stale has touched.
LEMMA FreshStep ==
  ASSUME TypeOK /\ Holding /\ QueueFresh /\ (~raced => Fresh), [Next]_vars
  PROVE  (~raced => Fresh)'
<1>1. ASSUME NEW r \in AllRoles, Read(r)
      PROVE  (~raced => Fresh)'
  BY <1>1, EditsAssumption
  DEF Read, Reader, Goto, TypeOK, Holding, Configs, AllRoles, Fresh, FileGood,
      ViewGood, SaveGood, LoadGood, StartGood, Within, Pending, Committed, front
<1>2. ASSUME NEW r \in AllRoles, Migrate(r)
      PROVE  (~raced => Fresh)'
  BY <1>2, EditsAssumption
  DEF Migrate, WriteBack, Write, Goto, TypeOK, Holding, Configs, AllRoles, Fresh,
      FileGood, ViewGood, SaveGood, LoadGood, StartGood, Within, Pending, Committed,
      front
<1>3. ASSUME NEW e \in Edits, Submit(e)
      PROVE  (~raced => Fresh)'
  BY <1>3, Appended, EditsAssumption
  DEF Submit, TypeOK, Holding, Configs, AllRoles, Fresh, FileGood, ViewGood,
      SaveGood, LoadGood, StartGood, Within, Pending, Committed, front
<1>4. CASE QueueTakes
  BY <1>4, HeadTail, EditsAssumption
  DEF QueueTakes, AddEdit, Goto, TypeOK, Holding, Configs, AllRoles, Fresh,
      FileGood, ViewGood, SaveGood, LoadGood, StartGood, Within, Pending, Committed,
      front
<1>5. CASE QueueTooEarly
  BY <1>5, HeadTail, EditsAssumption
  DEF QueueTooEarly, TypeOK, Holding, Configs, AllRoles, Fresh, FileGood, ViewGood,
      SaveGood, LoadGood, StartGood, Within, Pending, Committed, front
<1>6. CASE SaveChecks
  BY <1>6, EditsAssumption
  DEF SaveChecks, Goto, TypeOK, Holding, Configs, AllRoles, Fresh, FileGood,
      ViewGood, SaveGood, LoadGood, StartGood, Within, Pending, Committed, front
<1>7. CASE SaveCommits
  BY <1>7, EditsAssumption
  DEF SaveCommits, Overlap, Write, Goto, TypeOK, Holding, Configs, AllRoles, Fresh,
      FileGood, ViewGood, SaveGood, LoadGood, StartGood, Within, Pending, Committed,
      front
<1>8. CASE SaveFails
  BY <1>8, EditsAssumption
  DEF SaveFails, Goto, TypeOK, Holding, Configs, AllRoles, Fresh, FileGood,
      ViewGood, SaveGood, LoadGood, StartGood, Within, Pending, Committed, front
<1>9. CASE SaveReturns
  BY <1>9, HeadTail, EditsAssumption
  DEF SaveReturns, Done, TypeOK, Holding, Configs, AllRoles, Fresh, FileGood,
      ViewGood, SaveGood, LoadGood, StartGood, Within, Pending, Committed, front
<1>10. CASE SaveRejects
  BY <1>10, HeadTail, EditsAssumption
  DEF SaveRejects, Done, TypeOK, Holding, Configs, AllRoles, Fresh, FileGood,
      ViewGood, SaveGood, LoadGood, StartGood, Within, Pending, Committed, front
<1>11. CASE LoadReturns
  BY <1>11, EditsAssumption
  DEF LoadReturns, Done, TypeOK, Holding, Configs, AllRoles, Fresh, FileGood,
      ViewGood, SaveGood, LoadGood, StartGood, Within, Pending, Committed, front
<1>12. CASE LoadFails
  BY <1>12, EditsAssumption
  DEF LoadFails, Done, TypeOK, Holding, Configs, AllRoles, Fresh, FileGood,
      ViewGood, SaveGood, LoadGood, StartGood, Within, Pending, Committed, front
<1>13. CASE Poll
  BY <1>13, EditsAssumption
  DEF Poll, Goto, Done, TypeOK, Holding, Configs, AllRoles, Fresh, FileGood,
      ViewGood, SaveGood, LoadGood, StartGood, Within, Pending, Committed, front
<1>14. CASE StartCalled
  BY <1>14, EditsAssumption
  DEF StartCalled, Goto, TypeOK, Holding, Configs, AllRoles, Fresh, FileGood,
      ViewGood, SaveGood, LoadGood, StartGood, Within, Pending, Committed, front
<1>15. CASE StartBegin
  BY <1>15, EditsAssumption
  DEF StartBegin, Goto, TypeOK, Holding, Configs, AllRoles, Fresh, FileGood,
      ViewGood, SaveGood, LoadGood, StartGood, Within, Pending, Committed, front
<1>16. CASE StartSaves
  BY <1>16, EditsAssumption
  DEF StartSaves, Write, Goto, TypeOK, Holding, Configs, AllRoles, Fresh, FileGood,
      ViewGood, SaveGood, LoadGood, StartGood, Within, Pending, Committed, front
<1>17. CASE StartEnds
  BY <1>17, EditsAssumption
  DEF StartEnds, Done, TypeOK, Holding, Configs, AllRoles, Fresh, FileGood,
      ViewGood, SaveGood, LoadGood, StartGood, Within, Pending, Committed, front
<1>18. ASSUME NEW b \in Builds, SelectBegin(b)
      PROVE  (~raced => Fresh)'
  BY <1>18, EditsAssumption
  DEF SelectBegin, RuntimeBegin, Goto, TypeOK, Holding, Configs, AllRoles, Fresh,
      FileGood, ViewGood, SaveGood, LoadGood, StartGood, Within, Pending, Committed,
      front
<1>19. ASSUME NEW b \in Builds, UninstallBegin(b)
      PROVE  (~raced => Fresh)'
  BY <1>19, EditsAssumption
  DEF UninstallBegin, RuntimeBegin, Goto, TypeOK, Holding, Configs, AllRoles, Fresh,
      FileGood, ViewGood, SaveGood, LoadGood, StartGood, Within, Pending, Committed,
      front
<1>20. CASE RuntimeLocks("select")
  BY <1>20, EditsAssumption
  DEF RuntimeLocks, Goto, TypeOK, Holding, Configs, AllRoles, Fresh, FileGood,
      ViewGood, SaveGood, LoadGood, StartGood, Within, Pending, Committed, front
<1>21. CASE RuntimeLocks("uninstall")
  BY <1>21, EditsAssumption
  DEF RuntimeLocks, Goto, TypeOK, Holding, Configs, AllRoles, Fresh, FileGood,
      ViewGood, SaveGood, LoadGood, StartGood, Within, Pending, Committed, front
<1>22. CASE SelectSaves
  BY <1>22, EditsAssumption
  DEF SelectSaves, WriteBack, Write, TypeOK, Holding, Configs, AllRoles, Fresh,
      FileGood, ViewGood, SaveGood, LoadGood, StartGood, Within, Pending, Committed,
      front
<1>23. CASE SelectFails
  BY <1>23, EditsAssumption
  DEF SelectFails, Done, TypeOK, Holding, Configs, AllRoles, Fresh, FileGood,
      ViewGood, SaveGood, LoadGood, StartGood, Within, Pending, Committed, front
<1>24. CASE UninstallRefused
  BY <1>24, EditsAssumption
  DEF UninstallRefused, Done, TypeOK, Holding, Configs, AllRoles, Fresh, FileGood,
      ViewGood, SaveGood, LoadGood, StartGood, Within, Pending, Committed, front
<1>25. CASE UninstallAllowed
  BY <1>25, EditsAssumption
  DEF UninstallAllowed, Goto, TypeOK, Holding, Configs, AllRoles, Fresh, FileGood,
      ViewGood, SaveGood, LoadGood, StartGood, Within, Pending, Committed, front
<1>26. CASE UninstallRemoves
  BY <1>26, EditsAssumption
  DEF UninstallRemoves, Done, TypeOK, Holding, Configs, AllRoles, Fresh, FileGood,
      ViewGood, SaveGood, LoadGood, StartGood, Within, Pending, Committed, front
<1>27. CASE CliBegin
  BY <1>27, EditsAssumption
  DEF CliBegin, Goto, TypeOK, Holding, Configs, AllRoles, Fresh, FileGood, ViewGood,
      SaveGood, LoadGood, StartGood, Within, Pending, Committed, front
<1>28. CASE CliSaves
  BY <1>28, EditsAssumption
  DEF CliSaves, WriteBack, Write, AddEdit, Done, TypeOK, Holding, Configs, AllRoles,
      Fresh, FileGood, ViewGood, SaveGood, LoadGood, StartGood, Within, Pending,
      Committed, front
<1>29. CASE UNCHANGED vars
  BY <1>29
  DEF vars, TypeOK, Holding, Configs, AllRoles, Fresh, FileGood, ViewGood, SaveGood,
      LoadGood, StartGood, Within, Pending, Committed, front
<1> QED
  BY <1>1, <1>2, <1>3, <1>4, <1>5, <1>6, <1>7, <1>8, <1>9, <1>10, <1>11, <1>12,
     <1>13, <1>14, <1>15, <1>16, <1>17, <1>18, <1>19, <1>20, <1>21, <1>22, <1>23,
     <1>24, <1>25, <1>26, <1>27, <1>28, <1>29
  DEF Next, SaveStep, LoadStep, StartStep, RuntimeStep

-------------------------------------------------------------------------------
(* The theorems *)

\* The inductive invariant holds in every reachable state, for any edits and runtimes
\* and whoever takes part.
THEOREM Invariance == Spec => []IInv
<1>1. Init => IInv
  <2> SUFFICES ASSUME Init PROVE IInv
    OBVIOUS
  <2>1. TypeOK
    <3>1. file \in Configs /\ target \in Builds
      BY DEF Init, Configs
    <3>2. old \in BOOLEAN /\ raced \in BOOLEAN
      BY OldFileAssumption DEF Init
    <3>3. pc \in [AllRoles -> Pcs] /\ hand \in [AllRoles -> Configs \cup {NoConfig}]
      BY DEF Init, Pcs
    <3>4. queue \in Seq(Edits)
      BY DEF Init
    <3> QED
      BY <3>1, <3>2, <3>3, <3>4 DEF Init, TypeOK, Free
  <2>2. Holding
    BY DEF Init, Holding, AllRoles
  <2>3. QueueFresh
    BY DEF Init, QueueFresh
  <2>4. Fresh
    BY DEF Init, Fresh, FileGood, ViewGood, SaveGood, LoadGood, StartGood, Within,
           Pending, Committed, AllRoles
  <2> QED
    BY <2>1, <2>2, <2>3, <2>4 DEF IInv
<1>2. IInv /\ [Next]_vars => IInv'
  BY TypeStep, HoldingStep, QueueStep, FreshStep DEF IInv
<1> QED
  BY <1>1, <1>2, PTL DEF Spec

\* Every variable of ConfigStore stays in its domain.
THEOREM TypeCorrect == Spec => []TypeOK
<1>1. IInv => TypeOK
  BY DEF IInv
<1> QED
  BY <1>1, Invariance, PTL

\* As long as nobody writes or publishes what is stale, no edit that was reported as
\* saved is lost.
THEOREM SavedEditsSurvive == Spec => []EditsSurvive
<1>1. IInv => EditsSurvive
  BY DEF IInv, EditsSurvive, Fresh, FileGood, Within
<1> QED
  BY <1>1, Invariance, PTL

\* ... and none that was reported as failed gets into the file.
THEOREM FailedEditsStayOut == Spec => []FailedStaysOut
<1>1. IInv => FailedStaysOut
  <2> SUFFICES ASSUME IInv, ~raced, NEW e \in failed, e \in file.edits PROVE FALSE
    BY DEF FailedStaysOut
  <2>1. e \in Edits /\ e \notin accepted /\ e # CliEdit
    BY EditsAssumption DEF IInv, TypeOK
  <2>2. e \in Committed
    BY <2>1 DEF IInv, Fresh, FileGood, Within
  <2>3. pc["save"] = "saved" /\ queue # <<>> /\ e = Head(queue)
    BY <2>2 DEF Committed, IInv, Holding
  <2>4. e \notin failed
    BY <2>3, HeadTail DEF IInv, TypeOK, QueueFresh
  <2> QED
    BY <2>4
<1> QED
  BY <1>1, Invariance, PTL

-------------------------------------------------------------------------------
(* rt_select against the other holders of config_write *)

\* Nobody of the desktop program writes without config_write.
DesktopOnly == Roles \cap {"poll", "cli"} = {} /\ OldFile = FALSE

\* Nobody writes between rt_select's read and its save.
WritesSerialised == pc["select"] \in {"migrating", "read"} => hand["select"] = file

Serial ==
  /\ old = FALSE
  /\ pc["poll"] = "idle" /\ pc["cli"] = "idle"
  /\ \A r \in AllRoles : pc[r] # "migrating"
  /\ \A r \in {"select", "uninstall"} : pc[r] \in {"reading", "read"} <=> config_write = r
  /\ WritesSerialised

\* While rt_select has read the file and not saved it, nobody else writes it.
LEMMA SerialStep ==
  ASSUME DesktopOnly, TypeOK /\ Holding, Serial, [Next]_vars
  PROVE  Serial'
<1>1. ASSUME NEW r \in AllRoles, Read(r)
      PROVE  Serial'
  BY <1>1
  DEF Read, Reader, Goto, TypeOK, Holding, Serial, WritesSerialised, AllRoles,
      DesktopOnly, Free, front
<1>2. ASSUME NEW r \in AllRoles, Migrate(r)
      PROVE  Serial'
  BY <1>2
  DEF Migrate, WriteBack, Write, Goto, TypeOK, Holding, Serial, WritesSerialised,
      AllRoles, DesktopOnly, Free, front
<1>3. ASSUME NEW e \in Edits, Submit(e)
      PROVE  Serial'
  BY <1>3
  DEF Submit, TypeOK, Holding, Serial, WritesSerialised, AllRoles, DesktopOnly,
      Free, front
<1>4. CASE QueueTakes
  BY <1>4
  DEF QueueTakes, AddEdit, Goto, TypeOK, Holding, Serial, WritesSerialised,
      AllRoles, DesktopOnly, Free, front
<1>5. CASE QueueTooEarly
  BY <1>5
  DEF QueueTooEarly, TypeOK, Holding, Serial, WritesSerialised, AllRoles,
      DesktopOnly, Free, front
<1>6. CASE SaveChecks
  BY <1>6
  DEF SaveChecks, Goto, TypeOK, Holding, Serial, WritesSerialised, AllRoles,
      DesktopOnly, Free, front
<1>7. CASE SaveCommits
  BY <1>7
  DEF SaveCommits, Overlap, Write, Goto, TypeOK, Holding, Serial, WritesSerialised,
      AllRoles, DesktopOnly, Free, front
<1>8. CASE SaveFails
  BY <1>8
  DEF SaveFails, Goto, TypeOK, Holding, Serial, WritesSerialised, AllRoles,
      DesktopOnly, Free, front
<1>9. CASE SaveReturns
  BY <1>9
  DEF SaveReturns, Done, TypeOK, Holding, Serial, WritesSerialised, AllRoles,
      DesktopOnly, Free, front
<1>10. CASE SaveRejects
  BY <1>10
  DEF SaveRejects, Done, TypeOK, Holding, Serial, WritesSerialised, AllRoles,
      DesktopOnly, Free, front
<1>11. CASE LoadReturns
  BY <1>11
  DEF LoadReturns, Done, TypeOK, Holding, Serial, WritesSerialised, AllRoles,
      DesktopOnly, Free, front
<1>12. CASE LoadFails
  BY <1>12
  DEF LoadFails, Done, TypeOK, Holding, Serial, WritesSerialised, AllRoles,
      DesktopOnly, Free, front
<1>13. CASE Poll
  BY <1>13
  DEF Poll, Goto, Done, TypeOK, Holding, Serial, WritesSerialised, AllRoles,
      DesktopOnly, Free, front
<1>14. CASE StartCalled
  BY <1>14
  DEF StartCalled, Goto, TypeOK, Holding, Serial, WritesSerialised, AllRoles,
      DesktopOnly, Free, front
<1>15. CASE StartBegin
  BY <1>15
  DEF StartBegin, Goto, TypeOK, Holding, Serial, WritesSerialised, AllRoles,
      DesktopOnly, Free, front
<1>16. CASE StartSaves
  BY <1>16
  DEF StartSaves, Write, Goto, TypeOK, Holding, Serial, WritesSerialised, AllRoles,
      DesktopOnly, Free, front
<1>17. CASE StartEnds
  BY <1>17
  DEF StartEnds, Done, TypeOK, Holding, Serial, WritesSerialised, AllRoles,
      DesktopOnly, Free, front
<1>18. ASSUME NEW b \in Builds, SelectBegin(b)
      PROVE  Serial'
  BY <1>18
  DEF SelectBegin, RuntimeBegin, Goto, TypeOK, Holding, Serial, WritesSerialised,
      AllRoles, DesktopOnly, Free, front
<1>19. ASSUME NEW b \in Builds, UninstallBegin(b)
      PROVE  Serial'
  BY <1>19
  DEF UninstallBegin, RuntimeBegin, Goto, TypeOK, Holding, Serial, WritesSerialised,
      AllRoles, DesktopOnly, Free, front
<1>20. CASE RuntimeLocks("select")
  BY <1>20
  DEF RuntimeLocks, Goto, TypeOK, Holding, Serial, WritesSerialised, AllRoles,
      DesktopOnly, Free, front
<1>21. CASE RuntimeLocks("uninstall")
  BY <1>21
  DEF RuntimeLocks, Goto, TypeOK, Holding, Serial, WritesSerialised, AllRoles,
      DesktopOnly, Free, front
<1>22. CASE SelectSaves
  BY <1>22
  DEF SelectSaves, WriteBack, Write, TypeOK, Holding, Serial, WritesSerialised,
      AllRoles, DesktopOnly, Free, front
<1>23. CASE SelectFails
  BY <1>23
  DEF SelectFails, Done, TypeOK, Holding, Serial, WritesSerialised, AllRoles,
      DesktopOnly, Free, front
<1>24. CASE UninstallRefused
  BY <1>24
  DEF UninstallRefused, Done, TypeOK, Holding, Serial, WritesSerialised, AllRoles,
      DesktopOnly, Free, front
<1>25. CASE UninstallAllowed
  BY <1>25
  DEF UninstallAllowed, Goto, TypeOK, Holding, Serial, WritesSerialised, AllRoles,
      DesktopOnly, Free, front
<1>26. CASE UninstallRemoves
  BY <1>26
  DEF UninstallRemoves, Done, TypeOK, Holding, Serial, WritesSerialised, AllRoles,
      DesktopOnly, Free, front
<1>27. CASE CliBegin
  BY <1>27
  DEF CliBegin, Goto, TypeOK, Holding, Serial, WritesSerialised, AllRoles,
      DesktopOnly, Free, front
<1>28. CASE CliSaves
  BY <1>28
  DEF CliSaves, WriteBack, Write, AddEdit, Done, TypeOK, Holding, Serial,
      WritesSerialised, AllRoles, DesktopOnly, Free, front
<1>29. CASE UNCHANGED vars
  BY <1>29
  DEF vars, TypeOK, Holding, Serial, WritesSerialised, AllRoles, DesktopOnly, Free,
      front
<1> QED
  BY <1>1, <1>2, <1>3, <1>4, <1>5, <1>6, <1>7, <1>8, <1>9, <1>10, <1>11, <1>12,
     <1>13, <1>14, <1>15, <1>16, <1>17, <1>18, <1>19, <1>20, <1>21, <1>22, <1>23,
     <1>24, <1>25, <1>26, <1>27, <1>28, <1>29
  DEF Next, SaveStep, LoadStep, StartStep, RuntimeStep

\* Only rt_select's own steps end it, and of these only its save writes.
LEMMA SelectStep ==
  ASSUME TypeOK, Serial, [Next]_vars
  PROVE  SelectIsolatedStep
<1> SUFFICES ASSUME pc["select"] = "read", pc'["select"] = "idle", file' # file
             PROVE  file'.edits = file.edits
  BY DEF SelectIsolatedStep
<1>1. CASE SelectSaves
  BY <1>1
  DEF SelectSaves, WriteBack, Write, Serial, WritesSerialised, TypeOK, Configs
<1>2. ASSUME NEW r \in AllRoles, Read(r)
      PROVE  FALSE
  BY <1>2 DEF Read, Reader, Goto, TypeOK, AllRoles, front
<1>3. ASSUME NEW r \in AllRoles, Migrate(r)
      PROVE  FALSE
  BY <1>3 DEF Migrate, WriteBack, Write, Goto, TypeOK, AllRoles, front
<1>4. ASSUME NEW e \in Edits, Submit(e)
      PROVE  FALSE
  BY <1>4 DEF Submit, TypeOK, AllRoles, front
<1>5. CASE QueueTakes
  BY <1>5 DEF QueueTakes, AddEdit, Goto, TypeOK, AllRoles, front
<1>6. CASE QueueTooEarly
  BY <1>6 DEF QueueTooEarly, TypeOK, AllRoles, front
<1>7. CASE SaveChecks
  BY <1>7 DEF SaveChecks, Goto, TypeOK, AllRoles, front
<1>8. CASE SaveCommits
  BY <1>8 DEF SaveCommits, Overlap, Write, Goto, TypeOK, AllRoles, front
<1>9. CASE SaveFails
  BY <1>9 DEF SaveFails, Goto, TypeOK, AllRoles, front
<1>10. CASE SaveReturns
  BY <1>10 DEF SaveReturns, Done, TypeOK, AllRoles, front
<1>11. CASE SaveRejects
  BY <1>11 DEF SaveRejects, Done, TypeOK, AllRoles, front
<1>12. CASE LoadReturns
  BY <1>12 DEF LoadReturns, Done, TypeOK, AllRoles, front
<1>13. CASE LoadFails
  BY <1>13 DEF LoadFails, Done, TypeOK, AllRoles, front
<1>14. CASE Poll
  BY <1>14 DEF Poll, Goto, Done, TypeOK, AllRoles, front
<1>15. CASE StartCalled
  BY <1>15 DEF StartCalled, Goto, TypeOK, AllRoles, front
<1>16. CASE StartBegin
  BY <1>16 DEF StartBegin, Goto, TypeOK, AllRoles, front
<1>17. CASE StartSaves
  BY <1>17 DEF StartSaves, Write, Goto, TypeOK, AllRoles, front
<1>18. CASE StartEnds
  BY <1>18 DEF StartEnds, Done, TypeOK, AllRoles, front
<1>19. ASSUME NEW b \in Builds, SelectBegin(b)
      PROVE  FALSE
  BY <1>19 DEF SelectBegin, RuntimeBegin, Goto, TypeOK, AllRoles, front
<1>20. ASSUME NEW b \in Builds, UninstallBegin(b)
      PROVE  FALSE
  BY <1>20 DEF UninstallBegin, RuntimeBegin, Goto, TypeOK, AllRoles, front
<1>21. CASE RuntimeLocks("select")
  BY <1>21 DEF RuntimeLocks, Goto, TypeOK, AllRoles, front
<1>22. CASE RuntimeLocks("uninstall")
  BY <1>22 DEF RuntimeLocks, Goto, TypeOK, AllRoles, front
<1>23. CASE SelectFails
  BY <1>23 DEF SelectFails, Done, TypeOK, AllRoles, front
<1>24. CASE UninstallRefused
  BY <1>24 DEF UninstallRefused, Done, TypeOK, AllRoles, front
<1>25. CASE UninstallAllowed
  BY <1>25 DEF UninstallAllowed, Goto, TypeOK, AllRoles, front
<1>26. CASE UninstallRemoves
  BY <1>26 DEF UninstallRemoves, Done, TypeOK, AllRoles, front
<1>27. CASE CliBegin
  BY <1>27 DEF CliBegin, Goto, TypeOK, AllRoles, front
<1>28. CASE CliSaves
  BY <1>28 DEF CliSaves, WriteBack, Write, AddEdit, Done, TypeOK, AllRoles, front
<1>29. CASE UNCHANGED vars
  BY <1>29 DEF vars
<1> QED
  BY <1>1, <1>2, <1>3, <1>4, <1>5, <1>6, <1>7, <1>8, <1>9, <1>10, <1>11, <1>12,
     <1>13, <1>14, <1>15, <1>16, <1>17, <1>18, <1>19, <1>20, <1>21, <1>22, <1>23,
     <1>24, <1>25, <1>26, <1>27, <1>28, <1>29
  DEF Next, SaveStep, LoadStep, StartStep, RuntimeStep

\* Without the command line and with a file of the current schema, selecting a runtime
\* undoes no edit that was saved meanwhile.
THEOREM SelectIsolation ==
  ASSUME DesktopOnly
  PROVE  Spec => SelectIsolated
<1>1. Init => Serial
  BY DEF Init, Serial, WritesSerialised, DesktopOnly, AllRoles, Free
<1>2. IInv /\ Serial /\ [Next]_vars => Serial'
  BY SerialStep DEF IInv
<1>3. IInv /\ Serial /\ [Next]_vars => [SelectIsolatedStep]_vars
  BY SelectStep DEF IInv
<1> QED
  BY <1>1, <1>2, <1>3, Invariance, PTL DEF Spec, SelectIsolated

================================================================================
