---------------------------- MODULE HeadlessProofs ----------------------------
(***************************************************************************)
(* Proofs about Headless for any number of commands, ports, servers and    *)
(* kills.  As long as no recovery removed a lock file it had not looked at *)
(* the command inside is the creator of the lock file (Exclusion); on that *)
(* rests what is known about the servers (StateFollows).                   *)
(***************************************************************************)
EXTENDS Headless, FiniteSetTheorems, TLAPS

-------------------------------------------------------------------------------
(* The inductive invariant *)

\* The lock file of a command inside is its own until a recovery takes it away.
Exclusion == "lock" \notin mishaps => \A p \in Procs : Inside(p) => lock = p

\* A start works on an empty state file; what a stop is about to forget is gone.
StateFollows ==
  mishaps = {} =>
    /\ \A s \in alive : Tracked(s)
    /\ \A p \in Procs :
         /\ pc[p] \in {"spawning", "waiting", "recording"} => state.server = 0
         /\ pc[p] = "removing" => state.server \notin alive

Handed == \A p \in Procs : pc[p] \in {"waiting", "recording"} => hand[p] \in Servers

IInv == TypeOK /\ Handed /\ LockHasOwner /\ Exclusion /\ StateFollows

-------------------------------------------------------------------------------
(* Every step preserves it *)

\* A counter below its bound may be counted up.
LEMMA CountsUp == ASSUME NEW n \in Nat, NEW k \in 0..n, k < n
                  PROVE  k + 1 \in 1..n /\ k + 1 \in 0..n
OBVIOUS

\* No server is numbered 0.
LEMMA NotZero == ASSUME NEW n \in Nat, NEW k \in 1..n PROVE k # 0
OBVIOUS

\* A server stays tracked while whoever holds it keeps it, or puts it into the state.
LEMMA TrackedStep ==
  ASSUME NEW s, Tracked(s), s = state.server => s = state'.server,
         \A q \in Procs : pc[q] \in {"waiting", "recording"} /\ s = hand[q] =>
           \/ s = state'.server
           \/ pc'[q] \in {"waiting", "recording"} /\ s = hand'[q]
  PROVE  Tracked(s)'
BY DEF Tracked

\* No command takes a variable out of its domain.
LEMMA TypeStep == TypeOK /\ Handed /\ [Next]_vars => TypeOK'
<1> SUFFICES ASSUME TypeOK, Handed, [Next]_vars PROVE TypeOK'
  OBVIOUS
<1> USE ProcsAssumption, CommandsAssumption, BoundsAssumption DEF TypeOK,
    Handed, Servers, NoState, Pcs, LockedPcs, Ended, Mishaps
<1>1. ASSUME NEW p \in Procs, Begin(p) PROVE TypeOK'
  BY <1>1 DEF Begin, Goto
<1>2. ASSUME NEW p \in Procs, Create(p) PROVE TypeOK'
  BY <1>2 DEF Create, Goto
<1>3. ASSUME NEW p \in Procs, WritePid(p) PROVE TypeOK'
  BY <1>3 DEF WritePid, Goto
<1>4. ASSUME NEW p \in Procs, FindLock(p) PROVE TypeOK'
  BY <1>4 DEF FindLock, Goto
<1>5. ASSUME NEW p \in Procs, Refused(p) PROVE TypeOK'
  BY <1>5 DEF Refused, Judged, Goto
<1>6. ASSUME NEW p \in Procs, Recover(p) PROVE TypeOK'
  BY <1>6 DEF Recover, Judged, Goto
<1>7. ASSUME NEW p \in Procs, Finish(p) PROVE TypeOK'
  BY <1>7 DEF Finish, Goto
<1>8. ASSUME NEW p \in Procs, AlreadyRunning(p) PROVE TypeOK'
  BY <1>8 DEF AlreadyRunning, Goto, Managed, ValidUrl
<1>9. ASSUME NEW p \in Procs, StartLooks(p) PROVE TypeOK'
  BY <1>9 DEF StartLooks, Goto, Managed, ValidUrl
<1>10. ASSUME NEW p \in Procs, Spawn(p) PROVE TypeOK'
  <2>a. launches \in 0..MaxServers /\ launches < MaxServers
    BY <1>10, Zenon DEF Spawn
  <2>1. launches + 1 \in 1..MaxServers /\ launches + 1 \in 0..MaxServers
    BY <2>a, CountsUp, BoundsAssumption, Zenon
  <2>2. pc' = [pc EXCEPT ![p] = "waiting"] /\ hand' = [hand EXCEPT ![p] = launches + 1]
    BY <1>10 DEF Spawn, Goto
  <2>3. QED
    BY <1>10, <2>1, <2>2 DEF Spawn
<1>11. ASSUME NEW p \in Procs, SpawnFails(p) PROVE TypeOK'
  BY <1>11 DEF SpawnFails, Goto
<1>12. ASSUME NEW p \in Procs, Ready(p) PROVE TypeOK'
  BY <1>12 DEF Ready, Goto
<1>13. ASSUME NEW p \in Procs, StartFails(p) PROVE TypeOK'
  BY <1>13 DEF StartFails, Goto
<1>14. ASSUME NEW p \in Procs, Record(p) PROVE TypeOK'
  BY <1>14 DEF Record, Goto
<1>15. ASSUME NEW p \in Procs, NothingToStop(p) PROVE TypeOK'
  BY <1>15 DEF NothingToStop, Goto, AfterStop
<1>16. ASSUME NEW p \in Procs, StopFails(p) PROVE TypeOK'
  BY <1>16 DEF StopFails, Goto, Managed, ValidUrl
<1>17. ASSUME NEW p \in Procs, Stop(p) PROVE TypeOK'
  BY <1>17 DEF Stop, Goto, Managed, ValidUrl
<1>18. ASSUME NEW p \in Procs, RemoveState(p) PROVE TypeOK'
  BY <1>18 DEF RemoveState, Goto, AfterStop
<1>19. ASSUME NEW p \in Procs, SetPort(p) PROVE TypeOK'
  BY <1>19 DEF SetPort, Goto
<1>20. ASSUME NEW p \in Procs, StatusReports(p) PROVE TypeOK'
  BY <1>20 DEF StatusReports, Goto, Managed, ValidUrl
<1>21. ASSUME NEW p \in Procs, StatusForgets(p) PROVE TypeOK'
  BY <1>21 DEF StatusForgets, Goto, Managed, ValidUrl
<1>22. ASSUME NEW p \in Procs, Crash(p) PROVE TypeOK'
  <2>1. mishaps' \subseteq Mishaps
    BY <1>22 DEF Crash
  <2>a. crashes \in 0..MaxCrashes /\ crashes < MaxCrashes
    BY <1>22, Zenon DEF Crash
  <2>b. crashes + 1 \in 0..MaxCrashes
    BY <2>a, CountsUp, BoundsAssumption, Zenon
  <2>2. crashes' \in 0..MaxCrashes
    BY <1>22, <2>b, Zenon DEF Crash
  <2>3. pc' \in [Procs -> Pcs]
    BY <1>22 DEF Crash, Goto
  <2>4. QED
    BY <1>22, <2>1, <2>2, <2>3 DEF Crash
<1>23. ASSUME NEW s \in Servers, ServerDies(s) PROVE TypeOK'
  BY <1>23 DEF ServerDies
<1>24. CASE UNCHANGED vars
  BY <1>24 DEF vars
<1>25. ASSUME NEW p \in Procs, StartLeaves(p) PROVE TypeOK'
  BY <1>25 DEF StartLeaves, Goto
<1>26. QED
  BY <1>1, <1>2, <1>3, <1>4, <1>5, <1>6, <1>7, <1>8, <1>9, <1>10, <1>11,
    <1>12, <1>13, <1>14, <1>15, <1>16, <1>17, <1>18, <1>19, <1>20, <1>21,
    <1>22, <1>23, <1>24, <1>25 DEF Next, Step, LockStep, StartStep, StopStep, AllDone

\* A start knows the server it launched.
LEMMA HandedStep == TypeOK /\ Handed /\ [Next]_vars => Handed'
<1> SUFFICES ASSUME TypeOK, Handed, [Next]_vars PROVE Handed'
  OBVIOUS
<1> USE ProcsAssumption, CommandsAssumption, BoundsAssumption DEF TypeOK,
    Handed, Servers, Pcs, LockedPcs, Ended
<1>1. ASSUME NEW p \in Procs, Begin(p) PROVE Handed'
  BY <1>1 DEF Begin, Goto
<1>2. ASSUME NEW p \in Procs, Create(p) PROVE Handed'
  BY <1>2 DEF Create, Goto
<1>3. ASSUME NEW p \in Procs, WritePid(p) PROVE Handed'
  BY <1>3 DEF WritePid, Goto
<1>4. ASSUME NEW p \in Procs, FindLock(p) PROVE Handed'
  BY <1>4 DEF FindLock, Goto
<1>5. ASSUME NEW p \in Procs, Refused(p) PROVE Handed'
  BY <1>5 DEF Refused, Judged, Goto
<1>6. ASSUME NEW p \in Procs, Recover(p) PROVE Handed'
  BY <1>6 DEF Recover, Judged, Goto
<1>7. ASSUME NEW p \in Procs, Finish(p) PROVE Handed'
  BY <1>7 DEF Finish, Goto
<1>8. ASSUME NEW p \in Procs, AlreadyRunning(p) PROVE Handed'
  BY <1>8 DEF AlreadyRunning, Goto, Managed, ValidUrl
<1>9. ASSUME NEW p \in Procs, StartLooks(p) PROVE Handed'
  BY <1>9 DEF StartLooks, Goto, Managed, ValidUrl
<1>10. ASSUME NEW p \in Procs, Spawn(p) PROVE Handed'
  <2>a. launches \in 0..MaxServers /\ launches < MaxServers
    BY <1>10, Zenon DEF Spawn
  <2>1. launches + 1 \in 1..MaxServers /\ launches + 1 \in 0..MaxServers
    BY <2>a, CountsUp, BoundsAssumption, Zenon
  <2>2. pc' = [pc EXCEPT ![p] = "waiting"] /\ hand' = [hand EXCEPT ![p] = launches + 1]
    BY <1>10 DEF Spawn, Goto
  <2>3. QED
    BY <1>10, <2>1, <2>2 DEF Spawn
<1>11. ASSUME NEW p \in Procs, SpawnFails(p) PROVE Handed'
  BY <1>11 DEF SpawnFails, Goto
<1>12. ASSUME NEW p \in Procs, Ready(p) PROVE Handed'
  BY <1>12 DEF Ready, Goto
<1>13. ASSUME NEW p \in Procs, StartFails(p) PROVE Handed'
  BY <1>13 DEF StartFails, Goto
<1>14. ASSUME NEW p \in Procs, Record(p) PROVE Handed'
  BY <1>14 DEF Record, Goto
<1>15. ASSUME NEW p \in Procs, NothingToStop(p) PROVE Handed'
  BY <1>15 DEF NothingToStop, Goto, AfterStop
<1>16. ASSUME NEW p \in Procs, StopFails(p) PROVE Handed'
  BY <1>16 DEF StopFails, Goto, Managed, ValidUrl
<1>17. ASSUME NEW p \in Procs, Stop(p) PROVE Handed'
  BY <1>17 DEF Stop, Goto, Managed, ValidUrl
<1>18. ASSUME NEW p \in Procs, RemoveState(p) PROVE Handed'
  BY <1>18 DEF RemoveState, Goto, AfterStop
<1>19. ASSUME NEW p \in Procs, SetPort(p) PROVE Handed'
  BY <1>19 DEF SetPort, Goto
<1>20. ASSUME NEW p \in Procs, StatusReports(p) PROVE Handed'
  BY <1>20 DEF StatusReports, Goto, Managed, ValidUrl
<1>21. ASSUME NEW p \in Procs, StatusForgets(p) PROVE Handed'
  BY <1>21 DEF StatusForgets, Goto, Managed, ValidUrl
<1>22. ASSUME NEW p \in Procs, Crash(p) PROVE Handed'
  BY <1>22 DEF Crash, Goto
<1>23. ASSUME NEW s \in Servers, ServerDies(s) PROVE Handed'
  BY <1>23 DEF ServerDies
<1>24. CASE UNCHANGED vars
  BY <1>24 DEF vars
<1>25. ASSUME NEW p \in Procs, StartLeaves(p) PROVE Handed'
  BY <1>25 DEF StartLeaves, Goto
<1>26. QED
  BY <1>1, <1>2, <1>3, <1>4, <1>5, <1>6, <1>7, <1>8, <1>9, <1>10, <1>11,
    <1>12, <1>13, <1>14, <1>15, <1>16, <1>17, <1>18, <1>19, <1>20, <1>21,
    <1>22, <1>23, <1>24, <1>25 DEF Next, Step, LockStep, StartStep, StopStep, AllDone

\* Whoever creates the lock file is inside, and drops it on the way out.
LEMMA LockStepOwner == TypeOK /\ LockHasOwner /\ [Next]_vars => LockHasOwner'
<1> SUFFICES ASSUME TypeOK, LockHasOwner, [Next]_vars PROVE LockHasOwner'
  OBVIOUS
<1> USE ProcsAssumption, CommandsAssumption, BoundsAssumption DEF TypeOK,
    LockHasOwner, Inside, Pcs, LockedPcs, Ended
<1>1. ASSUME NEW p \in Procs, Begin(p) PROVE LockHasOwner'
  BY <1>1 DEF Begin, Goto
<1>2. ASSUME NEW p \in Procs, Create(p) PROVE LockHasOwner'
  BY <1>2 DEF Create, Goto
<1>3. ASSUME NEW p \in Procs, WritePid(p) PROVE LockHasOwner'
  BY <1>3 DEF WritePid, Goto
<1>4. ASSUME NEW p \in Procs, FindLock(p) PROVE LockHasOwner'
  BY <1>4 DEF FindLock, Goto
<1>5. ASSUME NEW p \in Procs, Refused(p) PROVE LockHasOwner'
  BY <1>5 DEF Refused, Judged, Goto
<1>6. ASSUME NEW p \in Procs, Recover(p) PROVE LockHasOwner'
  BY <1>6 DEF Recover, Judged, Goto
<1>7. ASSUME NEW p \in Procs, Finish(p) PROVE LockHasOwner'
  BY <1>7 DEF Finish, Goto
<1>8. ASSUME NEW p \in Procs, AlreadyRunning(p) PROVE LockHasOwner'
  BY <1>8 DEF AlreadyRunning, Goto, Managed, ValidUrl
<1>9. ASSUME NEW p \in Procs, StartLooks(p) PROVE LockHasOwner'
  BY <1>9 DEF StartLooks, Goto, Managed, ValidUrl
<1>10. ASSUME NEW p \in Procs, Spawn(p) PROVE LockHasOwner'
  BY <1>10 DEF Spawn, Goto
<1>11. ASSUME NEW p \in Procs, SpawnFails(p) PROVE LockHasOwner'
  BY <1>11 DEF SpawnFails, Goto
<1>12. ASSUME NEW p \in Procs, Ready(p) PROVE LockHasOwner'
  BY <1>12 DEF Ready, Goto
<1>13. ASSUME NEW p \in Procs, StartFails(p) PROVE LockHasOwner'
  BY <1>13 DEF StartFails, Goto
<1>14. ASSUME NEW p \in Procs, Record(p) PROVE LockHasOwner'
  BY <1>14 DEF Record, Goto
<1>15. ASSUME NEW p \in Procs, NothingToStop(p) PROVE LockHasOwner'
  BY <1>15 DEF NothingToStop, Goto, AfterStop
<1>16. ASSUME NEW p \in Procs, StopFails(p) PROVE LockHasOwner'
  BY <1>16 DEF StopFails, Goto, Managed, ValidUrl
<1>17. ASSUME NEW p \in Procs, Stop(p) PROVE LockHasOwner'
  BY <1>17 DEF Stop, Goto, Managed, ValidUrl
<1>18. ASSUME NEW p \in Procs, RemoveState(p) PROVE LockHasOwner'
  BY <1>18 DEF RemoveState, Goto, AfterStop
<1>19. ASSUME NEW p \in Procs, SetPort(p) PROVE LockHasOwner'
  BY <1>19 DEF SetPort, Goto
<1>20. ASSUME NEW p \in Procs, StatusReports(p) PROVE LockHasOwner'
  BY <1>20 DEF StatusReports, Goto, Managed, ValidUrl
<1>21. ASSUME NEW p \in Procs, StatusForgets(p) PROVE LockHasOwner'
  BY <1>21 DEF StatusForgets, Goto, Managed, ValidUrl
<1>22. ASSUME NEW p \in Procs, Crash(p) PROVE LockHasOwner'
  BY <1>22 DEF Crash, Goto
<1>23. ASSUME NEW s \in Servers, ServerDies(s) PROVE LockHasOwner'
  BY <1>23 DEF ServerDies
<1>24. CASE UNCHANGED vars
  BY <1>24 DEF vars
<1>25. ASSUME NEW p \in Procs, StartLeaves(p) PROVE LockHasOwner'
  BY <1>25 DEF StartLeaves, Goto
<1>26. QED
  BY <1>1, <1>2, <1>3, <1>4, <1>5, <1>6, <1>7, <1>8, <1>9, <1>10, <1>11,
    <1>12, <1>13, <1>14, <1>15, <1>16, <1>17, <1>18, <1>19, <1>20, <1>21,
    <1>22, <1>23, <1>24, <1>25 DEF Next, Step, LockStep, StartStep, StopStep, AllDone

\* create_new admits one command; the lock file a recovery removes is that of a
\* command that has ended, or the recovery is counted among the mishaps.
LEMMA ExclusionStep == TypeOK /\ Exclusion /\ [Next]_vars => Exclusion'
<1> SUFFICES ASSUME TypeOK, Exclusion, [Next]_vars PROVE Exclusion'
  OBVIOUS
<1> USE ProcsAssumption, CommandsAssumption, BoundsAssumption DEF TypeOK,
    Exclusion, Inside, Pcs, LockedPcs, Ended
<1>1. ASSUME NEW p \in Procs, Begin(p) PROVE Exclusion'
  BY <1>1 DEF Begin, Goto
<1>2. ASSUME NEW p \in Procs, Create(p) PROVE Exclusion'
  BY <1>2 DEF Create, Goto
<1>3. ASSUME NEW p \in Procs, WritePid(p) PROVE Exclusion'
  BY <1>3 DEF WritePid, Goto
<1>4. ASSUME NEW p \in Procs, FindLock(p) PROVE Exclusion'
  BY <1>4 DEF FindLock, Goto
<1>5. ASSUME NEW p \in Procs, Refused(p) PROVE Exclusion'
  BY <1>5 DEF Refused, Judged, Goto
<1>6. ASSUME NEW p \in Procs, Recover(p) PROVE Exclusion'
  BY <1>6 DEF Recover, Judged, Goto
<1>7. ASSUME NEW p \in Procs, Finish(p) PROVE Exclusion'
  BY <1>7 DEF Finish, Goto
<1>8. ASSUME NEW p \in Procs, AlreadyRunning(p) PROVE Exclusion'
  BY <1>8 DEF AlreadyRunning, Goto, Managed, ValidUrl
<1>9. ASSUME NEW p \in Procs, StartLooks(p) PROVE Exclusion'
  BY <1>9 DEF StartLooks, Goto, Managed, ValidUrl
<1>10. ASSUME NEW p \in Procs, Spawn(p) PROVE Exclusion'
  BY <1>10 DEF Spawn, Goto
<1>11. ASSUME NEW p \in Procs, SpawnFails(p) PROVE Exclusion'
  BY <1>11 DEF SpawnFails, Goto
<1>12. ASSUME NEW p \in Procs, Ready(p) PROVE Exclusion'
  BY <1>12 DEF Ready, Goto
<1>13. ASSUME NEW p \in Procs, StartFails(p) PROVE Exclusion'
  BY <1>13 DEF StartFails, Goto
<1>14. ASSUME NEW p \in Procs, Record(p) PROVE Exclusion'
  BY <1>14 DEF Record, Goto
<1>15. ASSUME NEW p \in Procs, NothingToStop(p) PROVE Exclusion'
  BY <1>15 DEF NothingToStop, Goto, AfterStop
<1>16. ASSUME NEW p \in Procs, StopFails(p) PROVE Exclusion'
  BY <1>16 DEF StopFails, Goto, Managed, ValidUrl
<1>17. ASSUME NEW p \in Procs, Stop(p) PROVE Exclusion'
  BY <1>17 DEF Stop, Goto, Managed, ValidUrl
<1>18. ASSUME NEW p \in Procs, RemoveState(p) PROVE Exclusion'
  BY <1>18 DEF RemoveState, Goto, AfterStop
<1>19. ASSUME NEW p \in Procs, SetPort(p) PROVE Exclusion'
  BY <1>19 DEF SetPort, Goto
<1>20. ASSUME NEW p \in Procs, StatusReports(p) PROVE Exclusion'
  BY <1>20 DEF StatusReports, Goto, Managed, ValidUrl
<1>21. ASSUME NEW p \in Procs, StatusForgets(p) PROVE Exclusion'
  BY <1>21 DEF StatusForgets, Goto, Managed, ValidUrl
<1>22. ASSUME NEW p \in Procs, Crash(p) PROVE Exclusion'
  BY <1>22 DEF Crash, Goto
<1>23. ASSUME NEW s \in Servers, ServerDies(s) PROVE Exclusion'
  BY <1>23 DEF ServerDies
<1>24. CASE UNCHANGED vars
  BY <1>24 DEF vars
<1>25. ASSUME NEW p \in Procs, StartLeaves(p) PROVE Exclusion'
  BY <1>25 DEF StartLeaves, Goto
<1>26. QED
  BY <1>1, <1>2, <1>3, <1>4, <1>5, <1>6, <1>7, <1>8, <1>9, <1>10, <1>11,
    <1>12, <1>13, <1>14, <1>15, <1>16, <1>17, <1>18, <1>19, <1>20, <1>21,
    <1>22, <1>23, <1>24, <1>25 DEF Next, Step, LockStep, StartStep, StopStep, AllDone

\* The command inside leaves no server untracked.
LEMMA StateStep == TypeOK /\ Exclusion /\ StateFollows /\ [Next]_vars => StateFollows'
<1> SUFFICES ASSUME TypeOK, Exclusion, StateFollows, [Next]_vars PROVE StateFollows'
  OBVIOUS
<1> USE ProcsAssumption, CommandsAssumption, BoundsAssumption DEF TypeOK,
    Exclusion, Inside, StateFollows, Tracked, NoState, Servers,
    Pcs, LockedPcs, Ended
<1>1. ASSUME NEW p \in Procs, Begin(p) PROVE StateFollows'
  <2> SUFFICES ASSUME mishaps' = {} PROVE StateFollows'
    OBVIOUS
  <2>1. mishaps = {}
    BY <1>1 DEF Begin
  <2>2. ASSUME NEW s \in alive' PROVE Tracked(s)'
    <3>1. s \in alive /\ Tracked(s)
      BY <1>1, <2>1 DEF Begin
    <3>2. s = state.server => s = state'.server
      BY <1>1, <2>1, <3>1 DEF Begin
    <3>3. ASSUME NEW q \in Procs, pc[q] \in {"waiting", "recording"}, s = hand[q]
          PROVE  s = state'.server \/ (pc'[q] \in {"waiting", "recording"} /\ s = hand'[q])
      BY <1>1, <2>1, <3>1, <3>3 DEF Begin, Goto
    <3>4. QED
      BY <3>1, <3>2, <3>3, TrackedStep
  <2>3. \A q \in Procs :
          /\ pc'[q] \in {"spawning", "waiting", "recording"} => state'.server = 0
          /\ pc'[q] = "removing" => state'.server \notin alive'
    <3>1. state' = state /\ alive' = alive
      BY <1>1 DEF Begin
    <3>2. PICK l \in {"done", "judging", "acquiring"} : pc' = [pc EXCEPT ![p] = l]
      BY <1>1, Zenon DEF Begin, Goto
    <3>3. \A q \in Procs : pc'[q] = pc[q] \/ pc'[q] = l
      BY <3>2
    <3>4. QED
      BY <2>1, <3>1, <3>3
  <2>4. QED
    BY <2>2, <2>3
<1>2. ASSUME NEW p \in Procs, Create(p) PROVE StateFollows'
  BY <1>2 DEF Create, Goto
<1>3. ASSUME NEW p \in Procs, WritePid(p) PROVE StateFollows'
  BY <1>3 DEF WritePid, Goto
<1>4. ASSUME NEW p \in Procs, FindLock(p) PROVE StateFollows'
  BY <1>4 DEF FindLock, Goto
<1>5. ASSUME NEW p \in Procs, Refused(p) PROVE StateFollows'
  BY <1>5 DEF Refused, Judged, Goto
<1>6. ASSUME NEW p \in Procs, Recover(p) PROVE StateFollows'
  BY <1>6 DEF Recover, Judged, Goto
<1>7. ASSUME NEW p \in Procs, Finish(p) PROVE StateFollows'
  BY <1>7 DEF Finish, Goto
<1>8. ASSUME NEW p \in Procs, AlreadyRunning(p) PROVE StateFollows'
  BY <1>8 DEF AlreadyRunning, Goto, Managed, ValidUrl
<1>9. ASSUME NEW p \in Procs, StartLooks(p) PROVE StateFollows'
  BY <1>9 DEF StartLooks, Goto, Managed, ValidUrl
<1>10. ASSUME NEW p \in Procs, Spawn(p) PROVE StateFollows'
  BY <1>10 DEF Spawn, Goto
<1>11. ASSUME NEW p \in Procs, SpawnFails(p) PROVE StateFollows'
  BY <1>11 DEF SpawnFails, Goto
<1>12. ASSUME NEW p \in Procs, Ready(p) PROVE StateFollows'
  <2> SUFFICES ASSUME mishaps' = {} PROVE StateFollows'
    OBVIOUS
  <2>1. mishaps = {}
    BY <1>12 DEF Ready
  <2>2. ASSUME NEW s \in alive' PROVE Tracked(s)'
    <3>1. s \in alive /\ Tracked(s)
      BY <1>12, <2>1 DEF Ready
    <3>2. s = state.server => s = state'.server
      BY <1>12, <2>1, <3>1 DEF Ready
    <3>3. ASSUME NEW q \in Procs, pc[q] \in {"waiting", "recording"}, s = hand[q]
          PROVE  s = state'.server \/ (pc'[q] \in {"waiting", "recording"} /\ s = hand'[q])
      BY <1>12, <2>1, <3>1, <3>3 DEF Ready, Goto
    <3>4. QED
      BY <3>1, <3>2, <3>3, TrackedStep
  <2>3. \A q \in Procs :
          /\ pc'[q] \in {"spawning", "waiting", "recording"} => state'.server = 0
          /\ pc'[q] = "removing" => state'.server \notin alive'
    BY <1>12, <2>1 DEF Ready, Goto
  <2>4. QED
    BY <2>2, <2>3
<1>13. ASSUME NEW p \in Procs, StartFails(p) PROVE StateFollows'
  BY <1>13 DEF StartFails, Goto
<1>14. ASSUME NEW p \in Procs, Record(p) PROVE StateFollows'
  <2> SUFFICES ASSUME mishaps' = {} PROVE StateFollows'
    OBVIOUS
  <2>1. mishaps = {}
    BY <1>14 DEF Record
  <2>2. ASSUME NEW s \in alive' PROVE Tracked(s)'
    <3>1. s \in alive /\ Tracked(s)
      BY <1>14, <2>1 DEF Record
    <3>2. s # state.server
      <4>1. state.server = 0
        BY <1>14, <2>1 DEF Record
      <4>2. s # 0
        <5>1. s \in 1..MaxServers
          BY <3>1, Zenon
        <5>2. QED
          BY <5>1, NotZero, BoundsAssumption, Zenon
      <4>3. QED
        BY <4>1, <4>2
    <3>3. ASSUME NEW q \in Procs, pc[q] \in {"waiting", "recording"}, s = hand[q]
          PROVE  s = state'.server \/ (pc'[q] \in {"waiting", "recording"} /\ s = hand'[q])
      BY <1>14, <2>1, <3>1, <3>3 DEF Record, Goto
    <3>4. QED
      BY <3>1, <3>2, <3>3, TrackedStep
  <2>3. \A q \in Procs :
          /\ pc'[q] \in {"spawning", "waiting", "recording"} => state'.server = 0
          /\ pc'[q] = "removing" => state'.server \notin alive'
    BY <1>14, <2>1 DEF Record, Goto
  <2>4. QED
    BY <2>2, <2>3
<1>15. ASSUME NEW p \in Procs, NothingToStop(p) PROVE StateFollows'
  BY <1>15 DEF NothingToStop, Goto, AfterStop
<1>16. ASSUME NEW p \in Procs, StopFails(p) PROVE StateFollows'
  BY <1>16 DEF StopFails, Goto, Managed, ValidUrl
<1>17. ASSUME NEW p \in Procs, Stop(p) PROVE StateFollows'
  BY <1>17 DEF Stop, Goto, Managed, ValidUrl
<1>18. ASSUME NEW p \in Procs, RemoveState(p) PROVE StateFollows'
  BY <1>18 DEF RemoveState, Goto, AfterStop
<1>19. ASSUME NEW p \in Procs, SetPort(p) PROVE StateFollows'
  BY <1>19 DEF SetPort, Goto
<1>20. ASSUME NEW p \in Procs, StatusReports(p) PROVE StateFollows'
  BY <1>20 DEF StatusReports, Goto, Managed, ValidUrl
<1>21. ASSUME NEW p \in Procs, StatusForgets(p) PROVE StateFollows'
  <2> SUFFICES ASSUME mishaps' = {} PROVE StateFollows'
    OBVIOUS
  <2>1. mishaps = {} /\ state.server \notin alive
    BY <1>21 DEF StatusForgets
  <2>2. ASSUME NEW s \in alive' PROVE Tracked(s)'
    <3>1. s \in alive /\ Tracked(s)
      BY <1>21, <2>1 DEF StatusForgets
    <3>2. s = state.server => s = state'.server
      BY <1>21, <2>1, <3>1 DEF StatusForgets
    <3>3. ASSUME NEW q \in Procs, pc[q] \in {"waiting", "recording"}, s = hand[q]
          PROVE  s = state'.server \/ (pc'[q] \in {"waiting", "recording"} /\ s = hand'[q])
      BY <1>21, <2>1, <3>1, <3>3 DEF StatusForgets, Goto, Managed, ValidUrl
    <3>4. QED
      BY <3>1, <3>2, <3>3, TrackedStep
  <2>3. \A q \in Procs :
          /\ pc'[q] \in {"spawning", "waiting", "recording"} => state'.server = 0
          /\ pc'[q] = "removing" => state'.server \notin alive'
    BY <1>21, <2>1 DEF StatusForgets, Goto, Managed, ValidUrl
  <2>4. QED
    BY <2>2, <2>3
<1>22. ASSUME NEW p \in Procs, Crash(p) PROVE StateFollows'
  BY <1>22 DEF Crash, Goto
<1>23. ASSUME NEW s \in Servers, ServerDies(s) PROVE StateFollows'
  BY <1>23 DEF ServerDies
<1>24. CASE UNCHANGED vars
  BY <1>24 DEF vars
<1>25. ASSUME NEW p \in Procs, StartLeaves(p) PROVE StateFollows'
  <2> SUFFICES ASSUME mishaps' = {} PROVE StateFollows'
    OBVIOUS
  <2>1. mishaps = {} /\ hand[p] \notin alive
    BY <1>25 DEF StartLeaves
  <2>2. ASSUME NEW s \in alive' PROVE Tracked(s)'
    <3>1. s \in alive /\ Tracked(s)
      BY <1>25, <2>1 DEF StartLeaves
    <3>2. s = state.server => s = state'.server
      BY <1>25, <2>1, <3>1 DEF StartLeaves
    <3>3. ASSUME NEW q \in Procs, pc[q] \in {"waiting", "recording"}, s = hand[q]
          PROVE  s = state'.server \/ (pc'[q] \in {"waiting", "recording"} /\ s = hand'[q])
      BY <1>25, <2>1, <3>1, <3>3 DEF StartLeaves, Goto
    <3>4. QED
      BY <3>1, <3>2, <3>3, TrackedStep
  <2>3. \A q \in Procs :
          /\ pc'[q] \in {"spawning", "waiting", "recording"} => state'.server = 0
          /\ pc'[q] = "removing" => state'.server \notin alive'
    BY <1>25, <2>1 DEF StartLeaves, Goto
  <2>4. QED
    BY <2>2, <2>3
<1>26. QED
  BY <1>1, <1>2, <1>3, <1>4, <1>5, <1>6, <1>7, <1>8, <1>9, <1>10, <1>11,
    <1>12, <1>13, <1>14, <1>15, <1>16, <1>17, <1>18, <1>19, <1>20, <1>21,
    <1>22, <1>23, <1>24, <1>25 DEF Next, Step, LockStep, StartStep, StopStep, AllDone

-------------------------------------------------------------------------------
(* Theorems *)

\* IInv holds initially.
LEMMA IInvInit == Init => IInv
<1> SUFFICES ASSUME Init PROVE IInv
  OBVIOUS
<1>1. TypeOK
  <2>1. NoState \in [server : Servers \cup {0}, port : Ports]
    BY DEF Init, NoState
  <2>2. 0 \in 0..MaxServers /\ 0 \in 0..MaxCrashes
    BY BoundsAssumption
  <2>3. pc \in [Procs -> Pcs] /\ hand \in [Procs -> Servers \cup {0}]
    BY DEF Init, Pcs
  <2>4. bound \in [Servers -> Ports] /\ command \in [Procs -> Commands]
    BY DEF Init
  <2>5. QED
    BY <2>1, <2>2, <2>3, <2>4 DEF Init, TypeOK
<1>2. LockHasOwner /\ Exclusion /\ Handed
  BY ProcsAssumption DEF Init, LockHasOwner, Exclusion, Handed, Inside, LockedPcs
<1>3. StateFollows
  BY DEF Init, StateFollows, Tracked
<1>4. QED
  BY <1>1, <1>2, <1>3 DEF IInv

\* IInv holds in every reachable state.
THEOREM Invariance == Spec => []IInv
<1>1. IInv /\ [Next]_vars => IInv'
  BY TypeStep, HandedStep, LockStepOwner, ExclusionStep, StateStep DEF IInv
<1>2. QED
  BY <1>1, IInvInit, PTL DEF Spec

\* Every variable of the command line's world stays in its domain.
THEOREM TypeCorrect == Spec => []TypeOK
<1>1. IInv => TypeOK
  BY DEF IInv
<1>2. QED
  BY <1>1, Invariance, PTL

\* However many commands are launched together, killed or not, no two of them are
\* past the lock at once until a recovery removed a lock file it had not looked at.
THEOREM MutualExclusion == Spec => []OneCommandUnlessReplaced
<1>1. IInv => OneCommandUnlessReplaced
  BY DEF IInv, Exclusion, OneCommandUnlessReplaced, OneCommand
<1>2. QED
  BY <1>1, Invariance, PTL

\* A lock file is never left behind by a command that returned.
THEOREM LockDropped == Spec => []LockHasOwner
<1>1. IInv => LockHasOwner
  BY DEF IInv
<1>2. QED
  BY <1>1, Invariance, PTL

\* Across starts, stops, restarts, status polls, port changes and kills that meet none
\* of the four mishaps there is one server at most, and stop reaches it.
THEOREM ServersTracked == Spec => []EveryServerTracked
<1>1. ASSUME IInv PROVE EveryServerTracked
  <2> SUFFICES ASSUME mishaps = {} PROVE (\A s \in alive : Tracked(s)) /\ Cardinality(alive) <= 1
    BY DEF EveryServerTracked
  <2>1. \A s \in alive : Tracked(s)
    BY <1>1 DEF IInv, StateFollows
  <2>2. ASSUME NEW s \in alive, NEW t \in alive PROVE s = t
    <3>1. s # 0 /\ t # 0
      BY <1>1 DEF IInv, TypeOK, Servers
    <3>2. ASSUME NEW p \in Procs, NEW q \in Procs, pc[p] \in {"waiting", "recording"},
                 pc[q] \in {"waiting", "recording"}
          PROVE p = q
      BY <1>1, <3>2 DEF IInv, Exclusion, Inside, LockedPcs
    <3>3. ASSUME NEW p \in Procs, pc[p] \in {"waiting", "recording"} PROVE state.server = 0
      BY <1>1, <3>3 DEF IInv, StateFollows
    <3>4. QED
      BY <2>1, <3>1, <3>2, <3>3 DEF Tracked
  <2>3. CASE alive = {}
    BY <2>1, <2>3, FS_EmptySet
  <2>4. CASE alive # {}
    <3>1. PICK s \in alive : TRUE
      BY <2>4
    <3>2. alive = {s}
      BY <2>2, <3>1
    <3>3. Cardinality({s}) = 1
      BY FS_Singleton, Zenon
    <3>4. QED
      BY <2>1, <3>2, <3>3
  <2>5. QED
    BY <2>3, <2>4
<1>2. QED
  BY <1>1, Invariance, PTL

\* The lock is given back by every command that returns, and admits one command until
\* a recovery removed a lock file it had not looked at.
THEOREM LockSound == Spec => []LockHeld
BY MutualExclusion, LockDropped, PTL DEF LockHeld
===============================================================================
