---------------------------- MODULE DesktopProofs ----------------------------
(***************************************************************************)
(* Proofs about Desktop for any set of calls and any number of launches.   *)
(*                                                                         *)
(* IInv is the inductive invariant.  Its parts are proved to be preserved  *)
(* one after the other, each relying on those before it: the types, who    *)
(* holds the operation mutex and runtime_busy, which processes run, what   *)
(* excludes what, and what goes with a server (its gateway, its key file). *)
(***************************************************************************)
EXTENDS Desktop, FiniteSetTheorems, TLAPS

-------------------------------------------------------------------------------
(* The inductive invariant *)

OpMutex == \A c \in Calls : operation = c <=> pc[c] \in HoldingPcs

\* What a start knows of the server it is launching, unless the exit handler has
\* swept it away.
StartTracked ==
  \A c \in Calls :
    /\ pc[c] \in {"launching", "spawned", "failed"} => server.child = 0
    /\ pc[c] \in LaunchedPcs => sess[c] # 0
    /\ pc[c] \in {"waiting", "confirmed"} /\ phase \in {"running", "flagged"} =>
         /\ server.lifecycle = "Starting"
         /\ server.child = sess[c]
         /\ server.api_key = sess[c]

Swept == phase \in {"swept", "gone"} => server.child = 0 /\ server.lifecycle # "Ready"

\* A command that took the gateway out finds it still gone later on; one that is
\* binding its port knows which server it read.
GatewayPending ==
  \A c \in Calls :
    /\ pc[c] \in {"launching", "stopping", "gateway_stopping", "binding"} \cup LaunchedPcs =>
         gateway = 0
    /\ pc[c] = "binding" =>
         /\ phase \in {"running", "flagged"} => server.lifecycle \in {"Ready", "Crashed"}
         /\ server.lifecycle = "Ready" => sess[c] = server.api_key

Mutexes == OpMutex /\ BusyExclusive

Processes == StartTracked /\ Swept /\ NoStrayServer /\ ReadyIsServed

Users == RuntimeExclusive /\ BenchAlone

Companions == GatewayPending /\ GatewayMatchesServer /\ KeyFileScoped

IInv == TypeOK /\ Mutexes /\ Processes /\ Users /\ Companions

-------------------------------------------------------------------------------
(* The parts of the invariant are preserved by every action *)

\* The application starts stopped, with nothing running.
LEMMA TypeInit == Init => TypeOK
<1> SUFFICES ASSUME Init PROVE TypeOK
  OBVIOUS
<1>1. 0 \in 0..MaxSessions
  BY SessionsAssumption
<1>2. pc \in [Calls -> Pcs] /\ sess \in [Calls -> Sessions \cup {0}]
  BY DEF Init, Pcs
<1>3. server \in [lifecycle : Lifecycles, child : Sessions \cup {0},
                 api_key : Sessions \cup {0}, redaction_secret : Sessions \cup {0},
                 active_requests : Nat]
  BY DEF Init, Lifecycles
<1>4. QED
  BY <1>1, <1>2, <1>3 DEF Init, TypeOK, Phases

\* No handler takes a variable out of its domain.
LEMMA TypeStep == TypeOK /\ [Next]_vars => TypeOK'
<1> SUFFICES ASSUME TypeOK, [Next]_vars PROVE TypeOK'
  OBVIOUS
<1> USE CallsAssumption, SessionsAssumption DEF TypeOK, Sessions, Lifecycles, Phases, Pcs, HoldingPcs, StartPcs, LaunchedPcs, ExclusivePcs
<1>1. ASSUME NEW c \in Calls, StartBegin(c) PROVE TypeOK'
  BY <1>1 DEF StartBegin, Lock, Exiting, Goto
<1>2. ASSUME NEW c \in Calls, StartInvalid(c) PROVE TypeOK'
  BY <1>2 DEF StartInvalid, Return, Goto
<1>3. ASSUME NEW c \in Calls, StartReset(c) PROVE TypeOK'
  BY <1>3 DEF StartReset, Goto, Cleared
<1>4. ASSUME NEW c \in Calls, StartSpawn(c) PROVE TypeOK'
  BY <1>4 DEF StartSpawn, Goto
<1>5. ASSUME NEW c \in Calls, StartSpawnFails(c) PROVE TypeOK'
  BY <1>5 DEF StartSpawnFails, Return, Exiting, Goto
<1>6. ASSUME NEW c \in Calls, StartAttach(c) PROVE TypeOK'
  BY <1>6 DEF StartAttach, Goto, Exiting
<1>7. ASSUME NEW c \in Calls, StartSeesExit(c) PROVE TypeOK'
  BY <1>7 DEF StartSeesExit, Return, Cleared, Exiting, Goto
<1>8. ASSUME NEW c \in Calls, WaitReady(c) PROVE TypeOK'
  BY <1>8 DEF WaitReady, Goto
<1>9. ASSUME NEW c \in Calls, WaitFails(c) PROVE TypeOK'
  BY <1>9 DEF WaitFails, Goto
<1>10. ASSUME NEW c \in Calls, StartReady(c) PROVE TypeOK'
  BY <1>10 DEF StartReady, Return, Exiting, Goto
<1>11. ASSUME NEW c \in Calls, StartFails(c) PROVE TypeOK'
  BY <1>11 DEF StartFails, Return, Exiting, Goto
<1>12. ASSUME NEW c \in Calls, StopTake(c) PROVE TypeOK'
  BY <1>12 DEF StopTake, Lock, Goto
<1>13. ASSUME NEW c \in Calls, StopKill(c) PROVE TypeOK'
  BY <1>13 DEF StopKill, Return, Cleared, Goto
<1>14. ASSUME NEW c \in Calls, GatewayTake(c) PROVE TypeOK'
  BY <1>14 DEF GatewayTake, Lock, Goto
<1>15. ASSUME NEW c \in Calls, GatewayRead(c) PROVE TypeOK'
  BY <1>15 DEF GatewayRead, Goto
<1>16. ASSUME NEW c \in Calls, GatewayRefused(c) PROVE TypeOK'
  BY <1>16 DEF GatewayRefused, Return, Goto
<1>17. ASSUME NEW c \in Calls, GatewayBound(c) PROVE TypeOK'
  BY <1>17 DEF GatewayBound, Return, Goto
<1>18. ASSUME NEW c \in Calls, GatewayStop(c) PROVE TypeOK'
  BY <1>18 DEF GatewayStop
<1>19. ASSUME NEW c \in Calls, ActivityStart(c) PROVE TypeOK'
  BY <1>19 DEF ActivityStart, Goto
<1>20. ASSUME NEW c \in Calls, ActivityEnd(c) PROVE TypeOK'
  BY <1>20 DEF ActivityEnd, Goto
<1>21. ASSUME NEW c \in Calls, ActivityEndRefused(c) PROVE TypeOK'
  BY <1>21 DEF ActivityEndRefused, Goto
<1>22. ASSUME NEW c \in Calls, NEW k \in ExclusivePcs, ExclusiveBegin(c, k) PROVE TypeOK'
  BY <1>22 DEF ExclusiveBegin, Lock, Blocks, Goto
<1>23. ASSUME NEW c \in Calls, ExclusiveEnd(c) PROVE TypeOK'
  BY <1>23 DEF ExclusiveEnd, Return, Goto
<1>24. ASSUME NEW c \in Calls, RuntimeAcquire(c) PROVE TypeOK'
  BY <1>24 DEF RuntimeAcquire, Goto
<1>25. ASSUME NEW c \in Calls, RuntimeCheck(c) PROVE TypeOK'
  BY <1>25 DEF RuntimeCheck, Goto, Blocks
<1>26. ASSUME NEW c \in Calls, RuntimeRefused(c) PROVE TypeOK'
  BY <1>26 DEF RuntimeRefused, Goto, Blocks
<1>27. ASSUME NEW c \in Calls, RuntimeDone(c) PROVE TypeOK'
  BY <1>27 DEF RuntimeDone, Goto
<1>28. CASE IdleUnload
  BY <1>28 DEF IdleUnload, Cleared
<1>29. CASE StatusFindsExited
  BY <1>29 DEF StatusFindsExited, MarkCrashed, Cleared
<1>30. CASE StatusCannotInspect
  BY <1>30 DEF StatusCannotInspect, MarkCrashed, Cleared
<1>31. CASE StatusStillCrashed
  BY <1>31 DEF StatusStillCrashed
<1>32. ASSUME NEW s \in Sessions, ServerDies(s) PROVE TypeOK'
  BY <1>32 DEF ServerDies
<1>33. CASE ExitFlag
  BY <1>33 DEF ExitFlag
<1>34. CASE ExitSweep
  BY <1>34 DEF ExitSweep, Cleared
<1>35. CASE ProcessEnds
  BY <1>35 DEF ProcessEnds
<1>36. CASE UNCHANGED vars
  BY <1>36 DEF vars
<1>37. QED
  BY <1>1, <1>2, <1>3, <1>4, <1>5, <1>6, <1>7, <1>8, <1>9, <1>10, <1>11, <1>12, <1>13, <1>14, <1>15, <1>16, <1>17, <1>18, <1>19, <1>20, <1>21, <1>22, <1>23, <1>24, <1>25, <1>26, <1>27, <1>28, <1>29, <1>30, <1>31, <1>32, <1>33, <1>34, <1>35, <1>36 DEF Next, CallStep, HolderStep, StartStep, GatewayStep, RuntimeVerdict, StatusStep, Gone


\* The operation mutex is held by exactly the calls that are past its lock() and
\* not yet returned, and runtime_busy by the one mutation in progress.
LEMMA MutexStep == TypeOK /\ Mutexes /\ [Next]_vars => Mutexes'
<1> SUFFICES ASSUME TypeOK, Mutexes, [Next]_vars PROVE Mutexes'
  OBVIOUS
<1> USE CallsAssumption, SessionsAssumption DEF TypeOK, Mutexes, OpMutex,
    BusyExclusive, Sessions, Lifecycles, Phases, Pcs, HoldingPcs, StartPcs,
    LaunchedPcs, ExclusivePcs
<1>1. ASSUME NEW c \in Calls, StartBegin(c) PROVE Mutexes'
  BY <1>1 DEF StartBegin, Lock, Exiting, Goto
<1>2. ASSUME NEW c \in Calls, StartInvalid(c) PROVE Mutexes'
  BY <1>2 DEF StartInvalid, Return, Goto
<1>3. ASSUME NEW c \in Calls, StartReset(c) PROVE Mutexes'
  BY <1>3 DEF StartReset, Goto, Cleared
<1>4. ASSUME NEW c \in Calls, StartSpawn(c) PROVE Mutexes'
  BY <1>4 DEF StartSpawn, Goto
<1>5. ASSUME NEW c \in Calls, StartSpawnFails(c) PROVE Mutexes'
  BY <1>5 DEF StartSpawnFails, Return, Exiting, Goto
<1>6. ASSUME NEW c \in Calls, StartAttach(c) PROVE Mutexes'
  BY <1>6 DEF StartAttach, Goto, Exiting
<1>7. ASSUME NEW c \in Calls, StartSeesExit(c) PROVE Mutexes'
  BY <1>7 DEF StartSeesExit, Return, Cleared, Exiting, Goto
<1>8. ASSUME NEW c \in Calls, WaitReady(c) PROVE Mutexes'
  BY <1>8 DEF WaitReady, Goto
<1>9. ASSUME NEW c \in Calls, WaitFails(c) PROVE Mutexes'
  BY <1>9 DEF WaitFails, Goto
<1>10. ASSUME NEW c \in Calls, StartReady(c) PROVE Mutexes'
  BY <1>10 DEF StartReady, Return, Exiting, Goto
<1>11. ASSUME NEW c \in Calls, StartFails(c) PROVE Mutexes'
  BY <1>11 DEF StartFails, Return, Exiting, Goto
<1>12. ASSUME NEW c \in Calls, StopTake(c) PROVE Mutexes'
  BY <1>12 DEF StopTake, Lock, Goto
<1>13. ASSUME NEW c \in Calls, StopKill(c) PROVE Mutexes'
  BY <1>13 DEF StopKill, Return, Cleared, Goto
<1>14. ASSUME NEW c \in Calls, GatewayTake(c) PROVE Mutexes'
  BY <1>14 DEF GatewayTake, Lock, Goto
<1>15. ASSUME NEW c \in Calls, GatewayRead(c) PROVE Mutexes'
  BY <1>15 DEF GatewayRead, Goto
<1>16. ASSUME NEW c \in Calls, GatewayRefused(c) PROVE Mutexes'
  BY <1>16 DEF GatewayRefused, Return, Goto
<1>17. ASSUME NEW c \in Calls, GatewayBound(c) PROVE Mutexes'
  BY <1>17 DEF GatewayBound, Return, Goto
<1>18. ASSUME NEW c \in Calls, GatewayStop(c) PROVE Mutexes'
  BY <1>18 DEF GatewayStop
<1>19. ASSUME NEW c \in Calls, ActivityStart(c) PROVE Mutexes'
  BY <1>19 DEF ActivityStart, Goto
<1>20. ASSUME NEW c \in Calls, ActivityEnd(c) PROVE Mutexes'
  BY <1>20 DEF ActivityEnd, Goto
<1>21. ASSUME NEW c \in Calls, ActivityEndRefused(c) PROVE Mutexes'
  BY <1>21 DEF ActivityEndRefused, Goto
<1>22. ASSUME NEW c \in Calls, NEW k \in ExclusivePcs, ExclusiveBegin(c, k) PROVE Mutexes'
  BY <1>22 DEF ExclusiveBegin, Lock, Blocks, Goto
<1>23. ASSUME NEW c \in Calls, ExclusiveEnd(c) PROVE Mutexes'
  BY <1>23 DEF ExclusiveEnd, Return, Goto
<1>24. ASSUME NEW c \in Calls, RuntimeAcquire(c) PROVE Mutexes'
  BY <1>24 DEF RuntimeAcquire, Goto
<1>25. ASSUME NEW c \in Calls, RuntimeCheck(c) PROVE Mutexes'
  BY <1>25 DEF RuntimeCheck, Goto, Blocks
<1>26. ASSUME NEW c \in Calls, RuntimeRefused(c) PROVE Mutexes'
  BY <1>26 DEF RuntimeRefused, Goto, Blocks
<1>27. ASSUME NEW c \in Calls, RuntimeDone(c) PROVE Mutexes'
  BY <1>27 DEF RuntimeDone, Goto
<1>28. CASE IdleUnload
  BY <1>28 DEF IdleUnload, Cleared
<1>29. CASE StatusFindsExited
  BY <1>29 DEF StatusFindsExited, MarkCrashed, Cleared
<1>30. CASE StatusCannotInspect
  BY <1>30 DEF StatusCannotInspect, MarkCrashed, Cleared
<1>31. CASE StatusStillCrashed
  BY <1>31 DEF StatusStillCrashed
<1>32. ASSUME NEW s \in Sessions, ServerDies(s) PROVE Mutexes'
  BY <1>32 DEF ServerDies
<1>33. CASE ExitFlag
  BY <1>33 DEF ExitFlag
<1>34. CASE ExitSweep
  BY <1>34 DEF ExitSweep, Cleared
<1>35. CASE ProcessEnds
  BY <1>35 DEF ProcessEnds
<1>36. CASE UNCHANGED vars
  BY <1>36 DEF vars
<1>37. QED
  BY <1>1, <1>2, <1>3, <1>4, <1>5, <1>6, <1>7, <1>8, <1>9, <1>10, <1>11,
    <1>12, <1>13, <1>14, <1>15, <1>16, <1>17, <1>18, <1>19, <1>20, <1>21,
    <1>22, <1>23, <1>24, <1>25, <1>26, <1>27, <1>28, <1>29, <1>30, <1>31,
    <1>32, <1>33, <1>34, <1>35, <1>36 DEF Next, CallStep, HolderStep,
    StartStep, GatewayStep, RuntimeVerdict, StatusStep, Gone

\* No handler loses track of a llama-server, whatever the exit handler does.
LEMMA ProcessStep == TypeOK /\ Mutexes /\ Processes /\ [Next]_vars => Processes'
<1> SUFFICES ASSUME TypeOK, Mutexes, Processes, [Next]_vars PROVE Processes'
  OBVIOUS
<1> USE CallsAssumption, SessionsAssumption DEF TypeOK, Mutexes, OpMutex,
    Processes, StartTracked, Swept, NoStrayServer, ReadyIsServed, Sessions,
    Lifecycles, Phases, Pcs, HoldingPcs, StartPcs, LaunchedPcs, ExclusivePcs
<1>1. ASSUME NEW c \in Calls, StartBegin(c) PROVE Processes'
  BY <1>1 DEF StartBegin, Lock, Exiting, Goto
<1>2. ASSUME NEW c \in Calls, StartInvalid(c) PROVE Processes'
  BY <1>2 DEF StartInvalid, Return, Goto
<1>3. ASSUME NEW c \in Calls, StartReset(c) PROVE Processes'
  BY <1>3 DEF StartReset, Goto, Cleared
<1>4. ASSUME NEW c \in Calls, StartSpawn(c) PROVE Processes'
  BY <1>4 DEF StartSpawn, Goto
<1>5. ASSUME NEW c \in Calls, StartSpawnFails(c) PROVE Processes'
  BY <1>5 DEF StartSpawnFails, Return, Exiting, Goto
<1>6. ASSUME NEW c \in Calls, StartAttach(c) PROVE Processes'
  BY <1>6 DEF StartAttach, Goto, Exiting
<1>7. ASSUME NEW c \in Calls, StartSeesExit(c) PROVE Processes'
  BY <1>7 DEF StartSeesExit, Return, Cleared, Exiting, Goto
<1>8. ASSUME NEW c \in Calls, WaitReady(c) PROVE Processes'
  BY <1>8 DEF WaitReady, Goto
<1>9. ASSUME NEW c \in Calls, WaitFails(c) PROVE Processes'
  BY <1>9 DEF WaitFails, Goto
<1>10. ASSUME NEW c \in Calls, StartReady(c) PROVE Processes'
  BY <1>10 DEF StartReady, Return, Exiting, Goto
<1>11. ASSUME NEW c \in Calls, StartFails(c) PROVE Processes'
  BY <1>11 DEF StartFails, Return, Exiting, Goto
<1>12. ASSUME NEW c \in Calls, StopTake(c) PROVE Processes'
  BY <1>12 DEF StopTake, Lock, Goto
<1>13. ASSUME NEW c \in Calls, StopKill(c) PROVE Processes'
  BY <1>13 DEF StopKill, Return, Cleared, Goto
<1>14. ASSUME NEW c \in Calls, GatewayTake(c) PROVE Processes'
  BY <1>14 DEF GatewayTake, Lock, Goto
<1>15. ASSUME NEW c \in Calls, GatewayRead(c) PROVE Processes'
  BY <1>15 DEF GatewayRead, Goto
<1>16. ASSUME NEW c \in Calls, GatewayRefused(c) PROVE Processes'
  BY <1>16 DEF GatewayRefused, Return, Goto
<1>17. ASSUME NEW c \in Calls, GatewayBound(c) PROVE Processes'
  BY <1>17 DEF GatewayBound, Return, Goto
<1>18. ASSUME NEW c \in Calls, GatewayStop(c) PROVE Processes'
  BY <1>18 DEF GatewayStop
<1>19. ASSUME NEW c \in Calls, ActivityStart(c) PROVE Processes'
  BY <1>19 DEF ActivityStart, Goto
<1>20. ASSUME NEW c \in Calls, ActivityEnd(c) PROVE Processes'
  BY <1>20 DEF ActivityEnd, Goto
<1>21. ASSUME NEW c \in Calls, ActivityEndRefused(c) PROVE Processes'
  BY <1>21 DEF ActivityEndRefused, Goto
<1>22. ASSUME NEW c \in Calls, NEW k \in ExclusivePcs, ExclusiveBegin(c, k) PROVE Processes'
  BY <1>22 DEF ExclusiveBegin, Lock, Blocks, Goto
<1>23. ASSUME NEW c \in Calls, ExclusiveEnd(c) PROVE Processes'
  BY <1>23 DEF ExclusiveEnd, Return, Goto
<1>24. ASSUME NEW c \in Calls, RuntimeAcquire(c) PROVE Processes'
  BY <1>24 DEF RuntimeAcquire, Goto
<1>25. ASSUME NEW c \in Calls, RuntimeCheck(c) PROVE Processes'
  BY <1>25 DEF RuntimeCheck, Goto, Blocks
<1>26. ASSUME NEW c \in Calls, RuntimeRefused(c) PROVE Processes'
  BY <1>26 DEF RuntimeRefused, Goto, Blocks
<1>27. ASSUME NEW c \in Calls, RuntimeDone(c) PROVE Processes'
  BY <1>27 DEF RuntimeDone, Goto
<1>28. CASE IdleUnload
  BY <1>28 DEF IdleUnload, Cleared
<1>29. CASE StatusFindsExited
  BY <1>29 DEF StatusFindsExited, MarkCrashed, Cleared
<1>30. CASE StatusCannotInspect
  BY <1>30 DEF StatusCannotInspect, MarkCrashed, Cleared
<1>31. CASE StatusStillCrashed
  BY <1>31 DEF StatusStillCrashed
<1>32. ASSUME NEW s \in Sessions, ServerDies(s) PROVE Processes'
  BY <1>32 DEF ServerDies
<1>33. CASE ExitFlag
  BY <1>33 DEF ExitFlag
<1>34. CASE ExitSweep
  BY <1>34 DEF ExitSweep, Cleared
<1>35. CASE ProcessEnds
  BY <1>35 DEF ProcessEnds
<1>36. CASE UNCHANGED vars
  BY <1>36 DEF vars
<1>37. QED
  BY <1>1, <1>2, <1>3, <1>4, <1>5, <1>6, <1>7, <1>8, <1>9, <1>10, <1>11,
    <1>12, <1>13, <1>14, <1>15, <1>16, <1>17, <1>18, <1>19, <1>20, <1>21,
    <1>22, <1>23, <1>24, <1>25, <1>26, <1>27, <1>28, <1>29, <1>30, <1>31,
    <1>32, <1>33, <1>34, <1>35, <1>36 DEF Next, CallStep, HolderStep,
    StartStep, GatewayStep, RuntimeVerdict, StatusStep, Gone

\* Servers, mutations of the runtimes, benchmarks and deletions stay apart.
LEMMA UserStep == TypeOK /\ Mutexes /\ Processes /\ Users /\ [Next]_vars => Users'
<1> SUFFICES ASSUME TypeOK, Mutexes, Processes, Users, [Next]_vars PROVE Users'
  OBVIOUS
<1> USE CallsAssumption, SessionsAssumption DEF TypeOK, Mutexes, OpMutex,
    BusyExclusive, Processes, NoStrayServer, Users, RuntimeExclusive,
    BenchAlone, Mutating, Starting, Sessions, Lifecycles, Phases, Pcs,
    HoldingPcs, StartPcs, LaunchedPcs, ExclusivePcs
<1>1. ASSUME NEW c \in Calls, StartBegin(c) PROVE Users'
  BY <1>1 DEF StartBegin, Lock, Exiting, Goto
<1>2. ASSUME NEW c \in Calls, StartInvalid(c) PROVE Users'
  BY <1>2 DEF StartInvalid, Return, Goto
<1>3. ASSUME NEW c \in Calls, StartReset(c) PROVE Users'
  BY <1>3 DEF StartReset, Goto, Cleared
<1>4. ASSUME NEW c \in Calls, StartSpawn(c) PROVE Users'
  BY <1>4 DEF StartSpawn, Goto
<1>5. ASSUME NEW c \in Calls, StartSpawnFails(c) PROVE Users'
  BY <1>5 DEF StartSpawnFails, Return, Exiting, Goto
<1>6. ASSUME NEW c \in Calls, StartAttach(c) PROVE Users'
  BY <1>6 DEF StartAttach, Goto, Exiting
<1>7. ASSUME NEW c \in Calls, StartSeesExit(c) PROVE Users'
  BY <1>7 DEF StartSeesExit, Return, Cleared, Exiting, Goto
<1>8. ASSUME NEW c \in Calls, WaitReady(c) PROVE Users'
  BY <1>8 DEF WaitReady, Goto
<1>9. ASSUME NEW c \in Calls, WaitFails(c) PROVE Users'
  BY <1>9 DEF WaitFails, Goto
<1>10. ASSUME NEW c \in Calls, StartReady(c) PROVE Users'
  BY <1>10 DEF StartReady, Return, Exiting, Goto
<1>11. ASSUME NEW c \in Calls, StartFails(c) PROVE Users'
  BY <1>11 DEF StartFails, Return, Exiting, Goto
<1>12. ASSUME NEW c \in Calls, StopTake(c) PROVE Users'
  BY <1>12 DEF StopTake, Lock, Goto
<1>13. ASSUME NEW c \in Calls, StopKill(c) PROVE Users'
  BY <1>13 DEF StopKill, Return, Cleared, Goto
<1>14. ASSUME NEW c \in Calls, GatewayTake(c) PROVE Users'
  BY <1>14 DEF GatewayTake, Lock, Goto
<1>15. ASSUME NEW c \in Calls, GatewayRead(c) PROVE Users'
  BY <1>15 DEF GatewayRead, Goto
<1>16. ASSUME NEW c \in Calls, GatewayRefused(c) PROVE Users'
  BY <1>16 DEF GatewayRefused, Return, Goto
<1>17. ASSUME NEW c \in Calls, GatewayBound(c) PROVE Users'
  BY <1>17 DEF GatewayBound, Return, Goto
<1>18. ASSUME NEW c \in Calls, GatewayStop(c) PROVE Users'
  BY <1>18 DEF GatewayStop
<1>19. ASSUME NEW c \in Calls, ActivityStart(c) PROVE Users'
  BY <1>19 DEF ActivityStart, Goto
<1>20. ASSUME NEW c \in Calls, ActivityEnd(c) PROVE Users'
  BY <1>20 DEF ActivityEnd, Goto
<1>21. ASSUME NEW c \in Calls, ActivityEndRefused(c) PROVE Users'
  BY <1>21 DEF ActivityEndRefused, Goto
<1>22. ASSUME NEW c \in Calls, NEW k \in ExclusivePcs, ExclusiveBegin(c, k) PROVE Users'
  BY <1>22 DEF ExclusiveBegin, Lock, Blocks, Goto
<1>23. ASSUME NEW c \in Calls, ExclusiveEnd(c) PROVE Users'
  BY <1>23 DEF ExclusiveEnd, Return, Goto
<1>24. ASSUME NEW c \in Calls, RuntimeAcquire(c) PROVE Users'
  BY <1>24 DEF RuntimeAcquire, Goto
<1>25. ASSUME NEW c \in Calls, RuntimeCheck(c) PROVE Users'
  BY <1>25 DEF RuntimeCheck, Goto, Blocks
<1>26. ASSUME NEW c \in Calls, RuntimeRefused(c) PROVE Users'
  BY <1>26 DEF RuntimeRefused, Goto, Blocks
<1>27. ASSUME NEW c \in Calls, RuntimeDone(c) PROVE Users'
  BY <1>27 DEF RuntimeDone, Goto
<1>28. CASE IdleUnload
  BY <1>28 DEF IdleUnload, Cleared
<1>29. CASE StatusFindsExited
  BY <1>29 DEF StatusFindsExited, MarkCrashed, Cleared
<1>30. CASE StatusCannotInspect
  BY <1>30 DEF StatusCannotInspect, MarkCrashed, Cleared
<1>31. CASE StatusStillCrashed
  BY <1>31 DEF StatusStillCrashed
<1>32. ASSUME NEW s \in Sessions, ServerDies(s) PROVE Users'
  BY <1>32 DEF ServerDies
<1>33. CASE ExitFlag
  BY <1>33 DEF ExitFlag
<1>34. CASE ExitSweep
  BY <1>34 DEF ExitSweep, Cleared
<1>35. CASE ProcessEnds
  BY <1>35 DEF ProcessEnds
<1>36. CASE UNCHANGED vars
  BY <1>36 DEF vars
<1>37. QED
  BY <1>1, <1>2, <1>3, <1>4, <1>5, <1>6, <1>7, <1>8, <1>9, <1>10, <1>11,
    <1>12, <1>13, <1>14, <1>15, <1>16, <1>17, <1>18, <1>19, <1>20, <1>21,
    <1>22, <1>23, <1>24, <1>25, <1>26, <1>27, <1>28, <1>29, <1>30, <1>31,
    <1>32, <1>33, <1>34, <1>35, <1>36 DEF Next, CallStep, HolderStep,
    StartStep, GatewayStep, RuntimeVerdict, StatusStep, Gone

\* The gateway and the key file never outlive the launch they belong to.
LEMMA CompanionStep == TypeOK /\ Mutexes /\ Processes /\ Companions /\ [Next]_vars => Companions'
<1> SUFFICES ASSUME TypeOK, Mutexes, Processes, Companions, [Next]_vars PROVE Companions'
  OBVIOUS
<1> USE CallsAssumption, SessionsAssumption DEF TypeOK, Mutexes, OpMutex,
    Processes, StartTracked, Swept, ReadyIsServed, Companions, GatewayPending,
    GatewayMatchesServer, KeyFileScoped, Starting, Sessions, Lifecycles,
    Phases, Pcs, HoldingPcs, StartPcs, LaunchedPcs, ExclusivePcs
<1>1. ASSUME NEW c \in Calls, StartBegin(c) PROVE Companions'
  BY <1>1 DEF StartBegin, Lock, Exiting, Goto
<1>2. ASSUME NEW c \in Calls, StartInvalid(c) PROVE Companions'
  BY <1>2 DEF StartInvalid, Return, Goto
<1>3. ASSUME NEW c \in Calls, StartReset(c) PROVE Companions'
  BY <1>3 DEF StartReset, Goto, Cleared
<1>4. ASSUME NEW c \in Calls, StartSpawn(c) PROVE Companions'
  BY <1>4 DEF StartSpawn, Goto
<1>5. ASSUME NEW c \in Calls, StartSpawnFails(c) PROVE Companions'
  BY <1>5 DEF StartSpawnFails, Return, Exiting, Goto
<1>6. ASSUME NEW c \in Calls, StartAttach(c) PROVE Companions'
  BY <1>6 DEF StartAttach, Goto, Exiting
<1>7. ASSUME NEW c \in Calls, StartSeesExit(c) PROVE Companions'
  BY <1>7 DEF StartSeesExit, Return, Cleared, Exiting, Goto
<1>8. ASSUME NEW c \in Calls, WaitReady(c) PROVE Companions'
  BY <1>8 DEF WaitReady, Goto
<1>9. ASSUME NEW c \in Calls, WaitFails(c) PROVE Companions'
  BY <1>9 DEF WaitFails, Goto
<1>10. ASSUME NEW c \in Calls, StartReady(c) PROVE Companions'
  BY <1>10 DEF StartReady, Return, Exiting, Goto
<1>11. ASSUME NEW c \in Calls, StartFails(c) PROVE Companions'
  BY <1>11 DEF StartFails, Return, Exiting, Goto
<1>12. ASSUME NEW c \in Calls, StopTake(c) PROVE Companions'
  BY <1>12 DEF StopTake, Lock, Goto
<1>13. ASSUME NEW c \in Calls, StopKill(c) PROVE Companions'
  BY <1>13 DEF StopKill, Return, Cleared, Goto
<1>14. ASSUME NEW c \in Calls, GatewayTake(c) PROVE Companions'
  BY <1>14 DEF GatewayTake, Lock, Goto
<1>15. ASSUME NEW c \in Calls, GatewayRead(c) PROVE Companions'
  BY <1>15 DEF GatewayRead, Goto
<1>16. ASSUME NEW c \in Calls, GatewayRefused(c) PROVE Companions'
  BY <1>16 DEF GatewayRefused, Return, Goto
<1>17. ASSUME NEW c \in Calls, GatewayBound(c) PROVE Companions'
  BY <1>17 DEF GatewayBound, Return, Goto
<1>18. ASSUME NEW c \in Calls, GatewayStop(c) PROVE Companions'
  BY <1>18 DEF GatewayStop
<1>19. ASSUME NEW c \in Calls, ActivityStart(c) PROVE Companions'
  BY <1>19 DEF ActivityStart, Goto
<1>20. ASSUME NEW c \in Calls, ActivityEnd(c) PROVE Companions'
  BY <1>20 DEF ActivityEnd, Goto
<1>21. ASSUME NEW c \in Calls, ActivityEndRefused(c) PROVE Companions'
  BY <1>21 DEF ActivityEndRefused, Goto
<1>22. ASSUME NEW c \in Calls, NEW k \in ExclusivePcs, ExclusiveBegin(c, k) PROVE Companions'
  BY <1>22 DEF ExclusiveBegin, Lock, Blocks, Goto
<1>23. ASSUME NEW c \in Calls, ExclusiveEnd(c) PROVE Companions'
  BY <1>23 DEF ExclusiveEnd, Return, Goto
<1>24. ASSUME NEW c \in Calls, RuntimeAcquire(c) PROVE Companions'
  BY <1>24 DEF RuntimeAcquire, Goto
<1>25. ASSUME NEW c \in Calls, RuntimeCheck(c) PROVE Companions'
  BY <1>25 DEF RuntimeCheck, Goto, Blocks
<1>26. ASSUME NEW c \in Calls, RuntimeRefused(c) PROVE Companions'
  BY <1>26 DEF RuntimeRefused, Goto, Blocks
<1>27. ASSUME NEW c \in Calls, RuntimeDone(c) PROVE Companions'
  BY <1>27 DEF RuntimeDone, Goto
<1>28. CASE IdleUnload
  BY <1>28 DEF IdleUnload, Cleared
<1>29. CASE StatusFindsExited
  BY <1>29 DEF StatusFindsExited, MarkCrashed, Cleared
<1>30. CASE StatusCannotInspect
  BY <1>30 DEF StatusCannotInspect, MarkCrashed, Cleared
<1>31. CASE StatusStillCrashed
  BY <1>31 DEF StatusStillCrashed
<1>32. ASSUME NEW s \in Sessions, ServerDies(s) PROVE Companions'
  BY <1>32 DEF ServerDies
<1>33. CASE ExitFlag
  BY <1>33 DEF ExitFlag
<1>34. CASE ExitSweep
  BY <1>34 DEF ExitSweep, Cleared
<1>35. CASE ProcessEnds
  BY <1>35 DEF ProcessEnds
<1>36. CASE UNCHANGED vars
  BY <1>36 DEF vars
<1>37. QED
  BY <1>1, <1>2, <1>3, <1>4, <1>5, <1>6, <1>7, <1>8, <1>9, <1>10, <1>11,
    <1>12, <1>13, <1>14, <1>15, <1>16, <1>17, <1>18, <1>19, <1>20, <1>21,
    <1>22, <1>23, <1>24, <1>25, <1>26, <1>27, <1>28, <1>29, <1>30, <1>31,
    <1>32, <1>33, <1>34, <1>35, <1>36 DEF Next, CallStep, HolderStep,
    StartStep, GatewayStep, RuntimeVerdict, StatusStep, Gone

-------------------------------------------------------------------------------
(* Theorems *)

\* IInv holds in the initial state.
LEMMA IInvInit == Init => IInv
<1> SUFFICES ASSUME Init PROVE IInv
  OBVIOUS
<1>1. TypeOK
  BY TypeInit
<1>2. Mutexes
  BY CallsAssumption DEF Init, Mutexes, OpMutex, BusyExclusive, HoldingPcs, StartPcs,
    LaunchedPcs, ExclusivePcs
<1>3. Processes
  BY DEF Init, Processes, StartTracked, Swept, NoStrayServer, ReadyIsServed, LaunchedPcs
<1>4. Users
  BY DEF Init, Users, RuntimeExclusive, BenchAlone, Mutating
<1>5. Companions
  BY DEF Init, Companions, GatewayPending, GatewayMatchesServer, KeyFileScoped, LaunchedPcs
<1>6. QED
  BY <1>1, <1>2, <1>3, <1>4, <1>5 DEF IInv

\* IInv is inductive.
LEMMA IInvStep == IInv /\ [Next]_vars => IInv'
  BY TypeStep, MutexStep, ProcessStep, UserStep, CompanionStep DEF IInv

\* IInv holds in every reachable state.
THEOREM Invariance == Spec => []IInv
  BY IInvInit, IInvStep, PTL DEF Spec

\* Every variable of the back end stays in its domain.
THEOREM TypeCorrect == Spec => []TypeOK
<1>1. IInv => TypeOK
  BY DEF IInv
<1>2. QED
  BY <1>1, Invariance, PTL

\* No llama-server runs, and none is being started, while a command changes the
\* installed runtimes, for any number of concurrent commands.
THEOREM RuntimeExclusion == Spec => []RuntimeExclusive
<1>1. IInv => RuntimeExclusive
  BY DEF IInv, Users
<1>2. QED
  BY <1>1, Invariance, PTL

\* At most one command at a time is changing the runtimes or waiting to.
THEOREM BusyExclusion == Spec => []BusyExclusive
<1>1. IInv => BusyExclusive
  BY DEF IInv, Mutexes
<1>2. QED
  BY <1>1, Invariance, PTL

\* No llama-server runs beside a benchmark or the deletion of a model.
THEOREM BenchExclusion == Spec => []BenchAlone
<1>1. IInv => BenchAlone
  BY DEF IInv, Users
<1>2. QED
  BY <1>1, Invariance, PTL

\* Every running llama-server is tracked, or in the hands of the start that
\* launched it a moment ago.
THEOREM EveryServerTracked == Spec => []NoStrayServer
<1>1. IInv => NoStrayServer
  BY DEF IInv, Processes
<1>2. QED
  BY <1>1, Invariance, PTL

\* There are never two llama-servers: the tracked child and a freshly launched one
\* exclude each other, because a launch begins by killing the child.
THEOREM AtMostOneServer == Spec => []OneServer
<1>1. ASSUME IInv PROVE OneServer
  <2>1. ASSUME NEW s \in alive, NEW t \in alive PROVE s = t
    <3>1. CASE s = server.child /\ t = server.child
      BY <3>1
    <3>2. CASE \E c \in Calls : pc[c] = "spawned"
      <4>1. PICK c \in Calls : pc[c] = "spawned"
        BY <3>2
      <4>2. server.child = 0 /\ operation = c
        BY <1>1, <4>1 DEF IInv, Processes, StartTracked, Mutexes, OpMutex, HoldingPcs,
          StartPcs, LaunchedPcs
      <4>3. ASSUME NEW d \in Calls, pc[d] = "spawned" PROVE d = c
        BY <1>1, <4>2, <4>3 DEF IInv, Mutexes, OpMutex, HoldingPcs, StartPcs, LaunchedPcs
      <4>4. s # 0 /\ t # 0
        BY <1>1 DEF IInv, TypeOK, Sessions
      <4>5. QED
        BY <1>1, <4>2, <4>3, <4>4 DEF IInv, Processes, NoStrayServer
    <3>3. QED
      BY <1>1, <3>1, <3>2 DEF IInv, Processes, NoStrayServer
  <2>2. CASE alive = {}
    BY <2>2, FS_EmptySet DEF OneServer
  <2>3. CASE alive # {}
    <3>1. PICK s \in alive : TRUE
      BY <2>3
    <3>2. alive = {s}
      BY <2>1, <3>1
    <3>3. Cardinality({s}) = 1
      BY FS_Singleton, Zenon
    <3>4. QED
      BY <3>2, <3>3 DEF OneServer
  <2>4. QED
    BY <2>2, <2>3
<1>2. QED
  BY <1>1, Invariance, PTL

\* After the exit handler only a start that is still to look at the exit flag has
\* a process of its own.
THEOREM ExitIsClean == Spec => []ExitLeavesNothing
<1>1. ASSUME IInv PROVE ExitLeavesNothing
  <2>1. \A s \in alive : s # 0
    BY <1>1 DEF IInv, TypeOK, Sessions
  <2>2. QED
    BY <1>1, <2>1 DEF IInv, Processes, Swept, NoStrayServer, ExitLeavesNothing
<1>2. QED
  BY <1>1, Invariance, PTL

\* A ready server has a tracked child, with the key of its own launch.
THEOREM ReadyServed == Spec => []ReadyIsServed
<1>1. IInv => ReadyIsServed
  BY DEF IInv, Processes
<1>2. QED
  BY <1>1, Invariance, PTL

\* The gateway never forwards to a server with the key of another launch.
THEOREM GatewayCurrent == Spec => []GatewayMatchesServer
<1>1. IInv => GatewayMatchesServer
  BY DEF IInv, Companions
<1>2. QED
  BY <1>1, Invariance, PTL

\* The key file is gone once the start that wrote it has returned.
THEOREM KeyFileRemoved == Spec => []KeyFileScoped
<1>1. IInv => KeyFileScoped
  BY DEF IInv, Companions
<1>2. QED
  BY <1>1, Invariance, PTL

-------------------------------------------------------------------------------
(* Desktop implements RuntimeUse *)

\* Every step of the back end takes, releases or leaves alone the abstract lock.
LEMMA RefinementStep == IInv /\ [Next]_vars => [Abstract!Next]_User
<1> SUFFICES ASSUME IInv, [Next]_vars PROVE [Abstract!Next]_User
  OBVIOUS
<1>a. BusyExclusive /\ OpMutex /\ NoStrayServer /\ RuntimeExclusive
  BY DEF IInv, Mutexes, Processes, Users
<1>b. pc \in [Calls -> Pcs]
  BY DEF IInv, TypeOK
<1> USE <1>b, CallsAssumption DEF User, Mutating, Starting, Abstract!Next, Abstract!Take,
      Abstract!Release, Abstract!Kinds, StartPcs, LaunchedPcs
<1>1. ASSUME NEW c \in Calls, StartBegin(c) PROVE [Abstract!Next]_User
  BY <1>1, <1>a DEF StartBegin, Lock, Exiting, Goto, BusyExclusive
<1>2. ASSUME NEW c \in Calls, StartInvalid(c) PROVE [Abstract!Next]_User
  BY <1>2, <1>a DEF StartInvalid, Return, Goto, RuntimeExclusive
<1>3. ASSUME NEW c \in Calls, StartReset(c) PROVE [Abstract!Next]_User
  BY <1>3, <1>a DEF StartReset, Goto, Cleared, RuntimeExclusive
<1>4. ASSUME NEW c \in Calls, StartSpawn(c) PROVE [Abstract!Next]_User
  BY <1>4, <1>a DEF StartSpawn, Goto, RuntimeExclusive
<1>5. ASSUME NEW c \in Calls, StartSpawnFails(c) PROVE [Abstract!Next]_User
  BY <1>5, <1>a DEF StartSpawnFails, Return, Exiting, Goto, RuntimeExclusive
<1>6. ASSUME NEW c \in Calls, StartAttach(c) PROVE [Abstract!Next]_User
  BY <1>6, <1>a DEF StartAttach, Goto, Exiting, RuntimeExclusive
<1>7. ASSUME NEW c \in Calls, StartSeesExit(c) PROVE [Abstract!Next]_User
  BY <1>7, <1>a DEF StartSeesExit, Return, Cleared, Exiting, Goto,
    RuntimeExclusive
<1>8. ASSUME NEW c \in Calls, WaitReady(c) PROVE [Abstract!Next]_User
  BY <1>8, <1>a DEF WaitReady, Goto, RuntimeExclusive
<1>9. ASSUME NEW c \in Calls, WaitFails(c) PROVE [Abstract!Next]_User
  BY <1>9, <1>a DEF WaitFails, Goto, RuntimeExclusive
<1>10. ASSUME NEW c \in Calls, StartReady(c) PROVE [Abstract!Next]_User
  BY <1>10, <1>a DEF StartReady, Return, Exiting, Goto, RuntimeExclusive
<1>11. ASSUME NEW c \in Calls, StartFails(c) PROVE [Abstract!Next]_User
  BY <1>11, <1>a DEF StartFails, Return, Exiting, Goto, RuntimeExclusive
<1>12. ASSUME NEW c \in Calls, StopTake(c) PROVE [Abstract!Next]_User
  BY <1>12, <1>a DEF StopTake, Lock, Goto, RuntimeExclusive
<1>13. ASSUME NEW c \in Calls, StopKill(c) PROVE [Abstract!Next]_User
  BY <1>13, <1>a DEF StopKill, Return, Cleared, Goto, RuntimeExclusive
<1>14. ASSUME NEW c \in Calls, GatewayTake(c) PROVE [Abstract!Next]_User
  BY <1>14, <1>a DEF GatewayTake, Lock, Goto, RuntimeExclusive
<1>15. ASSUME NEW c \in Calls, GatewayRead(c) PROVE [Abstract!Next]_User
  BY <1>15, <1>a DEF GatewayRead, Goto, RuntimeExclusive
<1>16. ASSUME NEW c \in Calls, GatewayRefused(c) PROVE [Abstract!Next]_User
  BY <1>16, <1>a DEF GatewayRefused, Return, Goto, RuntimeExclusive
<1>17. ASSUME NEW c \in Calls, GatewayBound(c) PROVE [Abstract!Next]_User
  BY <1>17, <1>a DEF GatewayBound, Return, Goto, RuntimeExclusive
<1>18. ASSUME NEW c \in Calls, GatewayStop(c) PROVE [Abstract!Next]_User
  BY <1>18, <1>a DEF GatewayStop, RuntimeExclusive
<1>19. ASSUME NEW c \in Calls, ActivityStart(c) PROVE [Abstract!Next]_User
  BY <1>19, <1>a DEF ActivityStart, Goto, RuntimeExclusive
<1>20. ASSUME NEW c \in Calls, ActivityEnd(c) PROVE [Abstract!Next]_User
  BY <1>20, <1>a DEF ActivityEnd, Goto, RuntimeExclusive
<1>21. ASSUME NEW c \in Calls, ActivityEndRefused(c) PROVE [Abstract!Next]_User
  BY <1>21, <1>a DEF ActivityEndRefused, Goto, RuntimeExclusive
<1>22. ASSUME NEW c \in Calls, NEW k \in ExclusivePcs, ExclusiveBegin(c, k) PROVE [Abstract!Next]_User
  BY <1>22, <1>a DEF ExclusiveBegin, Lock, Blocks, Goto, RuntimeExclusive,
    ExclusivePcs
<1>23. ASSUME NEW c \in Calls, ExclusiveEnd(c) PROVE [Abstract!Next]_User
  BY <1>23, <1>a DEF ExclusiveEnd, Return, Goto, RuntimeExclusive, ExclusivePcs
<1>24. ASSUME NEW c \in Calls, RuntimeAcquire(c) PROVE [Abstract!Next]_User
  BY <1>24, <1>a DEF RuntimeAcquire, Goto, RuntimeExclusive
<1>25. ASSUME NEW c \in Calls, RuntimeCheck(c) PROVE [Abstract!Next]_User
  BY <1>25, <1>a DEF RuntimeCheck, Goto, Blocks, OpMutex, NoStrayServer,
    HoldingPcs, BusyExclusive
<1>26. ASSUME NEW c \in Calls, RuntimeRefused(c) PROVE [Abstract!Next]_User
  BY <1>26, <1>a DEF RuntimeRefused, Goto, Blocks, RuntimeExclusive
<1>27. ASSUME NEW c \in Calls, RuntimeDone(c) PROVE [Abstract!Next]_User
  BY <1>27, <1>a DEF RuntimeDone, Goto, BusyExclusive, RuntimeExclusive
<1>28. CASE IdleUnload
  BY <1>28, <1>a DEF IdleUnload, Cleared, RuntimeExclusive
<1>29. CASE StatusFindsExited
  BY <1>29, <1>a DEF StatusFindsExited, MarkCrashed, Cleared, RuntimeExclusive
<1>30. CASE StatusCannotInspect
  BY <1>30, <1>a DEF StatusCannotInspect, MarkCrashed, Cleared,
    RuntimeExclusive
<1>31. CASE StatusStillCrashed
  BY <1>31, <1>a DEF StatusStillCrashed, RuntimeExclusive
<1>32. ASSUME NEW s \in Sessions, ServerDies(s) PROVE [Abstract!Next]_User
  BY <1>32, <1>a DEF ServerDies, RuntimeExclusive
<1>33. CASE ExitFlag
  BY <1>33, <1>a DEF ExitFlag, RuntimeExclusive
<1>34. CASE ExitSweep
  BY <1>34, <1>a DEF ExitSweep, Cleared, RuntimeExclusive
<1>35. CASE ProcessEnds
  BY <1>35, <1>a DEF ProcessEnds, RuntimeExclusive
<1>36. CASE UNCHANGED vars
  BY <1>36 DEF vars
<1>37. QED
  BY <1>1, <1>2, <1>3, <1>4, <1>5, <1>6, <1>7, <1>8, <1>9, <1>10, <1>11,
    <1>12, <1>13, <1>14, <1>15, <1>16, <1>17, <1>18, <1>19, <1>20, <1>21,
    <1>22, <1>23, <1>24, <1>25, <1>26, <1>27, <1>28, <1>29, <1>30, <1>31,
    <1>32, <1>33, <1>34, <1>35, <1>36 DEF Next, CallStep, HolderStep,
    StartStep, GatewayStep, RuntimeVerdict, StatusStep, Gone

\* The mutex, the flag and the lifecycle check together are a lock on the runtimes
\* directory: a server and a mutation never hand it to each other directly.
THEOREM Implementation == Spec => RuntimesAreLocked
<1>1. Init => Abstract!Init
  BY DEF Init, Abstract!Init, User, Mutating, Starting, StartPcs, LaunchedPcs
<1>2. QED
  BY <1>1, Invariance, RefinementStep, PTL DEF Spec, RuntimesAreLocked, Abstract!Spec

\* A runtime mutation and a server, two mutations, a benchmark and a server, a deletion
\* and a server never run at the same time.
THEOREM ExclusionHolds == Spec => []Exclusion
BY RuntimeExclusion, BusyExclusion, BenchExclusion, PTL DEF Exclusion

\* No process and no key file is without the call or the state that answers for it.
THEOREM ServersOwned == Spec => []ServerOwned
BY AtMostOneServer, EveryServerTracked, ExitIsClean, KeyFileRemoved, PTL DEF ServerOwned

-------------------------------------------------------------------------------
(* The request counter, for any set of calls and any number of launches:    *)
(* `Requests' says who can be in flight on which server; with IInv it is    *)
(* inductive, and the counter and the idle watchdog follow from it.  Calls  *)
(* may be infinite: only finitely many requests have started.               *)

Chatting == {c \in Calls : pc[c] = "chatting"}

\* The requests of a session are those of the tracked child: never of a server
\* that is only being launched.
Attributed ==
  /\ server.child <= launches
  /\ \A c \in Chatting :
       /\ sess[c] # 0 /\ sess[c] <= launches
       /\ sess[c] = server.child => server.lifecycle = "Ready"
  /\ \A d \in Calls : pc[d] = "spawned" =>
       sess[d] <= launches /\ \A c \in Chatting : sess[c] # sess[d]

Counted ==
  server.child # 0 =>
    /\ server.active_requests <= Cardinality(InFlight)
    /\ ~stale_end => server.active_requests = Cardinality(InFlight)

Requests == IsFiniteSet(Chatting) /\ Attributed /\ Counted

\* A step that starts and ends no request, launches no server, and changes the
\* server only by taking it away or by making it ready.
Keeps ==
  /\ \A c \in Calls : pc'[c] = "chatting" <=> pc[c] = "chatting"
  /\ \A c \in Calls : pc[c] = "chatting" => sess'[c] = sess[c]
  /\ \A c \in Calls : pc'[c] = "spawned" => pc[c] = "spawned" /\ sess'[c] = sess[c]
  /\ launches' = launches
  /\ \/ server'.child = 0
     \/ /\ server'.child = server.child /\ server'.active_requests = server.active_requests
        /\ stale_end' = stale_end
        /\ server.lifecycle = "Ready" => server'.lifecycle = "Ready"

-----------------------------------------------------------------------------
\* The requests in flight are among those that have started.
LEMMA InFlightFinite == Requests => IsFiniteSet(InFlight) /\ Cardinality(InFlight) \in Nat
<1>1. InFlight \subseteq Chatting
  BY DEF InFlight, Chatting
<1>2. QED
  BY <1>1, FS_Subset, FS_CardinalityType DEF Requests

\* Such a step keeps the account.
LEMMA KeepsCounts == TypeOK /\ Requests /\ Keeps => Requests'
<1> SUFFICES ASSUME TypeOK, Requests, Keeps PROVE Requests'
  OBVIOUS
<1>1. Chatting' = Chatting
  BY DEF Keeps, Chatting
<1>2. Attributed'
  BY DEF Keeps, Chatting, Requests, Attributed, TypeOK, Sessions
<1>3. Counted'
  <2>1. CASE server'.child = 0
    BY <2>1 DEF Counted
  <2>2. CASE server'.child = server.child /\ server'.active_requests = server.active_requests /\ stale_end' = stale_end
    <3>1. InFlight' = InFlight
      BY <2>2 DEF Keeps, InFlight
    <3>2. QED
      BY <2>2, <3>1 DEF Counted, Requests
  <2>3. QED
    BY <2>1, <2>2 DEF Keeps
<1>4. QED
  BY <1>1, <1>2, <1>3 DEF Requests

\* A launch takes a session number nobody has.
LEMMA StartSpawnCounts == ASSUME NEW c \in Calls, IInv, Requests, StartSpawn(c) PROVE Requests'
<1> USE SessionsAssumption DEF StartSpawn, Goto, TypeOK, Sessions, IInv
<1>1. Chatting' = Chatting
  BY DEF Chatting
<1>2. Attributed'
  BY <1>1 DEF Requests, Attributed, Chatting
<1>3. InFlight' = InFlight
  BY DEF InFlight
<1>4. QED
  BY <1>1, <1>2, <1>3 DEF Requests, Counted

\* The server of a launch has no request when it is attached.
LEMMA StartAttachCounts == ASSUME NEW c \in Calls, IInv, Requests, StartAttach(c) PROVE Requests'
<1> USE SessionsAssumption DEF StartAttach, Goto, TypeOK, Sessions, IInv
<1>1. Chatting' = Chatting
  BY DEF Chatting
<1>2. \A d \in Chatting : sess[d] # sess[c]
  BY DEF Requests, Attributed
<1>3. Attributed'
  BY <1>1, <1>2 DEF Requests, Attributed, Chatting
<1>4. InFlight' = {}
  BY <1>2 DEF InFlight, Chatting
<1>5. Counted'
  BY <1>4, FS_EmptySet DEF Counted
<1>6. QED
  BY <1>1, <1>3, <1>5 DEF Requests

\* A request that starts is counted on the server that is ready.
LEMMA ActivityStartCounts == ASSUME NEW c \in Calls, IInv, Requests, ActivityStart(c) PROVE Requests'
<1> USE CallsAssumption, SessionsAssumption DEF ActivityStart, Goto, TypeOK, Sessions, IInv
<1>1. Chatting' = Chatting \cup {c} /\ c \notin InFlight
  BY DEF Chatting, InFlight
<1>2. IsFiniteSet(Chatting')
  BY <1>1, FS_AddElement DEF Requests
<1>3. server.child # 0
  BY DEF Processes, ReadyIsServed
<1>4. \A d \in Calls : pc[d] # "spawned"
  BY DEF Mutexes, OpMutex, HoldingPcs, StartPcs, LaunchedPcs
<1>5. Attributed'
  BY <1>1, <1>3, <1>4 DEF Requests, Attributed, Chatting
<1>6. InFlight' = InFlight \cup {c}
  BY DEF InFlight
<1>7. Cardinality(InFlight') = Cardinality(InFlight) + 1
  BY <1>1, <1>6, InFlightFinite, FS_AddElement
<1>8. server'.active_requests = server.active_requests + 1 /\ stale_end' = stale_end
  OBVIOUS
<1>9. Counted'
  BY <1>3, <1>7, <1>8, InFlightFinite DEF Requests, Counted
<1>10. QED
  BY <1>2, <1>5, <1>9 DEF Requests

\* A request that ends is taken off the server that is ready, its own or not.
LEMMA ActivityEndCounts == ASSUME NEW c \in Calls, IInv, Requests, ActivityEnd(c) PROVE Requests'
<1> USE CallsAssumption, SessionsAssumption DEF ActivityEnd, Goto, TypeOK, Sessions, IInv
<1>1. Chatting' = Chatting \ {c}
  BY DEF Chatting
<1>2. IsFiniteSet(Chatting')
  BY <1>1, FS_RemoveElement DEF Requests
<1>3. Attributed'
  BY <1>1 DEF Requests, Attributed, Chatting
<1>4. server.child # 0
  BY DEF Processes, ReadyIsServed
<1>5. /\ server.active_requests \in Nat
      /\ server'.active_requests = IF server.active_requests = 0 THEN 0 ELSE server.active_requests - 1
  OBVIOUS
<1>6. Counted'
  <2>1. CASE sess[c] = server.child
    <3>1. c \in InFlight /\ InFlight' = InFlight \ {c}
      BY <2>1 DEF InFlight
    <3>2. Cardinality(InFlight') = Cardinality(InFlight) - 1
      BY <3>1, InFlightFinite, FS_RemoveElement
    <3>3. Cardinality(InFlight) # 0
      BY <3>1, InFlightFinite, FS_EmptySet
    <3>4. stale_end' = stale_end
      BY <2>1
    <3>5. QED
      BY <1>4, <1>5, <3>2, <3>3, <3>4, InFlightFinite DEF Requests, Counted
  <2>2. CASE sess[c] # server.child
    <3>1. InFlight' = InFlight
      BY <2>2 DEF InFlight
    <3>2. stale_end'
      BY <2>2
    <3>3. QED
      BY <1>4, <1>5, <3>1, <3>2, InFlightFinite DEF Requests, Counted
  <2>3. QED
    BY <2>1, <2>2
<1>7. QED
  BY <1>2, <1>3, <1>6 DEF Requests

\* A request whose end is refused was in flight on no tracked server.
LEMMA ActivityEndRefusedCounts == ASSUME NEW c \in Calls, IInv, Requests, ActivityEndRefused(c) PROVE Requests'
<1> USE CallsAssumption, SessionsAssumption DEF ActivityEndRefused, Goto, TypeOK, Sessions, IInv
<1>1. Chatting' = Chatting \ {c}
  BY DEF Chatting
<1>2. IsFiniteSet(Chatting')
  BY <1>1, FS_RemoveElement DEF Requests
<1>3. Attributed'
  BY <1>1 DEF Requests, Attributed, Chatting
<1>4. sess[c] # server.child
  BY DEF Requests, Attributed, Chatting
<1>5. InFlight' = InFlight
  BY <1>4 DEF InFlight
<1>6. QED
  BY <1>2, <1>3, <1>5 DEF Requests, Counted

\* The account is kept by every step.
LEMMA RequestsStep == IInv /\ Requests /\ [Next]_vars => Requests'
<1> SUFFICES ASSUME IInv, Requests, [Next]_vars PROVE Requests'
  OBVIOUS
<1> USE CallsAssumption, SessionsAssumption DEF IInv, TypeOK, Processes, StartTracked, Sessions,
    HoldingPcs, StartPcs, LaunchedPcs, ExclusivePcs, Pcs
<1>1. ASSUME NEW c \in Calls, StartBegin(c) PROVE Keeps
  BY <1>1 DEF Keeps, StartBegin, Lock, Exiting, Goto
<1>2. ASSUME NEW c \in Calls, StartInvalid(c) PROVE Keeps
  BY <1>2 DEF Keeps, StartInvalid, Return, Goto
<1>3. ASSUME NEW c \in Calls, StartReset(c) PROVE Keeps
  BY <1>3 DEF Keeps, StartReset, Goto, Cleared
<1>4. ASSUME NEW c \in Calls, StartSpawn(c) PROVE Requests'
  BY <1>4, StartSpawnCounts DEF IInv
<1>5. ASSUME NEW c \in Calls, StartSpawnFails(c) PROVE Keeps
  BY <1>5 DEF Keeps, StartSpawnFails, Return, Exiting, Goto
<1>6. ASSUME NEW c \in Calls, StartAttach(c) PROVE Requests'
  BY <1>6, StartAttachCounts DEF IInv
<1>7. ASSUME NEW c \in Calls, StartSeesExit(c) PROVE Keeps
  BY <1>7 DEF Keeps, StartSeesExit, Return, Cleared, Exiting, Goto
<1>8. ASSUME NEW c \in Calls, WaitReady(c) PROVE Keeps
  BY <1>8 DEF Keeps, WaitReady, Goto
<1>9. ASSUME NEW c \in Calls, WaitFails(c) PROVE Keeps
  BY <1>9 DEF Keeps, WaitFails, Goto
<1>10. ASSUME NEW c \in Calls, StartReady(c) PROVE Keeps
  BY <1>10 DEF Keeps, StartReady, Return, Exiting, Goto
<1>11. ASSUME NEW c \in Calls, StartFails(c) PROVE Keeps
  BY <1>11 DEF Keeps, StartFails, Return, Exiting, Goto
<1>12. ASSUME NEW c \in Calls, StopTake(c) PROVE Keeps
  BY <1>12 DEF Keeps, StopTake, Lock, Goto
<1>13. ASSUME NEW c \in Calls, StopKill(c) PROVE Keeps
  BY <1>13 DEF Keeps, StopKill, Return, Cleared, Goto
<1>14. ASSUME NEW c \in Calls, GatewayTake(c) PROVE Keeps
  BY <1>14 DEF Keeps, GatewayTake, Lock, Goto
<1>15. ASSUME NEW c \in Calls, GatewayRead(c) PROVE Keeps
  BY <1>15 DEF Keeps, GatewayRead, Goto
<1>16. ASSUME NEW c \in Calls, GatewayRefused(c) PROVE Keeps
  BY <1>16 DEF Keeps, GatewayRefused, Return, Goto
<1>17. ASSUME NEW c \in Calls, GatewayBound(c) PROVE Keeps
  BY <1>17 DEF Keeps, GatewayBound, Return, Goto
<1>18. ASSUME NEW c \in Calls, GatewayStop(c) PROVE Keeps
  BY <1>18 DEF Keeps, GatewayStop
<1>19. ASSUME NEW c \in Calls, ActivityStart(c) PROVE Requests'
  BY <1>19, ActivityStartCounts DEF IInv
<1>20. ASSUME NEW c \in Calls, ActivityEnd(c) PROVE Requests'
  BY <1>20, ActivityEndCounts DEF IInv
<1>21. ASSUME NEW c \in Calls, ActivityEndRefused(c) PROVE Requests'
  BY <1>21, ActivityEndRefusedCounts DEF IInv
<1>22. ASSUME NEW c \in Calls, NEW k \in ExclusivePcs, ExclusiveBegin(c, k) PROVE Keeps
  BY <1>22 DEF Keeps, ExclusiveBegin, Lock, Blocks, Goto
<1>23. ASSUME NEW c \in Calls, ExclusiveEnd(c) PROVE Keeps
  BY <1>23 DEF Keeps, ExclusiveEnd, Return, Goto
<1>24. ASSUME NEW c \in Calls, RuntimeAcquire(c) PROVE Keeps
  BY <1>24 DEF Keeps, RuntimeAcquire, Goto
<1>25. ASSUME NEW c \in Calls, RuntimeCheck(c) PROVE Keeps
  BY <1>25 DEF Keeps, RuntimeCheck, Goto, Blocks
<1>26. ASSUME NEW c \in Calls, RuntimeRefused(c) PROVE Keeps
  BY <1>26 DEF Keeps, RuntimeRefused, Goto, Blocks
<1>27. ASSUME NEW c \in Calls, RuntimeDone(c) PROVE Keeps
  BY <1>27 DEF Keeps, RuntimeDone, Goto
<1>28. ASSUME IdleUnload PROVE Keeps
  BY <1>28 DEF Keeps, IdleUnload, Cleared
<1>29. ASSUME StatusFindsExited PROVE Keeps
  BY <1>29 DEF Keeps, StatusFindsExited, MarkCrashed, Cleared
<1>30. ASSUME StatusCannotInspect PROVE Keeps
  BY <1>30 DEF Keeps, StatusCannotInspect, MarkCrashed, Cleared
<1>31. ASSUME StatusStillCrashed PROVE Keeps
  BY <1>31 DEF Keeps, StatusStillCrashed
<1>32. ASSUME NEW s \in Sessions, ServerDies(s) PROVE Keeps
  BY <1>32 DEF Keeps, ServerDies
<1>33. ASSUME ExitFlag PROVE Keeps
  BY <1>33 DEF Keeps, ExitFlag
<1>34. ASSUME ExitSweep PROVE Keeps
  BY <1>34 DEF Keeps, ExitSweep, Cleared
<1>35. ASSUME ProcessEnds PROVE Keeps
  BY <1>35 DEF Keeps, ProcessEnds
<1>36. ASSUME UNCHANGED vars PROVE Keeps
  BY <1>36 DEF Keeps, vars
<1>37. CASE Keeps
  BY <1>37, KeepsCounts
<1>38. QED
  BY <1>1, <1>2, <1>3, <1>4, <1>5, <1>6, <1>7, <1>8, <1>9, <1>10, <1>11,
    <1>12, <1>13, <1>14, <1>15, <1>16, <1>17, <1>18, <1>19, <1>20, <1>21,
    <1>22, <1>23, <1>24, <1>25, <1>26, <1>27, <1>28, <1>29, <1>30, <1>31,
    <1>32, <1>33, <1>34, <1>35, <1>36, <1>37 DEF Next, CallStep, HolderStep,
    StartStep, GatewayStep, RuntimeVerdict, StatusStep, Gone

\* Who is in flight on which server, and the counter, in every reachable state.
THEOREM RequestsInvariance == Spec => [](IInv /\ Requests)
<1>1. Init => Requests
  <2> SUFFICES ASSUME Init PROVE Requests
    OBVIOUS
  <2>1. Chatting = {} /\ InFlight = {}
    BY DEF Init, Chatting, InFlight
  <2>2. Attributed /\ Counted
    BY <2>1 DEF Init, Attributed, Counted
  <2>3. QED
    BY <2>1, <2>2, FS_EmptySet DEF Requests
<1>2. QED
  BY <1>1, IInvInit, IInvStep, RequestsStep, PTL DEF Spec

\* The counter of a ready server is the number of requests in flight on it, as
\* long as no late "end" of an earlier server was counted; it is never larger.
THEOREM CounterExact == Spec => []RequestsCounted
<1>1. IInv /\ Requests => RequestsCounted
  BY DEF IInv, Processes, ReadyIsServed, Requests, Counted, RequestsCounted
<1>2. QED
  BY <1>1, RequestsInvariance, PTL

\* The idle watchdog takes no server away from a request in flight.
THEOREM UnloadIsSafe == Spec => UnloadSparesRequests
<1>1. ASSUME IInv, Requests, [Next]_vars PROVE [UnloadSparesRequestsStep]_vars
  <2> SUFFICES ASSUME server.lifecycle = "Ready", operation = NoCall, phase' = phase,
                      server'.lifecycle = "Stopped", ~stale_end
               PROVE InFlight = {}
    BY DEF UnloadSparesRequestsStep
  <2>1. IdleUnload
    <3> USE <1>1, CallsAssumption DEF IInv, TypeOK, Mutexes, OpMutex, HoldingPcs, StartPcs, LaunchedPcs,
        ExclusivePcs
    <3>1. \A c \in Calls : pc[c] \notin HoldingPcs
      OBVIOUS
    <3>2. ASSUME NEW c \in Calls, HolderStep(c) PROVE FALSE
      BY <3>1, <3>2 DEF HolderStep, StartStep, GatewayStep, StartInvalid, StartReset, StartSpawn,
        StartSpawnFails, StartAttach, StartSeesExit, WaitReady, WaitFails, StartReady, StartFails,
        StopKill, GatewayRead, GatewayRefused, GatewayBound, ExclusiveEnd
    <3>3. ASSUME NEW c \in Calls, CallStep(c) PROVE FALSE
      BY <3>2, <3>3 DEF CallStep, StartBegin, StopTake, GatewayTake, GatewayStop, ActivityStart,
        ActivityEnd, ActivityEndRefused, ExclusiveBegin, RuntimeAcquire, RuntimeVerdict,
        RuntimeCheck, RuntimeRefused, RuntimeDone
    <3>4. QED
      BY <3>3 DEF Next, StatusStep, StatusFindsExited, StatusCannotInspect, MarkCrashed, Cleared,
        StatusStillCrashed, ServerDies, ExitFlag, ExitSweep, ProcessEnds, Gone, vars
  <2>2. Cardinality(InFlight) = 0
    BY <1>1, <2>1 DEF IdleUnload, IInv, Processes, ReadyIsServed, Requests, Counted
  <2>3. QED
    BY <1>1, <2>2, InFlightFinite, FS_EmptySet
<1>2. QED
  BY <1>1, RequestsInvariance, PTL DEF Spec, UnloadSparesRequests

\* The status, the gateway and the request counter speak of the server that runs.
THEOREM StateFollowsServer == Spec => []ServerFollowed
BY ReadyServed, GatewayCurrent, CounterExact, PTL DEF ServerFollowed
==============================================================================
