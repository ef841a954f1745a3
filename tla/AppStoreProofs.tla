---------------------------- MODULE AppStoreProofs ----------------------------
(***************************************************************************)
(* Proofs about AppStore for any number of handlers, any choice of them    *)
(* and any preference.  Two facts carry them: whoever awaits a command     *)
(* holds operationInFlight, and every operation a handler may still call   *)
(* is one it has not called (Ahead), which bounds statusGeneration.        *)
(***************************************************************************)
EXTENDS AppStore, FiniteSetTheorems, TLAPS

Ops == {"start", "stop"}
Plans == {<<>>, <<"start">>, <<"stop">>, <<"stop", "start">>, <<"save", "start">>,
          <<"stop", "save", "start">>}
Planned(todo) == {todo[i] : i \in 1 .. Len(todo)}

-------------------------------------------------------------------------------
(* The inductive invariant *)

StoreTypes ==
  /\ shown \in States \cup {"stopping"} /\ source \in {"store", "poll", "stale poll"}
  /\ busy \in BOOLEAN /\ inFlight \in BOOLEAN /\ visible \in BOOLEAN
  /\ revision \in 0 .. 2 /\ auto \in [on : BOOLEAN, used : BOOLEAN]
  /\ server \in States

Polls == [at : {"none", "sent", "read"}, gen : Nat,
          state : States, owner : 0 .. MaxClicks, fresh : BOOLEAN]
PollTypes == gen \in Nat /\ poll \in Polls

Runs == [kind : AllKinds \cup {"none"},
         at : {"idle", "asks", "ready", "awaits", "refreshes", "done"},
         seen : States \cup {"stopping"}, todo : Plans, ok : BOOLEAN, did : SUBSET Ops]
Handlers == click \in [Clicks -> Runs]
Calls ==
  /\ call \in [Clicks -> [op : {"none", "start", "stop"},
                          at : {"none", "sent", "works", "ok", "error"}]]
  /\ \A c \in Clicks : click[c].at = "awaits" => call[c].at # "none"

\* Whoever awaits a command holds operationInFlight, and nobody else does.
AwaitsInFlight ==
  /\ \A c \in Clicks : click[c].at = "awaits" => inFlight
  /\ OneOperation

\* A poll that was overtaken has an older generation.
Dated(q, g) == q.gen <= g /\ (q.fresh \/ (q.at = "read" /\ q.gen < g))
PollIsDated ==
  /\ Dated(poll, gen)
  /\ NoStaleStatus

\* The operations that may still be called, each by one handler and once.
Ahead == {a \in Clicks \X Ops : \/ click[a[1]].at = "idle"
                                \/ a[2] \in Planned(click[a[1]].todo)}
GenerationsLast == gen + Cardinality(Ahead) <= 2 * MaxClicks

Types == StoreTypes /\ PollTypes /\ Handlers /\ Calls
IInv == Types /\ AwaitsInFlight /\ PollIsDated /\ GenerationsLast

-------------------------------------------------------------------------------
(* The plans of the handlers, and what is left of them *)

\* A handler that goes on to its next step has a plan again, without that step.
LEMMA PlanGoesOn ==
  ASSUME NEW todo \in Plans, todo # <<>>
  PROVE  /\ Tail(todo) \in Plans
         /\ Head(todo) \in Planned(todo)
         /\ Planned(Tail(todo)) \subseteq Planned(todo) \ {Head(todo)}
<1>1. CASE todo = <<"start">>
  BY <1>1 DEF Plans, Planned
<1>2. CASE todo = <<"stop">>
  BY <1>2 DEF Plans, Planned
<1>3. CASE todo = <<"stop", "start">>
  BY <1>3 DEF Plans, Planned
<1>4. CASE todo = <<"save", "start">>
  BY <1>4 DEF Plans, Planned
<1>5. CASE todo = <<"stop", "save", "start">>
  BY <1>5 DEF Plans, Planned
<1> QED
  BY <1>1, <1>2, <1>3, <1>4, <1>5 DEF Plans

\* Steps makes plans.
LEMMA StepsArePlans ==
  ASSUME NEW kind, NEW seen
  PROVE  Steps(kind, seen) \in Plans
BY DEF Steps, Toggle, SelectAndStart, ApplyRestart, StartButton, Plans

\* An empty plan calls nothing.
LEMMA NothingPlanned == Planned(<<>>) = {} /\ <<>> \in Plans
BY DEF Planned, Plans

\* As many operations are ahead as two for each handler, at most.
LEMMA AheadIsFinite ==
  /\ IsFiniteSet(Ahead)
  /\ Cardinality(Ahead) \in Nat
  /\ Cardinality(Ahead) <= 2 * MaxClicks
<1>1. IsFiniteSet(Clicks) /\ Cardinality(Clicks) = MaxClicks
  <2>1. 1 \in Int /\ MaxClicks \in Int
    BY MaxAssumption
  <2> QED
    BY <2>1, MaxAssumption, FS_Interval DEF Clicks
<1>2. IsFiniteSet(Ops) /\ Cardinality(Ops) = 2
  <2>1. IsFiniteSet({}) /\ Cardinality({}) = 0
    BY FS_EmptySet
  <2>2. IsFiniteSet({} \cup {"start"}) /\ Cardinality({} \cup {"start"}) = 1
    BY <2>1, FS_AddElement
  <2>3. IsFiniteSet(({} \cup {"start"}) \cup {"stop"})
        /\ Cardinality(({} \cup {"start"}) \cup {"stop"}) = 2
    BY <2>2, FS_AddElement
  <2>4. Ops = ({} \cup {"start"}) \cup {"stop"}
    BY DEF Ops
  <2> QED
    BY <2>3, <2>4
<1>3. IsFiniteSet(Clicks \X Ops) /\ Cardinality(Clicks \X Ops) = MaxClicks * 2
  BY <1>1, <1>2, FS_Product
<1>4. Ahead \subseteq Clicks \X Ops
  BY DEF Ahead
<1>5. IsFiniteSet(Ahead) /\ Cardinality(Ahead) <= Cardinality(Clicks \X Ops)
  BY <1>3, <1>4, FS_Subset
<1>6. Cardinality(Ahead) \in Nat
  BY <1>5, FS_CardinalityType
<1> QED
  BY <1>3, <1>5, <1>6, MaxAssumption

-------------------------------------------------------------------------------
(* Every step preserves the invariant *)

\* What a step must not disturb so that the operations ahead only shrink.
LEMMA AheadShrinks ==
  ASSUME Ahead' \subseteq Ahead, gen \in Nat, gen' = gen, GenerationsLast
  PROVE  GenerationsLast'
<1>1. IsFiniteSet(Ahead) /\ Cardinality(Ahead) \in Nat
  BY AheadIsFinite
<1>2. IsFiniteSet(Ahead') /\ Cardinality(Ahead') <= Cardinality(Ahead)
  BY <1>1, FS_Subset
<1>3. Cardinality(Ahead') \in Nat
  BY <1>2, FS_CardinalityType
<1> QED
  BY <1>1, <1>2, <1>3, MaxAssumption DEF GenerationsLast

\* An operation that is called is one less ahead.
LEMMA AheadIsCalled ==
  ASSUME NEW a \in Ahead, Ahead' \subseteq Ahead \ {a},
         gen \in Nat, gen' = gen + 1, GenerationsLast
  PROVE  GenerationsLast'
<1>1. IsFiniteSet(Ahead) /\ Cardinality(Ahead) \in Nat
  BY AheadIsFinite
<1>2. IsFiniteSet(Ahead \ {a}) /\ Cardinality(Ahead \ {a}) = Cardinality(Ahead) - 1
  BY <1>1, FS_RemoveElement
<1>3. IsFiniteSet(Ahead') /\ Cardinality(Ahead') <= Cardinality(Ahead \ {a})
  BY <1>2, FS_Subset
<1>4. Cardinality(Ahead') \in Nat
  BY <1>3, FS_CardinalityType
<1> QED
  BY <1>1, <1>2, <1>3, <1>4, MaxAssumption DEF GenerationsLast

\* The invariant gives the bound of the generation.
LEMMA GenerationIsBounded ==
  ASSUME gen \in Nat, GenerationsLast
  PROVE  gen \in 0 .. 2 * MaxClicks
BY AheadIsFinite, MaxAssumption DEF GenerationsLast

\* Nobody's poll is one.
LEMMA NoPollIsOne ==
  NoPoll \in Polls /\ NoPoll.at = "none" /\ NoPoll.gen = 0 /\ NoPoll.fresh
BY MaxAssumption DEF NoPoll, Polls, States

\* A handler that has not run and one that is over are.
LEMMA RestIsOne ==
  /\ Rest \in Runs /\ Rest.at = "idle" /\ Rest.todo = <<>>
  /\ Over \in Runs /\ Over.at = "done" /\ Over.todo = <<>>
BY NothingPlanned DEF Rest, Over, Runs, AllKinds, States, Ops

\* At first nothing has happened.
LEMMA InitInv == Init => IInv
<1> SUFFICES ASSUME Init PROVE IInv
  OBVIOUS
<1> USE MaxAssumption, NothingPlanned DEF Init
<1>1. StoreTypes
  <2>1. auto \in [on : BOOLEAN, used : BOOLEAN]
    BY PreferenceAssumption, Zenon
  <2>2. revision \in 0 .. 2
    OBVIOUS
  <2> QED
    BY <2>1, <2>2 DEF StoreTypes, States
<1>2. PollTypes
  BY NoPollIsOne DEF PollTypes
<1>3. Handlers
  BY RestIsOne DEF Handlers
<1>4. Calls
  BY RestIsOne DEF Calls, NoCall
<1>5. GenerationsLast
  BY AheadIsFinite DEF GenerationsLast
<1>6. AwaitsInFlight /\ PollIsDated
  BY NoPollIsOne, RestIsOne DEF AwaitsInFlight, PollIsDated, Dated, NoStaleStatus, OneOperation
<1> QED
  BY <1>1, <1>2, <1>3, <1>4, <1>5, <1>6 DEF IInv, Types

-------------------------------------------------------------------------------
(* What the steps of a handler do to it *)

\* c is in its plan, where it was or further.
Moves(c, r) ==
  /\ r \in Runs /\ r.at # "idle" /\ click' = [click EXCEPT ![c] = r]
  /\ click[c].at = "idle" \/ Planned(r.todo) \subseteq Planned(click[c].todo)

LEMMA Moved ==
  ASSUME Handlers, NEW c \in Clicks, NEW r, Moves(c, r)
  PROVE  /\ Handlers'
         /\ click'[c] = r
         /\ \A d \in Clicks \ {c} : click'[d] = click[d]
BY DEF Handlers, Moves

\* Whatever a handler does that calls no command leaves it awaiting none.
LEMMA MovesOn ==
  ASSUME Types, NEW c \in Clicks,
         \/ Click(c) \/ Confirm(c) \/ AutoStart(c) \/ Skips(c) \/ Saves(c)
         \/ Refreshed(c) \/ Finish(c) \/ Returns(c) \/ TimesOut(c)
  PROVE  \E r \in Runs : Moves(c, r) /\ r.at # "awaits"
<1>1. click[c] \in Runs
  BY DEF Types, Handlers
<1>2. (Moves(c, Over) /\ Over.at # "awaits") \/ click' # [click EXCEPT ![c] = Over]
  BY RestIsOne, NothingPlanned DEF Moves
<1>3. ASSUME NEW a \in {"asks", "ready", "refreshes"}, NEW ok \in BOOLEAN,
             click' = [click EXCEPT ![c].at = a, ![c].ok = ok]
      PROVE  \E r \in Runs : Moves(c, r) /\ r.at # "awaits"
  <2> DEFINE r == [click[c] EXCEPT !.at = a, !.ok = ok]
  <2>1. r \in Runs /\ r.at = a /\ r.todo = click[c].todo
    BY <1>1 DEF Runs
  <2>2. click' = [click EXCEPT ![c] = r]
    BY <1>3 DEF Types, Handlers
  <2> QED
    BY <2>1, <2>2 DEF Moves
<1>4. ASSUME NEW seen \in States \cup {"stopping"}, NEW kind \in AllKinds,
             NEW a \in {"asks", "ready"}, NEW todo \in Plans, click[c].at = "idle",
             click' = [click EXCEPT ![c] = [Rest EXCEPT !.kind = kind, !.seen = seen,
                                                          !.todo = todo, !.at = a]]
      PROVE  \E r \in Runs : Moves(c, r) /\ r.at # "awaits"
  <2> DEFINE r == [Rest EXCEPT !.kind = kind, !.seen = seen, !.todo = todo, !.at = a]
  <2>1. r \in Runs /\ r.at = a
    BY RestIsOne DEF Runs
  <2> QED
    BY <1>4, <2>1 DEF Moves
<1>5. ASSUME click[c].at = "ready", click[c].todo # <<>>,
             click' = [click EXCEPT ![c] = Pop(c)]
      PROVE  \E r \in Runs : Moves(c, r) /\ r.at # "awaits"
  <2>1. click[c].todo \in Plans
    BY <1>1 DEF Runs
  <2>2. /\ Tail(click[c].todo) \in Plans
        /\ Planned(Tail(click[c].todo)) \subseteq Planned(click[c].todo)
    BY <1>5, <2>1, PlanGoesOn
  <2>3. Pop(c) \in Runs /\ Pop(c).at = "ready" /\ Pop(c).todo = Tail(click[c].todo)
    BY <1>1, <1>5, <2>2 DEF Pop, Runs
  <2> QED
    BY <1>5, <2>2, <2>3 DEF Moves
<1>6. CASE Click(c)
  <2>1. PICK kind \in Kinds \ {"unload"} :
          /\ Turn(c)
          /\ click' = [click EXCEPT ![c] = [Rest EXCEPT !.kind = kind, !.seen = shown,
               !.todo = Steps(kind, shown),
               !.at = IF kind = "switch" /\ shown = "running" THEN "asks" ELSE "ready"]]
    BY <1>6 DEF Click
  <2>2. kind \in AllKinds /\ Steps(kind, shown) \in Plans /\ click[c].at = "idle"
    BY <2>1, KindsAssumption, StepsArePlans DEF Turn
  <2>3. shown \in States \cup {"stopping"}
    BY DEF Types, StoreTypes
  <2> DEFINE a == IF kind = "switch" /\ shown = "running" THEN "asks" ELSE "ready"
  <2>4. a \in {"asks", "ready"}
    OBVIOUS
  <2> HIDE DEF a
  <2> QED
    BY <1>4, <2>1, <2>2, <2>3, <2>4 DEF a
<1>7. CASE Confirm(c)
  <2>1. click[c].ok \in BOOLEAN /\ [click[c] EXCEPT !.at = "ready"]
                                    = [click[c] EXCEPT !.at = "ready", !.ok = click[c].ok]
    BY <1>1 DEF Runs
  <2>2. \/ click' = [click EXCEPT ![c] = [click[c] EXCEPT !.at = "ready", !.ok = click[c].ok]]
        \/ click' = [click EXCEPT ![c] = Over]
    BY <1>7, <2>1 DEF Confirm
  <2>3. \/ click' = [click EXCEPT ![c].at = "ready", ![c].ok = click[c].ok]
        \/ click' = [click EXCEPT ![c] = Over]
    BY <2>2 DEF Types, Handlers
  <2> QED
    BY <1>2, <1>3, <2>1, <2>3, RestIsOne
<1>8. CASE AutoStart(c)
  <2>1. /\ click[c].at = "idle" /\ shown \in States \cup {"stopping"}
        /\ "start" \in AllKinds /\ <<"start">> \in Plans
        /\ click' = [click EXCEPT ![c] = [Rest EXCEPT !.kind = "start", !.seen = shown,
                                                        !.todo = <<"start">>, !.at = "ready"]]
    BY <1>8 DEF AutoStart, Turn, AllKinds, Plans, Types, StoreTypes
  <2> QED
    BY <1>4, <2>1
<1>9. CASE Skips(c)
  BY <1>5, <1>9 DEF Skips, Next1
<1>10. CASE Saves(c)
  BY <1>2, <1>5, <1>10, RestIsOne DEF Saves, Next1
<1>11. CASE Refreshed(c)
  <2>1. click[c].ok \in BOOLEAN /\ [click[c] EXCEPT !.at = "ready"]
                                    = [click[c] EXCEPT !.at = "ready", !.ok = click[c].ok]
    BY <1>1 DEF Runs
  <2>2. \/ click' = [click EXCEPT ![c] = [click[c] EXCEPT !.at = "ready", !.ok = click[c].ok]]
        \/ click' = [click EXCEPT ![c] = Over]
    BY <1>11, <2>1 DEF Refreshed
  <2>3. \/ click' = [click EXCEPT ![c].at = "ready", ![c].ok = click[c].ok]
        \/ click' = [click EXCEPT ![c] = Over]
    BY <2>2 DEF Types, Handlers
  <2> QED
    BY <1>2, <1>3, <2>1, <2>3, RestIsOne
<1>12. CASE Finish(c)
  BY <1>2, <1>12, RestIsOne DEF Finish
<1>13. CASE Returns(c) \/ TimesOut(c)
  BY <1>3, <1>13 DEF Returns, TimesOut, Settle
<1> QED
  BY <1>6, <1>7, <1>8, <1>9, <1>10, <1>11, <1>12, <1>13

\* A handler that calls an operation has it behind it, and awaits it alone.
LEMMA CallsOperation ==
  ASSUME Types, NEW c \in Clicks, StartOrStop(c)
  PROVE  \E op \in Ops, r \in Runs :
           /\ ~inFlight /\ Begins(c, op)
           /\ Moves(c, r) /\ r.at = "awaits" /\ click[c].at = "ready"
           /\ op \in Planned(click[c].todo) /\ op \notin Planned(r.todo)
<1>1. PICK op \in Ops : ~Moot(c, op) /\ Begins(c, op)
  BY DEF StartOrStop, Ops
<1>2. click[c] \in Runs /\ click[c].todo \in Plans
  BY DEF Types, Handlers, Runs
<1>3. click[c].at = "ready" /\ click[c].todo # <<>> /\ Head(click[c].todo) = op /\ ~inFlight
  BY <1>1 DEF Begins, Next1, Moot
<1>4. /\ Tail(click[c].todo) \in Plans /\ op \in Planned(click[c].todo)
      /\ Planned(Tail(click[c].todo)) \subseteq Planned(click[c].todo) \ {op}
  BY <1>2, <1>3, PlanGoesOn
<1> DEFINE r == [Pop(c) EXCEPT !.at = "awaits", !.did = Pop(c).did \cup {op}]
<1>5. r \in Runs /\ r.at = "awaits" /\ r.todo = Tail(click[c].todo)
  BY <1>2, <1>4 DEF Pop, Runs
<1>6. Moves(c, r)
  BY <1>1, <1>4, <1>5 DEF Moves, Begins
<1> QED
  BY <1>1, <1>3, <1>4, <1>5, <1>6

-------------------------------------------------------------------------------
(* Every step preserves the invariant *)

\* The store's values stay in their domains.
LEMMA StoreTypesStep == Types /\ [Next]_vars => StoreTypes'
<1> SUFFICES ASSUME Types, [Next]_vars PROVE StoreTypes'
  OBVIOUS
<1>1. CASE LoadConfig
  <2>1. revision' \in 0 .. 2
    BY <1>1 DEF LoadConfig
  <2> QED
    BY <1>1, <2>1 DEF LoadConfig, status, flags, Types, StoreTypes
<1>2. CASE SetAutoStart
  <2>1. auto' \in [on : BOOLEAN, used : BOOLEAN]
    BY <1>2, PreferenceAssumption DEF SetAutoStart, Types, StoreTypes
  <2> QED
    BY <1>2, <2>1 DEF SetAutoStart, status, flags, Types, StoreTypes
<1>3. CASE PollTick
  BY <1>3 DEF PollTick, CanPoll, status, flags, Types, StoreTypes, States
<1>4. CASE PollReads
  BY <1>4 DEF PollReads, status, flags, Types, StoreTypes, States
<1>5. CASE PollAnswers
  <2>1. poll.state \in States
    BY DEF Types, PollTypes, Polls
  <2>2. UNCHANGED <<flags, visible, revision, auto, server>>
    BY <1>5 DEF PollAnswers
  <2>3. (shown' \in States /\ source' \in {"poll", "stale poll"}) \/ UNCHANGED status
    BY <1>5, <2>1 DEF PollAnswers, Fresh
  <2> QED
    BY <2>2, <2>3 DEF status, flags, Types, StoreTypes
<1>6. CASE PollFails
  BY <1>6 DEF PollFails, status, flags, Types, StoreTypes, States
<1>7. CASE Hide
  BY <1>7 DEF Hide, status, flags, Types, StoreTypes, States
<1>8. ASSUME NEW c \in Clicks, Click(c) PROVE StoreTypes'
  BY <1>8 DEF Click, store, status, flags, Types, StoreTypes, States
<1>9. ASSUME NEW c \in Clicks, Confirm(c) PROVE StoreTypes'
  BY <1>9 DEF Confirm, Over, store, status, flags, Types, StoreTypes, States
<1>10. ASSUME NEW c \in Clicks, AutoStart(c) PROVE StoreTypes'
  BY <1>10 DEF AutoStart, status, flags, Types, StoreTypes, States
<1>11. ASSUME NEW c \in Clicks, Skips(c) PROVE StoreTypes'
  BY <1>11 DEF Skips, Next1, Pop, store, status, flags, Types, StoreTypes, States
<1>12. ASSUME NEW c \in Clicks, StartOrStop(c) PROVE StoreTypes'
  <2>1. /\ shown' \in {"starting", "stopping"} /\ source' = "store" /\ busy' = TRUE
        /\ inFlight' = TRUE /\ UNCHANGED <<visible, revision, auto, server>>
    BY <1>12 DEF StartOrStop, Begins
  <2> QED
    BY <2>1 DEF Types, StoreTypes, States
<1>13. ASSUME NEW c \in Clicks, Saves(c) PROVE StoreTypes'
  <2>1. revision' \in 0 .. 2
    BY <1>13 DEF Saves
  <2> QED
    BY <1>13, <2>1 DEF Saves, status, flags, Types, StoreTypes
<1>14. ASSUME NEW c \in Clicks, Refreshed(c) PROVE StoreTypes'
  BY <1>14 DEF Refreshed, Over, status, Types, StoreTypes, States
<1>15. ASSUME NEW c \in Clicks, Finish(c) PROVE StoreTypes'
  BY <1>15 DEF Finish, Over, store, status, flags, Types, StoreTypes, States
<1>16. ASSUME NEW c \in Clicks, Returns(c) PROVE StoreTypes'
  <2>1. /\ shown' \in {"failed", "stopped", shown} /\ source' = "store" /\ inFlight' = FALSE
        /\ UNCHANGED <<busy, visible, revision, auto, server>>
    BY <1>16 DEF Returns, Settle
  <2> QED
    BY <2>1 DEF Types, StoreTypes, States
<1>17. ASSUME NEW c \in Clicks, TimesOut(c) PROVE StoreTypes'
  <2>1. /\ shown' \in {"failed", "stopped", shown} /\ source' = "store" /\ inFlight' = FALSE
        /\ UNCHANGED <<busy, visible, revision, auto, server>>
    BY <1>17 DEF TimesOut, Settle
  <2> QED
    BY <2>1 DEF Types, StoreTypes, States
<1>18. ASSUME NEW c \in Clicks, Takes(c) PROVE StoreTypes'
  BY <1>18 DEF Takes, Done, store, status, flags, Types, StoreTypes, States
<1>19. ASSUME NEW c \in Clicks, Ends(c) PROVE StoreTypes'
  BY <1>19 DEF Ends, Done, store, status, flags, Types, StoreTypes, States
<1>20. CASE Dies
  BY <1>20 DEF Dies, store, status, flags, Types, StoreTypes, States
<1>21. CASE Unload
  BY <1>21 DEF Unload, store, status, flags, Types, StoreTypes, States
<1>22. CASE UNCHANGED vars
  BY <1>22 DEF vars, status, flags, Types, StoreTypes, States
<1> QED
  BY <1>1, <1>2, <1>3, <1>4, <1>5, <1>6, <1>7, <1>8, <1>9, <1>10, <1>11, <1>12, <1>13, <1>14, <1>15, <1>16, <1>17, <1>18, <1>19, <1>20, <1>21, <1>22 DEF Next, Handler

\* So do the generation and the poll.
LEMMA PollTypesStep == Types /\ [Next]_vars => PollTypes'
<1> SUFFICES ASSUME Types, [Next]_vars PROVE PollTypes'
  OBVIOUS
<1>1. CASE LoadConfig
  BY <1>1 DEF LoadConfig, status, flags, Types, PollTypes
<1>2. CASE SetAutoStart
  BY <1>2 DEF SetAutoStart, status, flags, Types, PollTypes
<1>3. CASE PollTick
  <2>1. [NoPoll EXCEPT !.at = "sent", !.gen = gen] \in Polls
    BY NoPollIsOne DEF Polls, Types, PollTypes
  <2> QED
    BY <1>3, <2>1 DEF PollTick, flags, Types, PollTypes
<1>4. CASE PollReads
  <2>1. poll' \in Polls
    BY <1>4 DEF PollReads, Polls, Types, PollTypes, StoreTypes
  <2> QED
    BY <1>4, <2>1 DEF PollReads, flags, Types, PollTypes
<1>5. CASE PollAnswers
  BY <1>5, NoPollIsOne DEF PollAnswers, flags, Types, PollTypes
<1>6. CASE PollFails
  BY <1>6, NoPollIsOne DEF PollFails, flags, Types, PollTypes
<1>7. CASE Hide
  BY <1>7 DEF Hide, status, flags, Types, PollTypes
<1>8. ASSUME NEW c \in Clicks, Click(c) PROVE PollTypes'
  BY <1>8 DEF Click, store, status, flags, Types, PollTypes
<1>9. ASSUME NEW c \in Clicks, Confirm(c) PROVE PollTypes'
  BY <1>9 DEF Confirm, Over, store, status, flags, Types, PollTypes
<1>10. ASSUME NEW c \in Clicks, AutoStart(c) PROVE PollTypes'
  BY <1>10 DEF AutoStart, status, flags, Types, PollTypes
<1>11. ASSUME NEW c \in Clicks, Skips(c) PROVE PollTypes'
  BY <1>11 DEF Skips, Next1, Pop, store, status, flags, Types, PollTypes
<1>12. ASSUME NEW c \in Clicks, StartOrStop(c) PROVE PollTypes'
  <2>1. gen' = gen + 1 /\ poll' = [poll EXCEPT !.fresh = poll.at # "read"]
    BY <1>12 DEF StartOrStop, Begins
  <2>2. poll' \in Polls
    BY <2>1 DEF Polls, Types, PollTypes
  <2> QED
    BY <2>1, <2>2 DEF Types, PollTypes
<1>13. ASSUME NEW c \in Clicks, Saves(c) PROVE PollTypes'
  BY <1>13 DEF Saves, Next1, Pop, Over, status, flags, Types, PollTypes
<1>14. ASSUME NEW c \in Clicks, Refreshed(c) PROVE PollTypes'
  BY <1>14 DEF Refreshed, Over, status, Types, PollTypes
<1>15. ASSUME NEW c \in Clicks, Finish(c) PROVE PollTypes'
  BY <1>15 DEF Finish, Over, store, status, flags, Types, PollTypes
<1>16. ASSUME NEW c \in Clicks, Returns(c) PROVE PollTypes'
  <2>0. c \in 0 .. MaxClicks
    BY MaxAssumption DEF Clicks
  <2>1. [NoPoll EXCEPT !.at = "sent", !.gen = gen, !.owner = c] \in Polls
    BY <2>0, NoPollIsOne DEF Polls, Types, PollTypes
  <2> QED
    BY <1>16, <2>1 DEF Returns, Settle, Types, PollTypes
<1>17. ASSUME NEW c \in Clicks, TimesOut(c) PROVE PollTypes'
  <2>0. c \in 0 .. MaxClicks
    BY MaxAssumption DEF Clicks
  <2>1. [NoPoll EXCEPT !.at = "sent", !.gen = gen, !.owner = c] \in Polls
    BY <2>0, NoPollIsOne DEF Polls, Types, PollTypes
  <2> QED
    BY <1>17, <2>1 DEF TimesOut, Settle, Types, PollTypes
<1>18. ASSUME NEW c \in Clicks, Takes(c) PROVE PollTypes'
  BY <1>18 DEF Takes, Done, store, status, flags, Types, PollTypes
<1>19. ASSUME NEW c \in Clicks, Ends(c) PROVE PollTypes'
  BY <1>19 DEF Ends, Done, store, status, flags, Types, PollTypes
<1>20. CASE Dies
  BY <1>20 DEF Dies, store, status, flags, Types, PollTypes
<1>21. CASE Unload
  BY <1>21 DEF Unload, store, status, flags, Types, PollTypes
<1>22. CASE UNCHANGED vars
  BY <1>22 DEF vars, status, flags, Types, PollTypes
<1> QED
  BY <1>1, <1>2, <1>3, <1>4, <1>5, <1>6, <1>7, <1>8, <1>9, <1>10, <1>11, <1>12, <1>13, <1>14, <1>15, <1>16, <1>17, <1>18, <1>19, <1>20, <1>21, <1>22 DEF Next, Handler

\* A handler always has a plan before it.
LEMMA HandlersStep == Types /\ [Next]_vars => Handlers'
<1> SUFFICES ASSUME Types, [Next]_vars PROVE Handlers'
  OBVIOUS
<1>1. ASSUME NEW c \in Clicks,
             \/ Click(c) \/ Confirm(c) \/ AutoStart(c) \/ Skips(c) \/ Saves(c)
             \/ Refreshed(c) \/ Finish(c) \/ Returns(c) \/ TimesOut(c)
      PROVE  Handlers'
  BY <1>1, MovesOn, Moved DEF Types
<1>2. ASSUME NEW c \in Clicks, StartOrStop(c) PROVE Handlers'
  BY <1>2, CallsOperation, Moved DEF Types
<1>3. ASSUME NEW c \in Clicks, Takes(c) \/ Ends(c) PROVE Handlers'
  BY <1>3 DEF Takes, Ends, Types, Handlers
<1>4. CASE \/ LoadConfig \/ SetAutoStart \/ PollTick \/ PollReads \/ PollAnswers
         \/ PollFails \/ Hide \/ Dies \/ Unload \/ UNCHANGED vars
  BY <1>4 DEF LoadConfig, SetAutoStart, PollTick, PollReads, PollAnswers, PollFails,
             Hide, Dies, Unload, vars, store,
             Types, Handlers
<1> QED
  BY <1>1, <1>2, <1>3, <1>4 DEF Next, Handler

\* Every operation is called once.
LEMMA GenerationsLastStep == Types /\ GenerationsLast /\ [Next]_vars => GenerationsLast'
<1> SUFFICES ASSUME Types, GenerationsLast, [Next]_vars PROVE GenerationsLast'
  OBVIOUS
<1>1. ASSUME NEW c \in Clicks,
             \/ Click(c) \/ Confirm(c) \/ AutoStart(c) \/ Skips(c) \/ Saves(c)
             \/ Refreshed(c) \/ Finish(c) \/ Returns(c) \/ TimesOut(c)
      PROVE  GenerationsLast'
  <2>1. PICK r \in Runs : Moves(c, r)
    BY <1>1, MovesOn
  <2>2. click'[c] = r /\ \A d \in Clicks \ {c} : click'[d] = click[d]
    BY <2>1, Moved DEF Types
  <2>3. Ahead' \subseteq Ahead
    BY <2>1, <2>2 DEF Ahead, Moves
  <2>4. gen' = gen
    BY <1>1 DEF Click, Confirm, AutoStart, Skips, Saves, Refreshed, Finish, Returns, TimesOut,
                Settle, store, flags
  <2> QED
    BY <2>3, <2>4, AheadShrinks DEF Types, PollTypes
<1>2. ASSUME NEW c \in Clicks, StartOrStop(c) PROVE GenerationsLast'
  <2>1. PICK op \in Ops, r \in Runs :
          /\ Begins(c, op) /\ Moves(c, r) /\ r.at = "awaits" /\ click[c].at = "ready"
          /\ op \in Planned(click[c].todo) /\ op \notin Planned(r.todo)
    BY <1>2, CallsOperation
  <2>2. click'[c] = r /\ \A d \in Clicks \ {c} : click'[d] = click[d]
    BY <2>1, Moved DEF Types
  <2>3. <<c, op>> \in Ahead /\ Ahead' \subseteq Ahead \ {<<c, op>>}
    BY <2>1, <2>2 DEF Ahead, Moves
  <2>4. gen' = gen + 1
    BY <2>1 DEF Begins
  <2> QED
    BY <2>3, <2>4, AheadIsCalled DEF Types, PollTypes
<1>3. CASE UNCHANGED <<click, gen>>
  BY <1>3 DEF GenerationsLast, Ahead
<1>4. ASSUME NEW c \in Clicks, Takes(c) \/ Ends(c) PROVE UNCHANGED <<click, gen>>
  BY <1>4 DEF Takes, Ends, store, flags
<1>5. ASSUME \/ LoadConfig \/ SetAutoStart \/ PollTick \/ PollReads \/ PollAnswers
         \/ PollFails \/ Hide \/ Dies \/ Unload \/ UNCHANGED vars
      PROVE UNCHANGED <<click, gen>>
  BY <1>5 DEF LoadConfig, SetAutoStart, PollTick, PollReads, PollAnswers, PollFails,
             Hide, Dies, Unload, vars, store, flags
<1> QED
  BY <1>1, <1>2, <1>3, <1>4, <1>5 DEF Next, Handler

\* Only one handler awaits a command, and holds the flag.
LEMMA AwaitsInFlightStep == Types /\ AwaitsInFlight /\ [Next]_vars => AwaitsInFlight'
<1> SUFFICES ASSUME Types, AwaitsInFlight, [Next]_vars PROVE AwaitsInFlight'
  OBVIOUS
<1>1. ASSUME NEW c \in Clicks,
             \/ Click(c) \/ Confirm(c) \/ AutoStart(c) \/ Skips(c) \/ Saves(c)
             \/ Refreshed(c) \/ Finish(c) \/ Returns(c) \/ TimesOut(c)
      PROVE  AwaitsInFlight'
  <2>1. PICK r \in Runs : Moves(c, r) /\ r.at # "awaits"
    BY <1>1, MovesOn
  <2>2. click'[c].at # "awaits" /\ \A d \in Clicks \ {c} : click'[d] = click[d]
    BY <2>1, Moved DEF Types
  <2>3. inFlight' = inFlight \/ click[c].at = "awaits"
    BY <1>1 DEF Click, Confirm, AutoStart, Skips, Saves, Refreshed, Finish, Returns, TimesOut,
                store, flags
  <2> QED
    BY <2>2, <2>3 DEF AwaitsInFlight, OneOperation
<1>2. ASSUME NEW c \in Clicks, StartOrStop(c) PROVE AwaitsInFlight'
  <2>1. PICK op \in Ops, r \in Runs : ~inFlight /\ Begins(c, op) /\ Moves(c, r)
    BY <1>2, CallsOperation
  <2>2. \A d \in Clicks \ {c} : click'[d] = click[d]
    BY <2>1, Moved DEF Types
  <2>3. inFlight'
    BY <2>1 DEF Begins
  <2> QED
    BY <2>1, <2>2, <2>3 DEF AwaitsInFlight, OneOperation
<1>3. CASE UNCHANGED <<click, inFlight>>
  BY <1>3 DEF AwaitsInFlight, OneOperation
<1>4. ASSUME NEW c \in Clicks, Takes(c) \/ Ends(c) PROVE UNCHANGED <<click, inFlight>>
  BY <1>4 DEF Takes, Ends, store, flags
<1>5. ASSUME \/ LoadConfig \/ SetAutoStart \/ PollTick \/ PollReads \/ PollAnswers
         \/ PollFails \/ Hide \/ Dies \/ Unload \/ UNCHANGED vars
      PROVE UNCHANGED <<click, inFlight>>
  BY <1>5 DEF LoadConfig, SetAutoStart, PollTick, PollReads, PollAnswers, PollFails,
             Hide, Dies, Unload, vars, store, flags
<1> QED
  BY <1>1, <1>2, <1>3, <1>4, <1>5 DEF Next, Handler

\* Whoever awaits a command has one on its way.
LEMMA CallsStep == Types /\ [Next]_vars => Calls'
<1> SUFFICES ASSUME Types, [Next]_vars PROVE Calls'
  OBVIOUS
<1>1. ASSUME NEW c \in Clicks,
             \/ Click(c) \/ Confirm(c) \/ AutoStart(c) \/ Skips(c) \/ Saves(c)
             \/ Refreshed(c) \/ Finish(c) \/ Returns(c) \/ TimesOut(c)
      PROVE  Calls'
  <2>1. PICK r \in Runs : Moves(c, r) /\ r.at # "awaits"
    BY <1>1, MovesOn
  <2>2. click'[c].at # "awaits" /\ \A d \in Clicks \ {c} : click'[d] = click[d]
    BY <2>1, Moved DEF Types
  <2>3. call' = call \/ call' = [call EXCEPT ![c] = NoCall]
    BY <1>1 DEF Click, Confirm, AutoStart, Skips, Saves, Refreshed, Finish, Returns, TimesOut,
                Settle, Types, Calls
  <2> QED
    BY <2>2, <2>3 DEF Types, Calls, NoCall
<1>2. ASSUME NEW c \in Clicks, StartOrStop(c) PROVE Calls'
  <2>1. PICK op \in Ops, r \in Runs : Begins(c, op) /\ Moves(c, r)
    BY <1>2, CallsOperation
  <2>2. \A d \in Clicks \ {c} : click'[d] = click[d]
    BY <2>1, Moved DEF Types
  <2>3. call' = [call EXCEPT ![c] = [op |-> op, at |-> "sent"]]
    BY <2>1 DEF Begins
  <2> QED
    BY <2>2, <2>3 DEF Types, Calls, Ops
<1>3. ASSUME NEW c \in Clicks, Takes(c) PROVE Calls'
  BY <1>3 DEF Takes, Done, Types, Calls, NoCall
<1>4. ASSUME NEW c \in Clicks, Ends(c) PROVE Calls'
  BY <1>4 DEF Ends, Done, Types, Calls, NoCall
<1>5. CASE \/ LoadConfig \/ SetAutoStart \/ PollTick \/ PollReads \/ PollAnswers
         \/ PollFails \/ Hide \/ Dies \/ Unload \/ UNCHANGED vars
  BY <1>5 DEF LoadConfig, SetAutoStart, PollTick, PollReads, PollAnswers, PollFails,
             Hide, Dies, Unload, vars, store,
             Types, Calls
<1> QED
  BY <1>1, <1>2, <1>3, <1>4, <1>5 DEF Next, Handler

\* A new poll, and none, are dated; one that an operation overtakes stays dated;
\* and one of the current generation has not been overtaken.
LEMMA FreshIsDated ==
  ASSUME NEW g \in Nat
  PROVE  /\ Dated(NoPoll, g) /\ Dated([NoPoll EXCEPT !.at = "sent", !.gen = g], g)
         /\ \A c : Dated([NoPoll EXCEPT !.at = "sent", !.gen = g, !.owner = c], g)
BY DEF Dated, NoPoll

LEMMA OvertakenIsDated ==
  ASSUME NEW g \in Nat, NEW q \in Polls, Dated(q, g)
  PROVE  Dated([q EXCEPT !.fresh = q.at # "read"], g + 1)
BY DEF Dated, Polls

LEMMA CurrentIsFresh ==
  ASSUME NEW g \in Nat, NEW q \in Polls, Dated(q, g), q.gen = g
  PROVE  q.fresh
BY DEF Dated, Polls

\* What a poll read before an operation was called is not shown after it.
LEMMA PollIsDatedStep == Types /\ PollIsDated /\ [Next]_vars => PollIsDated'
<1> SUFFICES ASSUME Types, PollIsDated, [Next]_vars PROVE PollIsDated'
  OBVIOUS
<1>1. CASE LoadConfig
  BY <1>1 DEF LoadConfig, status, flags, PollIsDated, NoStaleStatus
<1>2. CASE SetAutoStart
  BY <1>2 DEF SetAutoStart, status, flags, PollIsDated, NoStaleStatus
<1>3. CASE PollTick
  <2>1. poll' = [NoPoll EXCEPT !.at = "sent", !.gen = gen] /\ UNCHANGED <<gen, source>>
    BY <1>3 DEF PollTick, status, flags
  <2> QED
    BY <2>1, FreshIsDated DEF Types, PollTypes, PollIsDated, NoStaleStatus
<1>4. CASE PollReads
  <2>1. UNCHANGED <<gen, source>> /\ poll' = [poll EXCEPT !.at = "read", !.state = server]
    BY <1>4 DEF PollReads, status, flags
  <2>2. Dated(poll', gen')
    BY <1>4, <2>1 DEF PollReads, Types, PollTypes, Polls, PollIsDated, Dated
  <2> QED
    BY <2>1, <2>2 DEF PollIsDated, NoStaleStatus
<1>5. CASE PollAnswers
  <2>1. poll' = NoPoll /\ gen' = gen
    BY <1>5 DEF PollAnswers, flags
  <2>2. CASE Current
    <3>1. poll.fresh
      BY <2>2, CurrentIsFresh DEF Types, PollTypes, PollIsDated, Current
    <3>2. source' = "poll"
      BY <1>5, <2>2, <3>1 DEF PollAnswers, Fresh
    <3> QED
      BY <2>1, <3>2, FreshIsDated DEF Types, PollTypes, PollIsDated, NoStaleStatus
  <2>3. CASE ~Current
    <3>1. source' = source
      BY <1>5, <2>3 DEF PollAnswers, status
    <3> QED
      BY <2>1, <3>1, FreshIsDated DEF Types, PollTypes, PollIsDated, NoStaleStatus
  <2> QED
    BY <2>2, <2>3
<1>6. CASE PollFails
  <2>1. poll' = NoPoll /\ UNCHANGED <<gen, source>>
    BY <1>6 DEF PollFails, status, flags
  <2> QED
    BY <2>1, FreshIsDated DEF Types, PollTypes, PollIsDated, NoStaleStatus
<1>7. CASE Hide
  BY <1>7 DEF Hide, status, flags, PollIsDated, NoStaleStatus
<1>8. ASSUME NEW c \in Clicks, Click(c) PROVE PollIsDated'
  BY <1>8 DEF Click, store, status, flags, PollIsDated, NoStaleStatus
<1>9. ASSUME NEW c \in Clicks, Confirm(c) PROVE PollIsDated'
  BY <1>9 DEF Confirm, Over, store, status, flags, PollIsDated, NoStaleStatus
<1>10. ASSUME NEW c \in Clicks, AutoStart(c) PROVE PollIsDated'
  BY <1>10 DEF AutoStart, status, flags, PollIsDated, NoStaleStatus
<1>11. ASSUME NEW c \in Clicks, Skips(c) PROVE PollIsDated'
  BY <1>11 DEF Skips, Next1, Pop, store, status, flags, PollIsDated, NoStaleStatus
<1>12. ASSUME NEW c \in Clicks, StartOrStop(c) PROVE PollIsDated'
  <2>1. /\ gen' = gen + 1 /\ poll' = [poll EXCEPT !.fresh = poll.at # "read"]
        /\ source' = "store"
    BY <1>12 DEF StartOrStop, Begins
  <2> QED
    BY <2>1, OvertakenIsDated DEF Types, PollTypes, PollIsDated, NoStaleStatus
<1>13. ASSUME NEW c \in Clicks, Saves(c) PROVE PollIsDated'
  BY <1>13 DEF Saves, Next1, Pop, Over, status, flags, PollIsDated, NoStaleStatus
<1>14. ASSUME NEW c \in Clicks, Refreshed(c) PROVE PollIsDated'
  BY <1>14 DEF Refreshed, Over, status, PollIsDated, NoStaleStatus
<1>15. ASSUME NEW c \in Clicks, Finish(c) PROVE PollIsDated'
  BY <1>15 DEF Finish, Over, store, status, flags, PollIsDated, NoStaleStatus
<1>16. ASSUME NEW c \in Clicks, Returns(c) PROVE PollIsDated'
  <2>1. /\ source' = "store" /\ gen' = gen
        /\ poll' = poll \/ poll' = [NoPoll EXCEPT !.at = "sent", !.gen = gen, !.owner = c]
    BY <1>16 DEF Returns, Settle
  <2> QED
    BY <2>1, FreshIsDated DEF Types, PollTypes, PollIsDated, NoStaleStatus
<1>17. ASSUME NEW c \in Clicks, TimesOut(c) PROVE PollIsDated'
  <2>1. /\ source' = "store" /\ gen' = gen
        /\ poll' = poll \/ poll' = [NoPoll EXCEPT !.at = "sent", !.gen = gen, !.owner = c]
    BY <1>17 DEF TimesOut, Settle
  <2> QED
    BY <2>1, FreshIsDated DEF Types, PollTypes, PollIsDated, NoStaleStatus
<1>18. ASSUME NEW c \in Clicks, Takes(c) PROVE PollIsDated'
  BY <1>18 DEF Takes, Done, store, status, flags, PollIsDated, NoStaleStatus
<1>19. ASSUME NEW c \in Clicks, Ends(c) PROVE PollIsDated'
  BY <1>19 DEF Ends, Done, store, status, flags, PollIsDated, NoStaleStatus
<1>20. CASE Dies
  BY <1>20 DEF Dies, store, status, flags, PollIsDated, NoStaleStatus
<1>21. CASE Unload
  BY <1>21 DEF Unload, store, status, flags, PollIsDated, NoStaleStatus
<1>22. CASE UNCHANGED vars
  BY <1>22 DEF vars, status, flags, PollIsDated, NoStaleStatus
<1> QED
  BY <1>1, <1>2, <1>3, <1>4, <1>5, <1>6, <1>7, <1>8, <1>9, <1>10, <1>11, <1>12, <1>13, <1>14, <1>15, <1>16, <1>17, <1>18, <1>19, <1>20, <1>21, <1>22 DEF Next, Handler

-------------------------------------------------------------------------------
(* Theorems *)

LEMMA StepInv == IInv /\ [Next]_vars => IInv'
BY StoreTypesStep, PollTypesStep, HandlersStep, CallsStep, AwaitsInFlightStep,
   PollIsDatedStep, GenerationsLastStep DEF IInv, Types

LEMMA SpecInv == Spec => []IInv
BY InitInv, StepInv, PTL DEF Spec

\* The store's values, its poll, its handlers and their commands stay in their
\* domains; statusGeneration counts no more than two operations for each handler.
THEOREM StoreIsTyped == Spec => []TypeOK
<1>1. IInv => TypeOK
  <2> SUFFICES ASSUME IInv PROVE TypeOK
    OBVIOUS
  <2>1. gen \in 0 .. 2 * MaxClicks
    BY GenerationIsBounded DEF IInv, Types, PollTypes
  <2>2. poll.gen \in 0 .. 2 * MaxClicks
    BY <2>1, MaxAssumption DEF IInv, Types, PollTypes, Polls, PollIsDated, Dated
  <2>3. poll \in [at : {"none", "sent", "read"}, gen : 0 .. 2 * MaxClicks,
                  state : States, owner : 0 .. MaxClicks, fresh : BOOLEAN]
    BY <2>2 DEF IInv, Types, PollTypes, Polls
  <2>4. \A c \in Clicks : /\ click[c].at \in {"idle", "asks", "ready", "awaits", "refreshes", "done"}
                          /\ click[c].seen \in States \cup {"stopping"}
    BY DEF IInv, Types, Handlers, Runs
  <2> QED
    BY <2>1, <2>3, <2>4 DEF IInv, Types, StoreTypes, Calls, TypeOK
<1> QED
  BY <1>1, SpecInv, PTL

\* refreshStatus drops what is stale: a status taken from a poll is never one the
\* back end gave before the last start or stop was called.
THEOREM NoStaleStatusShown == Spec => []NoStaleStatus
<1>1. IInv => NoStaleStatus
  BY DEF IInv, PollIsDated
<1> QED
  BY <1>1, SpecInv, PTL

\* The window follows the back end: beside that, no two lifecycle commands are
\* awaited at a time, whatever dialogs and captured stores handlers come through.
THEOREM WindowFollowsBackEnd == Spec => []FollowsBackEnd
<1>1. IInv => FollowsBackEnd
  BY DEF IInv, PollIsDated, AwaitsInFlight, FollowsBackEnd
<1> QED
  BY <1>1, SpecInv, PTL

===============================================================================
