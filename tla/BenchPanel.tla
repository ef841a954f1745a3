------------------------------- MODULE BenchPanel -------------------------------
(***************************************************************************)
(* The Bench panel (Bench.tsx): one benchmark at a time, which may be      *)
(* cancelled, the draft of its iterations, and the history of finished     *)
(* runs with the copy in local storage.                                    *)
(***************************************************************************)
EXTENDS Integers, Sequences, FiniteSets

CONSTANTS
  Numbers,      \* what the configuration or the user may name as iterations
  NotANumber,   \* a draft that is no number
  MaxIters,     \* the largest number of iterations (100)
  MaxHistory,   \* records kept (20)
  MaxRuns       \* bound: runs started

VARIABLE bench
vars == <<bench>>

Drafts == Numbers \cup {NotANumber}

TypeOK ==
  /\ bench.phase \in {"idle", "running", "canceling"}
  /\ bench.cfg \in Numbers /\ bench.draft \in Drafts \cup 1..MaxIters /\ bench.dirty \in BOOLEAN
  /\ Cardinality(bench.run) <= 1 /\ \A r \in bench.run : r.id \in 1..bench.runs
  /\ bench.history \in Seq(1..MaxRuns) /\ bench.stored \in Seq(1..MaxRuns)
  /\ bench.cancels \in 0..1 /\ bench.runs \in 0..MaxRuns

Init ==
  \E n \in Numbers :
    bench = [ phase |-> "idle", cfg |-> n, draft |-> n, dirty |-> FALSE, server |-> FALSE,
              run |-> {},        \* the call of runBench, and what its closure has
              cancels |-> 0,     \* calls of benchCancel
              history |-> <<>>, stored |-> <<>>, runs |-> 0 ]

\* An effect: a new configured number replaces a draft that is not dirty.
Shown(b) == IF b.dirty THEN b ELSE [b EXCEPT !.draft = b.cfg]

Configured == \E n \in Numbers \ {bench.cfg} : bench' = Shown([bench EXCEPT !.cfg = n])

Type ==
  \E d \in Drafts : bench.phase = "idle" /\ bench' = [bench EXCEPT !.draft = d, !.dirty = TRUE]

\* Mutant: the upper limit is not applied.
Clamped_LowOnly(b) ==
  LET n == IF b.draft = NotANumber THEN b.cfg ELSE b.draft
  IN  IF n < 1 THEN 1 ELSE n

\* parseNumericInput, or the configured number, between 1 and the limit.
Clamped(b) ==
  LET n == IF b.draft = NotANumber THEN b.cfg ELSE b.draft
  IN  IF n < 1 THEN 1 ELSE IF n > MaxIters THEN MaxIters ELSE n

\* The input loses the focus: the draft is normalised and no longer dirty, so
\* that the effect shows the configured number again.
Blur == bench.dirty /\ bench' = Shown([bench EXCEPT !.draft = Clamped(bench), !.dirty = FALSE])

ServerChanges == bench' = [bench EXCEPT !.server = ~@]

\* run, behind canRun.
Run ==
  /\ bench.phase = "idle" /\ ~bench.server /\ bench.runs < MaxRuns
  /\ bench' = Shown([bench EXCEPT !.phase = "running", !.dirty = FALSE, !.runs = @ + 1,
                       !.run = {[id |-> bench.runs + 1, iters |-> Clamped(bench), onto |-> bench.history]}])

Take(s, n) == SubSeq(s, 1, IF Len(s) < n THEN Len(s) ELSE n)

RunReturns ==
  \E r \in bench.run :
     LET next == Take(<<r.id>> \o r.onto, MaxHistory)
         idle == [bench EXCEPT !.phase = "idle", !.run = {}] IN
     \/ \E fits \in BOOLEAN :
          bench' = [idle EXCEPT !.history = next, !.stored = IF fits THEN next ELSE @]
     \/ bench' = idle  \* failed or cancelled

Cancel ==
  /\ bench.phase = "running" /\ bench.cancels = 0
  /\ bench' = [bench EXCEPT !.phase = "canceling", !.cancels = 1]

\* Mutant: the answer of a cancellation shows a run again.
CancelReturns_Resumes == bench.cancels = 1 /\ bench' = [bench EXCEPT !.cancels = 0, !.phase = "running"]

\* The command for it returns nothing and cannot fail.
CancelReturns == bench.cancels = 1 /\ bench' = [bench EXCEPT !.cancels = 0]

\* The page is loaded again: the history is read back.
Reload ==
  /\ bench.run = {}
  /\ bench' = [bench EXCEPT !.history = bench.stored, !.dirty = FALSE, !.draft = bench.cfg, !.cancels = 0]

Next ==
  \/ Configured \/ Type \/ Blur \/ ServerChanges \/ Run \/ RunReturns \/ Cancel
  \/ CancelReturns \/ Reload

Spec == Init /\ [][Next]_vars

-----------------------------------------------------------------------------
\* The panel never offers a second benchmark while one runs, nor says one runs
\* when there is none: the answer to a cancellation that comes after the end
\* of the run it cancelled, or during the next one, changes nothing.
PhaseFollowsRun == bench.phase = "idle" <=> bench.run = {}

\* A run asks for at least one iteration and at most the limit, whatever was
\* typed or configured, and the history keeps the newest runs in order.
WithinLimits ==
  /\ \A r \in bench.run : r.iters \in 1..MaxIters
  /\ \A h \in {bench.history, bench.stored} :
       Len(h) <= MaxHistory /\ \A i, j \in DOMAIN h : i < j => h[i] > h[j]
================================================================================
