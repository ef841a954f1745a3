----------------------------- MODULE RuntimesPanel -----------------------------
(***************************************************************************)
(* The Runtimes panel (useRuntimesController.ts, runtimesActions.ts): the  *)
(* rows it shows against what is installed.  Installs, source builds,      *)
(* bundles, selections and removals are calls to the back end, which does  *)
(* one mutation at a time; each one that succeeds asks for the list again, *)
(* as a visit to the panel does, and the answers come in any order.        *)
(***************************************************************************)
EXTENDS Naturals, FiniteSets

CONSTANTS
  Backends, Builds,
  PR_BUILD_BACKENDS, \* the back ends a pull request can be built for
  MaxJobs,    \* bound: calls the user starts
  MaxVisits   \* bound: visits and probes

Runtimes == Backends \X Builds

VARIABLES
  installed,  \* what rt_list would answer
  active,     \* active_backend, active_build
  rows,       \* rows: what each shows as installed, and busy
  prBusy, bundleBusy, uninstallBusy, reviewing, cancelBusy,
  preview,    \* prPreview: what the dialog for a pull request is about
  jobs,       \* calls that have not returned
  lists,      \* refreshes that have not returned
  gen,        \* refreshGeneration
  cached,     \* readLatestCache
  probes,     \* probes that have not returned
  probeGen,   \* probeGeneration
  probeBusy, capabilities,
  listed,     \* the newest refresh has shown its list
  unseen,     \* what calls have taken or put back since the newest refresh read its list
  used        \* bounds: calls started, visits and probes
front == <<rows, prBusy, bundleBusy, uninstallBusy, reviewing, cancelBusy, preview>>
probing == <<probes, probeGen, probeBusy, capabilities>>
listing == <<lists, gen, cached, listed, unseen>>
vars == <<installed, active, front, jobs, listing, probing, used>>

NoRuntime == <<"", "">>
Kinds == {"install", "pull", "export", "import", "select", "uninstall", "review"}
Job(kind, r) == [kind |-> kind, of |-> r, at |-> "called"]
\* The row a job has to clear when it is over, or none.
Refresh(forced, g, job) == [gen |-> g, forced |-> forced, at |-> "asked", has |-> {}, for |-> job]
NoJob == Job("none", NoRuntime)

TypeOK ==
  /\ installed \subseteq Runtimes /\ unseen \subseteq Runtimes /\ active \in Runtimes \cup {NoRuntime}
  /\ rows \in [Backends -> [has : SUBSET Builds, busy : BOOLEAN]]
  /\ {prBusy, bundleBusy, uninstallBusy, reviewing, cancelBusy, cached, listed, probeBusy} \subseteq BOOLEAN
  /\ \A j \in jobs : j.kind \in Kinds /\ j.of \in Runtimes /\ j.at \in {"called", "moving", "done", "listing"}
  /\ \A l \in lists : l.gen <= gen /\ l.at \in {"asked", "read", "looking"} /\ l.has \subseteq Runtimes
  /\ capabilities \in Runtimes \cup {NoRuntime} /\ preview \in Runtimes \cup {NoRuntime}

Init ==
  /\ installed \in {{r} : r \in Runtimes} /\ active \in installed \cup {NoRuntime}
  /\ rows = [b \in Backends |-> [has |-> {}, busy |-> FALSE]]
  /\ prBusy = FALSE /\ bundleBusy = FALSE /\ uninstallBusy = FALSE /\ reviewing = FALSE
  /\ cancelBusy = FALSE /\ preview = NoRuntime
  /\ jobs = {} /\ lists = {} /\ gen = 0 /\ cached = FALSE /\ listed = FALSE
  /\ unseen = {}
  /\ probes = {} /\ probeGen = 0 /\ probeBusy = FALSE /\ capabilities = NoRuntime
  /\ used = [jobs |-> 0, visits |-> 0]

RowBusy == \E b \in Backends : rows[b].busy
runtimeBusy == bundleBusy \/ prBusy \/ RowBusy
Busy(b, on) == [rows EXCEPT ![b].busy = on]

-----------------------------------------------------------------------------
\* The user's calls.  What the panel needs a stopped server for is asked while
\* it is stopped.

Call(job) ==
  /\ used.jobs < MaxJobs /\ used' = [used EXCEPT !.jobs = @ + 1]
  /\ job \notin jobs /\ jobs' = jobs \cup {job}
  /\ UNCHANGED <<installed, active, listing>>

\* runInstall, from a row whose newest build is known and not installed.
Install ==
  \E r \in Runtimes :
    /\ ~prBusy /\ ~bundleBusy /\ ~rows[r[1]].busy /\ r[2] \notin rows[r[1]].has
    /\ rows' = Busy(r[1], TRUE) /\ Call(Job("install", r))
    /\ UNCHANGED <<prBusy, bundleBusy, uninstallBusy, reviewing, cancelBusy, preview, probing>>

\* runExportRuntime, runImportRuntime
Bundle ==
  /\ ~runtimeBusy /\ bundleBusy' = TRUE
  /\ \E r \in Runtimes, kind \in {"export", "import"} :
       (kind = "export" => r[2] \in rows[r[1]].has) /\ Call(Job(kind, r))
  /\ UNCHANGED <<rows, prBusy, uninstallBusy, reviewing, cancelBusy, preview, probing>>

\* runSelect
Select ==
  /\ ~runtimeBusy
  /\ \E r \in Runtimes : r[2] \in rows[r[1]].has /\ r # active /\ Call(Job("select", r))
  /\ UNCHANGED <<front, probing>>

\* uninstall, at once or after its dialog
Uninstall ==
  /\ ~runtimeBusy /\ ~uninstallBusy /\ uninstallBusy' = TRUE
  /\ \E r \in Runtimes : r[2] \in rows[r[1]].has /\ r # active /\ Call(Job("uninstall", r))
  /\ UNCHANGED <<rows, prBusy, bundleBusy, reviewing, cancelBusy, preview, probing>>

\* runReviewPullRequest
Review ==
  /\ ~runtimeBusy /\ ~reviewing /\ reviewing' = TRUE
  /\ \E r \in Runtimes : r[1] \in PR_BUILD_BACKENDS /\ Call(Job("review", r))
  /\ UNCHANGED <<rows, prBusy, bundleBusy, uninstallBusy, cancelBusy, preview, probing>>

\* Mutant: the lock on the runtimes is not looked at again.
InstallPullRequest_NoRecheck ==
  /\ preview # NoRuntime /\ preview' = NoRuntime /\ prBusy' = TRUE
  /\ rows' = Busy(preview[1], TRUE) /\ Call(Job("pull", preview))
  /\ UNCHANGED <<bundleBusy, uninstallBusy, reviewing, cancelBusy, probing>>

\* runInstallPullRequest, confirmed in the dialog; it does nothing while another
\* change is under way.
InstallPullRequest ==
  /\ preview # NoRuntime /\ ~runtimeBusy
  /\ preview' = NoRuntime /\ prBusy' = TRUE
  /\ rows' = Busy(preview[1], TRUE) /\ Call(Job("pull", preview))
  /\ UNCHANGED <<bundleBusy, uninstallBusy, reviewing, cancelBusy, probing>>

\* It is declined, or confirmed although a server runs.
ClosePreview ==
  /\ preview # NoRuntime /\ preview' = NoRuntime
  /\ UNCHANGED <<installed, active, rows, prBusy, bundleBusy, uninstallBusy, reviewing, cancelBusy>>
  /\ UNCHANGED <<jobs, listing, probing, used>>

\* cancelInstall; what it did to the job is in Fails.
Cancel ==
  /\ ~cancelBusy /\ (RowBusy \/ bundleBusy) /\ cancelBusy' = TRUE
  /\ UNCHANGED <<installed, active, rows, prBusy, bundleBusy, uninstallBusy, reviewing, preview>>
  /\ UNCHANGED <<jobs, listing, probing, used>>

CancelReturns ==
  /\ cancelBusy /\ cancelBusy' = FALSE
  /\ UNCHANGED <<installed, active, rows, prBusy, bundleBusy, uninstallBusy, reviewing, preview>>
  /\ UNCHANGED <<jobs, listing, probing, used>>

-----------------------------------------------------------------------------
\* The back end, which does one mutation at a time: it does a job or refuses it.

Alone(j) == \A k \in jobs : k.at = "moving" => k = j

\* Half way through a job its runtime is not one that rt_list lists: it was moved
\* aside, or files of it are removed.
Moves ==
  \E j \in jobs :
    /\ j.at = "called" /\ j.of \in installed /\ Alone(j)
    /\ j.kind \in {"install", "pull", "import"} \/ (j.kind = "uninstall" /\ j.of # active)
    /\ jobs' = (jobs \ {j}) \cup {[j EXCEPT !.at = "moving"]}
    /\ installed' = installed \ {j.of} /\ unseen' = unseen \cup {j.of}
  /\ UNCHANGED <<active, front, lists, gen, cached, listed, probing, used>>

Does ==
  \E j \in jobs :
    /\ j.at \in {"called", "moving"} /\ (j.kind \in {"install", "pull", "import", "uninstall"} => Alone(j))
    /\ jobs' = (jobs \ {j}) \cup {[j EXCEPT !.at = "done"]}
    /\ installed' = CASE j.kind \in {"install", "pull", "import"} -> installed \cup {j.of}
                      [] j.kind = "uninstall" -> installed \ {j.of}
                      [] OTHER -> installed
    /\ j.kind = "uninstall" /\ j.at = "called" => j.of # active
    /\ active' = IF j.kind = "select" /\ j.of \in installed THEN j.of ELSE active
  /\ UNCHANGED <<front, listing, probing, used>>

\* What every action does at its end (finally).
Over(j) ==
  /\ rows' = IF j.kind \in {"install", "pull"} THEN Busy(j.of[1], FALSE) ELSE rows
  /\ prBusy' = (prBusy /\ j.kind # "pull")
  /\ bundleBusy' = (bundleBusy /\ j.kind \notin {"export", "import"})
  /\ uninstallBusy' = (uninstallBusy /\ j.kind # "uninstall")
  /\ reviewing' = (reviewing /\ j.kind # "review")
  /\ cancelBusy' = (cancelBusy /\ j.kind # "pull")

Lists(forced, job) ==
  /\ gen' = gen + 1 /\ lists' = lists \cup {Refresh(forced, gen + 1, job)} /\ listed' = FALSE
  /\ UNCHANGED <<cached, unseen>>

\* A call has succeeded: whatever changed what is installed is shown before it is
\* over.
Succeeds ==
  \E j \in jobs :
    /\ j.at = "done"
    /\ \/ /\ j.kind \in {"install", "pull", "import", "uninstall"}
          /\ jobs' = (jobs \ {j}) \cup {[j EXCEPT !.at = "listing"]}
          /\ Lists(j.kind = "import", j) /\ UNCHANGED front
       \/ /\ j.kind \in {"export", "select", "review"} /\ jobs' = jobs \ {j}
          /\ Over(j) /\ preview' = IF j.kind = "review" THEN j.of ELSE preview
          /\ UNCHANGED listing
  /\ UNCHANGED <<installed, active, probing, used>>

\* It is refused, fails or is cancelled: nothing is asked for.  One that fails half
\* way leaves its runtime as it is by then, or an activation puts the old one back.
Fails ==
  /\ \E j \in jobs :
       /\ j.at \in {"called", "moving"} /\ jobs' = jobs \ {j} /\ Over(j)
       /\ \/ UNCHANGED <<installed, unseen>>
          \/ /\ j.at = "moving" /\ j.kind # "uninstall"
             /\ installed' = installed \cup {j.of} /\ unseen' = unseen \cup {j.of}
  /\ UNCHANGED <<active, preview, lists, gen, cached, listed, probing, used>>

-----------------------------------------------------------------------------
\* refresh

Visit ==
  /\ used.visits < MaxVisits /\ used' = [used EXCEPT !.visits = @ + 1]
  /\ Lists(FALSE, NoJob)
  /\ UNCHANGED <<installed, active, front, jobs, probing>>

ListReads ==
  /\ \E l \in lists :
       /\ l.at = "asked"
       /\ lists' = (lists \ {l}) \cup {[l EXCEPT !.at = "read", !.has = installed]}
       /\ unseen' = IF l.gen = gen THEN {} ELSE unseen
  /\ UNCHANGED <<installed, active, front, jobs, gen, cached, listed, probing, used>>

Shown(has) == [b \in Backends |-> [rows[b] EXCEPT !.has = {r[2] : r \in {x \in has : x[1] = b}}]]

\* A refresh is over; if it was part of a job, so is the job.
Returns(l, shown) ==
  /\ lists' = lists \ {l}
  /\ IF l.for = NoJob
     THEN rows' = shown /\ UNCHANGED <<jobs, prBusy, bundleBusy, uninstallBusy, reviewing, cancelBusy>>
     ELSE LET j == l.for IN
          /\ jobs' = jobs \ {[j EXCEPT !.at = "listing"]}
          /\ rows' = IF j.kind \in {"install", "pull"} THEN [shown EXCEPT ![j.of[1]].busy = FALSE] ELSE shown
          /\ prBusy' = (prBusy /\ j.kind # "pull")
          /\ bundleBusy' = (bundleBusy /\ j.kind # "import")
          /\ uninstallBusy' = (uninstallBusy /\ j.kind # "uninstall")
          /\ cancelBusy' = (cancelBusy /\ j.kind # "pull") /\ UNCHANGED reviewing
  /\ UNCHANGED <<installed, active, gen, preview, probing, used>>

\* One that is not the newest shows nothing.
Superseded == \E l \in lists : l.at # "asked" /\ l.gen # gen /\ Returns(l, rows) /\ UNCHANGED <<cached, listed, unseen>>

ListFails == \E l \in lists : l.at = "asked" /\ Returns(l, rows) /\ UNCHANGED <<cached, listed, unseen>>

\* Mutant: an overtaken list is shown.
ListReturns_Late ==
  \E l \in lists :
    /\ l.at = "read" /\ cached /\ ~l.forced
    /\ Returns(l, Shown(l.has)) /\ listed' = TRUE /\ UNCHANGED <<cached, unseen>>

\* With a list of the newest releases at hand it is shown at once, ...
ListReturns ==
  \E l \in lists :
    /\ l.at = "read" /\ l.gen = gen /\ cached /\ ~l.forced
    /\ Returns(l, Shown(l.has)) /\ listed' = TRUE /\ UNCHANGED <<cached, unseen>>

\* ... and otherwise after they were looked up.
LatestAsked ==
  \E l \in lists :
    /\ l.at = "read" /\ l.gen = gen /\ (~cached \/ l.forced)
    /\ lists' = (lists \ {l}) \cup {[l EXCEPT !.at = "looking"]}
    /\ UNCHANGED <<installed, active, front, jobs, gen, cached, listed, unseen, probing, used>>

LatestReturns ==
  \E l \in lists :
    /\ l.at = "looking" /\ l.gen = gen
    /\ Returns(l, Shown(l.has)) /\ listed' = TRUE /\ cached' = TRUE /\ UNCHANGED unseen

CacheExpires ==
  /\ cached /\ cached' = FALSE
  /\ UNCHANGED <<installed, active, front, jobs, lists, gen, listed, unseen, probing, used>>

-----------------------------------------------------------------------------
\* probe

Probe ==
  /\ active # NoRuntime /\ used.visits < MaxVisits /\ used' = [used EXCEPT !.visits = @ + 1]
  /\ probeGen' = probeGen + 1 /\ probeBusy' = TRUE
  /\ probes' = probes \cup {[gen |-> probeGen + 1, key |-> active]}
  /\ UNCHANGED <<installed, active, front, jobs, listing, capabilities>>

\* Mutant: the answer for another runtime is shown.
ProbeReturns_AnyRuntime ==
  /\ \E p \in probes, works \in BOOLEAN :
       /\ probes' = probes \ {p}
       /\ capabilities' = IF p.gen # probeGen THEN capabilities ELSE IF works THEN p.key ELSE NoRuntime
       /\ probeBusy' = (probeBusy /\ p.gen # probeGen)
  /\ UNCHANGED <<installed, active, front, jobs, listing, probeGen, used>>

ProbeReturns ==
  /\ \E p \in probes, works \in BOOLEAN :
       /\ probes' = probes \ {p}
       /\ capabilities' = IF p.gen # probeGen \/ p.key # active THEN capabilities
                          ELSE IF works THEN p.key ELSE NoRuntime
       /\ probeBusy' = (probeBusy /\ p.gen # probeGen)
  /\ UNCHANGED <<installed, active, front, jobs, listing, probeGen, used>>

\* applyProfile makes the runtime of a loading profile active.
ApplyProfile ==
  /\ \E r \in Runtimes \ {active} : active' = r
  /\ used.jobs < MaxJobs /\ used' = [used EXCEPT !.jobs = @ + 1]
  /\ capabilities' = NoRuntime
  /\ UNCHANGED <<installed, front, jobs, listing, probes, probeGen, probeBusy>>

Next ==
  \/ Install \/ Bundle \/ Select \/ Uninstall \/ Review \/ InstallPullRequest \/ ClosePreview
  \/ Cancel \/ CancelReturns
  \/ Moves \/ Does \/ Succeeds \/ Fails
  \/ Visit \/ ListReads \/ Superseded \/ ListFails \/ ListReturns \/ LatestAsked \/ LatestReturns \/ CacheExpires
  \/ Probe \/ ProbeReturns \/ ApplyProfile

Spec == Init /\ [][Next]_vars

-----------------------------------------------------------------------------
\* Once the newest refresh has shown its list and no call is under way, the rows
\* show what is installed, in whatever order lists, look-ups and calls returned:
\* every call that succeeded is in it.  What a call that failed has taken away or put
\* back since that list was read is not, as no refresh follows a failure.
ShowsInstalled ==
  listed /\ jobs = {} =>
    \A r \in Runtimes \ unseen : r[2] \in rows[r[1]].has <=> r \in installed

\* A source build can be cancelled until it is over: its row stays busy.
BuildCanBeCancelled ==
  \A j \in jobs : j.kind = "pull" => prBusy /\ rows[j.of[1]].busy

\* What a probe found is shown only while the runtime it looked at is active, and
\* the panel waits only for a probe that is under way.
ProbeIsCurrent ==
  /\ capabilities' \notin {capabilities, NoRuntime} => capabilities' = active'
  /\ probeBusy' => \E p \in probes' : p.gen = probeGen'
===============================================================================
