--------------------------------- MODULE Tuning ---------------------------------
(***************************************************************************)
(* The Tuning panel (useTuningController.ts, tuningControllerHelpers.ts):  *)
(* drafts that are typed while earlier ones are saved, the queue every     *)
(* save of the configuration goes through, and applying by a restart of    *)
(* the server, which is rolled back when it fails.  Two settings stand for *)
(* all: one with a draft of its own per field, and the raw arguments.      *)
(* A value is the number of the edit that made it.                         *)
(***************************************************************************)
EXTENDS Naturals, Sequences

CONSTANTS
  MaxEdits,   \* bound: edits and saves
  MaxQueue    \* bound: saves waiting

VARIABLE tuning
vars == <<tuning>>

Values == 0..MaxEdits
NoDraft == MaxEdits + 1
Config == [n : Values, args : Values]
ServerFields == {"n", "args"}  \* what serverConfigSnapshot keeps
Phases == {"idle", "dirty", "applying", "failed"}
\* Who waits for a save: a field's commit, the raw arguments, a choice made at
\* once, the rollback, another panel.
Savers == {"field", "args", "choice", "rollback", "other"}

TypeOK ==
  /\ tuning.cfg \in Config /\ tuning.previous \in Config
  /\ \A i \in DOMAIN tuning.queue : tuning.queue[i].by \in Savers /\ tuning.queue[i].sent \in Config /\ tuning.queue[i].ahead \in Nat
  /\ tuning.writing \in BOOLEAN /\ tuning.phase \in Phases
  /\ tuning.nDraft \in Values \cup {NoDraft} /\ tuning.argsDraft \in Values
  /\ {tuning.argsDirty, tuning.lock, tuning.busy} \subseteq BOOLEAN
  /\ {tuning.moved, tuning.running, tuning.restarting} \subseteq BOOLEAN /\ tuning.before \in Config

Init ==
  tuning = [ cfg |-> [n |-> 0, args |-> 0], previous |-> [n |-> 0, args |-> 0],
             queue |-> <<>>, writing |-> FALSE,   \* its head is with the back end
             moved |-> FALSE,                     \* configRevision is not the one of apply
             nDraft |-> NoDraft, argsDraft |-> 0, argsDirty |-> FALSE,
             phase |-> "idle", lock |-> FALSE,    \* applyLockRef
             busy |-> FALSE,                      \* store.busy
             running |-> FALSE,                   \* the server
             restarting |-> FALSE,                \* performApplyRestart, and its
             before |-> [n |-> 0, args |-> 0],
             edits |-> 0,
             typed |-> [n |-> NoDraft, args |-> NoDraft], \* what the user typed last
             saved |-> {0} ]                      \* values that were once saved

Edits == tuning.edits < MaxEdits
Value == tuning.edits + 1
MutationsDisabled == tuning.phase = "applying" \/ tuning.busy  \* configMutationsDisabled

\* A patch, as a save waiting: what it sets, who waits for it, and behind how many a rollback is.
Enqueue(t, by, sets, sent) ==
  [t EXCEPT !.queue = Append(@, [by |-> by, sets |-> sets, sent |-> sent, ahead |-> IF by = "rollback" THEN Len(@) ELSE 0])]
Room == Len(tuning.queue) < MaxQueue

-----------------------------------------------------------------------------
\* The fields.
TypeNumber ==
  /\ Edits /\ ~MutationsDisabled
  /\ tuning' = [tuning EXCEPT !.nDraft = Value, !.typed.n = Value, !.edits = @ + 1]

\* commitNumericField, commitChatOptionField, commitServerText: the draft is
\* sent, or dropped when it is no number.
CommitNumber ==
  /\ ~tuning.lock /\ tuning.nDraft # NoDraft
  /\ \/ Room /\ tuning' = Enqueue(tuning, "field", {"n"}, [tuning.cfg EXCEPT !.n = tuning.nDraft])
     \/ tuning' = [tuning EXCEPT !.nDraft = NoDraft, !.typed.n = NoDraft]

TypeArgs ==
  /\ Edits /\ ~MutationsDisabled
  /\ tuning' = [tuning EXCEPT !.argsDraft = Value, !.argsDirty = TRUE, !.typed.args = Value, !.edits = @ + 1]

\* saveServerArgs, saveChatOptions
SaveArgs ==
  /\ ~tuning.lock /\ tuning.argsDirty /\ Room
  /\ tuning' = Enqueue(tuning, "args", {"args"}, [tuning.cfg EXCEPT !.args = tuning.argsDraft])

\* updateFlash, updateServerText, selectServerText, updateReasoningEffort,
\* updateSamplerChain, applyPreset
Choice ==
  /\ Edits /\ Room /\ ~tuning.lock
  /\ tuning' = Enqueue([tuning EXCEPT !.phase = "dirty", !.edits = @ + 1], "choice", {"n"},
                       [tuning.cfg EXCEPT !.n = Value])

\* resetDefaults: the drafts of the raw arguments are replaced at once.
ResetDefaults ==
  /\ Room /\ ~tuning.lock
  /\ tuning' = Enqueue([tuning EXCEPT !.argsDraft = 0, !.argsDirty = FALSE, !.phase = "dirty",
                          !.typed.args = NoDraft], "choice", {"n", "args"}, [n |-> 0, args |-> 0])

OtherPanel ==
  /\ Edits /\ Room
  /\ tuning' = Enqueue([tuning EXCEPT !.edits = @ + 1], "other", {"n"}, [tuning.cfg EXCEPT !.n = Value])

-----------------------------------------------------------------------------
\* The queue (createConfigSaveQueue) publishes what it is about to save, then
\* what was saved, or the one before.  A publication shows the raw arguments
\* anew unless they are being edited.
Published(t, cfg) ==
  [t EXCEPT !.cfg = cfg, !.moved = TRUE, !.argsDraft = IF t.argsDirty THEN @ ELSE cfg.args]

SaveBegins ==
  /\ tuning.queue # <<>> /\ ~tuning.writing
  /\ LET save == Head(tuning.queue) IN
     tuning' = Published([tuning EXCEPT !.writing = TRUE, !.previous = tuning.cfg],
                         [f \in {"n", "args"} |-> IF f \in save.sets THEN save.sent[f] ELSE tuning.cfg[f]])

\* Mutant: a draft typed meanwhile is dropped too.
Settled_Always(t, save) ==
  CASE save.by = "field" -> [t EXCEPT !.nDraft = NoDraft, !.phase = "dirty"]
    [] save.by = "args" -> [t EXCEPT !.argsDirty = FALSE, !.argsDraft = t.cfg.args, !.phase = "dirty"]
    [] save.by = "rollback" -> [t EXCEPT !.phase = "failed", !.lock = FALSE]
    [] OTHER -> t

\* A draft that is still what was submitted is done with.
Settled(t, save) ==
  CASE save.by = "field" -> [t EXCEPT !.nDraft = IF @ = save.sent.n THEN NoDraft ELSE @, !.phase = "dirty"]
    [] save.by = "args" /\ t.argsDraft = save.sent.args ->
         [t EXCEPT !.argsDirty = FALSE, !.argsDraft = t.cfg.args, !.phase = "dirty"]
    [] save.by = "args" /\ t.argsDraft # save.sent.args -> [t EXCEPT !.phase = "dirty"]
    [] save.by = "rollback" -> [t EXCEPT !.phase = "failed", !.lock = FALSE]
    [] OTHER -> t

SaveEnds ==
  /\ tuning.writing
  /\ LET save == Head(tuning.queue)
         t == [tuning EXCEPT !.queue = Tail(@), !.writing = FALSE] IN
     \/ tuning' = Settled(Published([t EXCEPT !.saved = @ \cup {save.sent[f] : f \in save.sets}], tuning.cfg), save)
     \/ LET failed == Published(t, tuning.previous) IN
        tuning' = IF save.by = "other" THEN failed
                  ELSE IF save.by = "rollback" THEN Settled(failed, save)
                  ELSE [failed EXCEPT !.phase = "failed"]

-----------------------------------------------------------------------------
\* applyRestart, and performApplyRestart of a running server.
Apply ==
  /\ ~MutationsDisabled
  /\ tuning' = IF ~tuning.running THEN [tuning EXCEPT !.phase = "idle"]
               ELSE [tuning EXCEPT !.lock = TRUE, !.phase = "applying", !.busy = TRUE, !.restarting = TRUE,
                       !.before = tuning.cfg, !.moved = FALSE]

Restarted ==
  /\ tuning.restarting
  /\ tuning' = [tuning EXCEPT !.phase = "idle", !.lock = FALSE, !.busy = FALSE, !.restarting = FALSE]

\* Mutant: changes made since the apply began are undone too.
RollsBack_Always(t) == TRUE

\* canRollbackAtRevision
RollsBack(t) == ~t.moved

\* It failed to stop the server, or to start it.
RestartFails ==
  /\ tuning.restarting /\ Room
  /\ \E running \in BOOLEAN :
       LET t == [tuning EXCEPT !.busy = FALSE, !.restarting = FALSE, !.running = running] IN
       tuning' = IF RollsBack(tuning) THEN Enqueue(t, "rollback", ServerFields, tuning.before)
                 ELSE [t EXCEPT !.phase = "failed", !.lock = FALSE]

\* Other panels start and stop it.
ServerChanges == ~tuning.busy /\ tuning' = [tuning EXCEPT !.running = ~@]

Next ==
  \/ TypeNumber \/ CommitNumber \/ TypeArgs \/ SaveArgs \/ Choice \/ ResetDefaults \/ OtherPanel
  \/ SaveBegins \/ SaveEnds \/ Apply \/ Restarted \/ RestartFails \/ ServerChanges

Spec == Init /\ [][Next]_vars

-----------------------------------------------------------------------------
\* What the user typed last in a field or in the raw arguments is on the
\* screen until it has been saved: the answer to an earlier save, or a
\* configuration published for another reason, never takes it away.
TypedIsKept ==
  /\ tuning.typed.n # NoDraft => tuning.nDraft = tuning.typed.n \/ tuning.typed.n \in tuning.saved
  /\ tuning.typed.args # NoDraft => tuning.argsDraft = tuning.typed.args \/ tuning.typed.args \in tuning.saved

\* A restart that fails queues the old configuration only when nothing was published
\* since it began (canRollbackAtRevision, in tuningAsync.ts).
Waiting(t) == \E i \in DOMAIN t.queue : t.queue[i].by = "rollback"
QueuedWhenCurrent == ~Waiting(tuning) /\ Waiting(tuning') => tuning.cfg = tuning.before

\* And when its turn comes it finds that configuration, if no save was ahead of it: a
\* change made after the restart failed is not undone, because it comes behind.  A
\* change that was published neither, because its save was waiting or under way when
\* the restart failed, is undone by the rollback.
FindsItsOwn ==
  ~tuning.writing /\ tuning'.writing =>
    LET save == Head(tuning'.queue)
    IN  save.by = "rollback" /\ save.ahead = 0 => tuning.cfg = save.sent
RollbackIsCurrent == QueuedWhenCurrent /\ FindsItsOwn
================================================================================
