------------------------------ MODULE ChatHistory ------------------------------
(***************************************************************************)
(* Where conversations are kept (chatHistory.ts, storageAdapter.ts and the *)
(* effects of useChatThreads.ts): the workspace in memory, its mirror in   *)
(* localStorage, the adapter's IndexedDB value, the panel's own database   *)
(* and the copy of an earlier version.  The panel opens with the mirror,   *)
(* is hydrated from IndexedDB while the user already works, saves after    *)
(* each change from then on, and may be closed at any time.                *)
(*                                                                         *)
(* A conversation's text is the number of the write that made it: 0 is no  *)
(* such conversation, 1 an empty one.                                      *)
(***************************************************************************)
EXTENDS Naturals, Sequences

CONSTANTS
  Threads,    \* conversations there can be
  MaxWrites,  \* bound: answers written
  MaxSaves,   \* bound: saves under way
  MaxOpens,   \* bound: times the window is opened
  MaxFaults,  \* bound: faults
  NoThread    \* no conversation

VARIABLES
  open,      \* whether the window is
  mem,       \* workspace
  shown,     \* msgs: the text on screen
  initial,   \* initialWorkspaceRef, initialMsgsRef
  hydrated,  \* hydratedRef
  load,      \* loadChatWorkspaceAsync: what it has read
  saves,     \* the saves under way, oldest first
  local, indexed, own, legacy, \* the copies
  wipe,      \* how far clearChatWorkspace is
  opens,     \* times it was opened
  writes,    \* number of the last write
  want,      \* what the user has written and not deleted
  faults     \* storage calls that failed, saves that were cut off, and wipes

memory == <<open, mem, shown, initial, hydrated>>
copies == <<local, indexed, own, legacy>>
ghosts == <<want, faults>>
vars == <<memory, load, saves, copies, wipe, opens, writes, ghosts>>

Versions == 0 .. (MaxWrites + 2)
Workspaces == [active : Threads, has : [Threads -> Versions]]
None == [active |-> NoThread, has |-> [t \in Threads |-> 0]]
There(w) == {t \in Threads : w.has[t] > 0}

TypeOK ==
  /\ open \in BOOLEAN /\ hydrated \in BOOLEAN /\ faults \in 0 .. MaxFaults
  /\ opens \in 0 .. MaxOpens /\ mem \in Workspaces \cup {None} /\ initial \in Workspaces \cup {None}
  /\ shown \in Versions /\ writes \in Versions /\ want \in [Threads -> Versions]
  /\ load.at \in {"none", "asked", "read"} /\ load.w \in Workspaces \cup {None}
  /\ Len(saves) <= MaxSaves /\ \A i \in 1 .. Len(saves) : saves[i] \in Workspaces
  /\ \A w \in {local, indexed, own, legacy} : w \in Workspaces \cup {None}
  /\ wipe \in {"no", "adapter", "own", "done"} /\ (saves # <<>> => hydrated)

-----------------------------------------------------------------------------
\* persistedWorkspace: an empty conversation is kept only when it is the active
\* one, and a workspace without the active one gets another.  There is no result
\* for a workspace without conversations: the code throws.
Persisted(w) ==
  LET kept == {t \in There(w) : w.has[t] > 1 \/ t = w.active}
      Only(ts, a) == [active |-> a, has |-> [t \in Threads |-> IF t \in ts THEN w.has[t] ELSE 0]]
  IN  IF w.active \in kept THEN {Only(kept, w.active)}
      ELSE IF kept # {} THEN {Only(kept, a) : a \in kept}
      ELSE {Only({a}, a) : a \in There(w)}

Default(t) == [active |-> t, has |-> [u \in Threads |-> IF u = t THEN 1 ELSE 0]]
Unused == {t \in Threads : \A w \in {local, indexed, own, legacy, mem} : w.has[t] = 0}

\* loadChatWorkspace; the default workspace has a new conversation.
Loaded(w) ==
  IF local # None THEN w \in Persisted(local)
  ELSE IF legacy # None THEN w \in Persisted(legacy)
  ELSE \E t \in Unused : w = Default(t)

\* mergeHydratedWorkspace
Changed(t) == mem.has[t] > 0 /\ mem.has[t] # initial.has[t]

\* Mutant: what was deleted before the store was read comes back.
Merged_Returns(p) ==
  [t \in Threads |-> IF p.has[t] > 0 THEN (IF Changed(t) THEN mem.has[t] ELSE p.has[t])
                     ELSE IF initial.has[t] = 0 THEN mem.has[t] ELSE 0]

Merged(p) ==
  [t \in Threads |->
     IF p.has[t] > 0
     THEN (IF mem.has[t] = 0 /\ initial.has[t] > 0 THEN 0
           ELSE IF Changed(t) THEN mem.has[t] ELSE p.has[t])
     ELSE IF initial.has[t] = 0 THEN mem.has[t] ELSE 0]

MergedActive(p) ==
  IF mem.active # initial.active /\ mem.has[mem.active] > 0 THEN mem.active ELSE p.active

Hydrated(p) == IF mem = initial THEN p ELSE [active |-> MergedActive(p), has |-> Merged(p)]

Fault == faults < MaxFaults /\ faults' = faults + 1

\* Mutant: a save does not wait for the workspace to be hydrated.
Effects_TooEarly(w, text) ==
  /\ mem' = [w EXCEPT !.has[w.active] = text] /\ shown' = text
  /\ Len(saves) < MaxSaves
  /\ \E p \in Persisted(mem') : saves' = Append(saves, p) /\ local' = p /\ UNCHANGED faults

\* The effects of a render: the messages go into the active conversation, if the
\* workspace has it, and the workspace is saved, once it is hydrated.
Effects(w, text) ==
  LET stored == IF w.active \in There(w) THEN [w EXCEPT !.has[w.active] = text] ELSE w IN
  /\ mem' = stored /\ shown' = text
  /\ \/ /\ hydrated' /\ Len(saves) < MaxSaves
        /\ \E p \in Persisted(stored) :
             /\ saves' = Append(saves, p)
             /\ \/ local' = p /\ UNCHANGED faults
                \/ local' = local /\ Fault \* a full or blocked localStorage
     \/ /\ ~hydrated' \/ There(stored) = {}
        /\ UNCHANGED <<saves, local, faults>>

Init ==
  /\ open = FALSE /\ hydrated = FALSE /\ shown = 1 /\ load = [at |-> "none", w |-> None]
  /\ mem = None /\ initial = None /\ saves = <<>> /\ wipe = "no"
  /\ opens = 0 /\ writes = 2 /\ faults = 0 /\ own = None
  /\ \E t \in Threads :
       LET w == [active |-> t, has |-> [u \in Threads |-> IF u = t THEN 2 ELSE 0]] IN
       /\ want = w.has
       /\ \/ local = w /\ indexed = w /\ legacy = None
          \/ local = None /\ indexed = None /\ legacy = w

-----------------------------------------------------------------------------
Opens ==
  /\ ~open /\ opens < MaxOpens /\ open' = TRUE /\ opens' = opens + 1 /\ hydrated' = FALSE
  /\ load' = [load EXCEPT !.at = "asked"]
  /\ \E w \in Workspaces : Loaded(w) /\ mem' = w /\ initial' = w /\ shown' = w.has[w.active]
  /\ UNCHANGED <<saves, copies, wipe, writes, ghosts>>

\* storageAdapter.get, then the legacy copy, which is moved, the panel's own
\* database and the mirror.
LoadReads ==
  /\ load.at = "asked"
  /\ \E fails \in BOOLEAN :
       LET adapter == IF fails \/ indexed = None THEN local ELSE indexed IN
       /\ IF fails THEN Fault ELSE UNCHANGED faults
       /\ \E w \in Workspaces :
          /\ load' = [at |-> "read", w |-> w]
          /\ \/ adapter # None /\ w \in Persisted(adapter) /\ UNCHANGED copies
             \/ /\ adapter = None /\ legacy # None /\ w \in Persisted(legacy) /\ legacy' = None
                /\ IF fails THEN local' = w /\ UNCHANGED indexed ELSE indexed' = w /\ UNCHANGED local
                /\ UNCHANGED own
             \/ /\ adapter = None /\ legacy = None
                /\ IF own # None THEN w \in Persisted(own) ELSE Loaded(w)
                /\ UNCHANGED copies
  /\ UNCHANGED <<memory, saves, wipe, opens, writes, want>>

\* The messages on screen are replaced, by those of some conversation if the
\* active one is missing, unless they have changed.
Hydrate ==
  /\ load.at = "read" /\ load' = [load EXCEPT !.at = "none", !.w = None]
  /\ hydrated' = TRUE
  /\ LET w == Hydrated(load.w)
         texts == IF shown # initial.has[initial.active] THEN {shown}
                  ELSE IF w.active \in There(w) THEN {w.has[w.active]}
                  ELSE IF There(w) # {} THEN {w.has[t] : t \in There(w)} ELSE {1}
     IN  \E text \in texts : Effects(w, text)
  /\ UNCHANGED <<open, initial, indexed, own, legacy, wipe, opens, writes, want>>

UserStep(w, text) ==
  /\ open /\ UNCHANGED <<open, initial, hydrated>>
  /\ Effects(w, text)
  /\ UNCHANGED <<load, indexed, own, legacy, wipe, opens>>

\* A turn is over: the new text goes into the active conversation.
Writes ==
  /\ writes < MaxWrites + 2 /\ writes' = writes + 1
  /\ UserStep(mem, writes + 1) /\ want' = [want EXCEPT ![mem.active] = writes + 1]

Selects ==
  \E t \in There(mem) \ {mem.active} :
    UserStep([mem EXCEPT !.active = t], mem.has[t]) /\ UNCHANGED <<writes, want>>

News ==
  \E t \in Unused \ There(load.w) :
    UserStep([active |-> t, has |-> [mem.has EXCEPT ![t] = 1]], 1) /\ UNCHANGED <<writes, want>>

Deletes ==
  \E t \in There(mem) :
    LET left == [mem EXCEPT !.has[t] = 0] IN
    /\ \/ t # mem.active /\ UserStep(left, shown)
       \/ /\ t = mem.active
          /\ \E r \in There(left) : UserStep([left EXCEPT !.active = r], mem.has[r])
       \/ /\ There(left) = {} /\ \E r \in Unused \ There(load.w) : UserStep(Default(r), 1)
    /\ want' = [want EXCEPT ![t] = 0] /\ UNCHANGED writes

\* Mutant: the saves overtake each other.
Saved_Reordered ==
  /\ saves # <<>> /\ saves' = SubSeq(saves, 1, Len(saves) - 1)
  /\ indexed' = saves[Len(saves)]
  /\ UNCHANGED <<memory, load, local, own, legacy, wipe, opens, writes, ghosts>>

\* storageAdapter.set: IndexedDB or else the mirror, and if that throws too, the
\* panel's own database.
Saved ==
  /\ saves # <<>> /\ saves' = Tail(saves)
  /\ \/ indexed' = Head(saves) /\ UNCHANGED <<local, own, faults>>
     \/ local' = Head(saves) /\ Fault /\ UNCHANGED <<indexed, own>>
     \/ own' \in {Head(saves), own} /\ Fault /\ UNCHANGED <<indexed, local>>
  /\ UNCHANGED <<memory, load, legacy, wipe, opens, writes, want>>

\* The window is closed, or the program dies: what is under way is lost.
Closes ==
  /\ open /\ open' = FALSE /\ hydrated' = FALSE
  /\ saves' = <<>> /\ load' = [load EXCEPT !.at = "none", !.w = None]
  /\ IF saves = <<>> /\ (hydrated \/ mem = initial) /\ local = indexed THEN UNCHANGED faults ELSE Fault
  /\ mem' = None /\ initial' = None /\ shown' = 1
  /\ wipe' = IF wipe \in {"adapter", "own"} THEN "no" ELSE wipe
  /\ UNCHANGED <<copies, opens, writes, want>>

-----------------------------------------------------------------------------
\* Settings: clearChatWorkspace.  The workspace in memory is not told.

WipeBegins ==
  /\ open /\ wipe = "no" /\ wipe' = "adapter"
  /\ local' = None /\ legacy' = None /\ Fault
  /\ UNCHANGED <<memory, load, saves, indexed, own, opens, writes, want>>

WipeAdapter ==
  /\ wipe = "adapter" /\ wipe' = "own"
  /\ indexed' \in {None, indexed} /\ local' = None
  /\ UNCHANGED <<memory, load, saves, own, legacy, opens, writes, ghosts>>

WipeOwn ==
  /\ wipe = "own" /\ wipe' = "done" /\ own' \in {None, own}
  /\ UNCHANGED <<memory, load, saves, local, indexed, legacy, opens, writes, ghosts>>

Next ==
  \/ Opens \/ LoadReads \/ Hydrate \/ Writes \/ Selects \/ News \/ Deletes \/ Saved \/ Closes
  \/ WipeBegins \/ WipeAdapter \/ WipeOwn

Spec == Init /\ [][Next]_vars

-----------------------------------------------------------------------------
\* As long as storage works and the window is not closed in the middle of a
\* save, every conversation of a hydrated workspace has the text last written into
\* it, whatever the user wrote, created or deleted before or while it was
\* hydrated, and no deleted one returns.
Recovered ==
  faults = 0 /\ hydrated => \A t \in Threads :
    (mem.has[t] > 1 \/ want[t] > 1) => mem.has[t] = want[t]

\* Once no save is under way, IndexedDB, which the next start reads, has what
\* the panel shows.
Stored ==
  faults = 0 /\ hydrated /\ saves = <<>> => Persisted(mem) = {indexed}
===============================================================================
