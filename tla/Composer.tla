-------------------------------- MODULE Composer --------------------------------
(***************************************************************************)
(* What a message is composed of besides its text: images and documents    *)
(* (useChatAttachments.ts), the documents the active project binds to the  *)
(* chat (Chat.tsx), and the MCP tools offered to the model, each under a   *)
(* function name of its own (useChatMcpTools.ts, mcpUtils.ts).             *)
(***************************************************************************)
EXTENDS Naturals, Sequences, FiniteSets, Functions

CONSTANTS
  Paths,
  Entries,      \* server and tool pairs
  BaseOf,       \* mcpFunctionName of each, cut to the longest name: sequences
  ProjectTools, \* toolIds of a project
  MaxAttached,  \* documents, and images, of one message (4)
  MaxName,      \* characters of a function name (96)
  MaxSteps      \* bound: requests for a document, a binding or the catalog

VARIABLE composer
vars == <<composer>>

\* The elements of s that are in S, in their order (Array.prototype.filter).
Among(s, S) ==
  LET Kept[i \in 0..Len(s)] ==
        IF i = 0 THEN <<>> ELSE IF s[i] \in S THEN Append(Kept[i - 1], s[i]) ELSE Kept[i - 1]
  IN  Kept[Len(s)]

Unbound == <<>>
Bound == {<<p, q>> : p \in Paths, q \in Paths} \cup {<<p>> : p \in Paths}
Document == [path : Paths, by : {"user", "project"}]

TypeOK ==
  /\ composer.documents \in Seq(Document) /\ composer.images \in 0..MaxAttached
  /\ Len(composer.documents) <= MaxAttached
  /\ composer.status \in {"idle", "reading", "ready", "failed"}
  /\ composer.reading \subseteq Paths \cup {"image"}
  /\ composer.starting \in Nat /\ composer.going \in Nat
  /\ composer.phase \in {"idle", "sending"} /\ composer.project \in Bound \cup {Unbound}
  /\ \A b \in composer.bindings : b.epoch \in 0..composer.epoch /\ b.docs \in Bound
  /\ composer.catalog \in Seq(Entries) /\ composer.selected \subseteq Entries
  /\ composer.loading \in BOOLEAN

\* applyActiveProjectBinding: the project's tools at once, its documents once read.
Bind(c) ==
  IF c.project = Unbound \/ c.phase # "idle" THEN c
  ELSE [c EXCEPT !.bindings = @ \cup {[epoch |-> c.epoch, docs |-> c.project]}, !.selected = ProjectTools]

Init ==
  \E project \in Bound \cup {Unbound} :
    composer = Bind([ documents |-> <<>>, images |-> 0, status |-> "idle",
                      reading |-> {},    \* files the user chose, being read
                      phase |-> "idle", epoch |-> 0, project |-> project,
                      starting |-> 0,    \* sends between their beginning and setDocuments([])
                      going |-> 0,       \* and from there, or from a tool's call, to their end
                      bindings |-> {},   \* documents of a project, being read
                      catalog |-> <<>>, selected |-> {}, loading |-> FALSE, steps |-> 0 ])

Steps == composer.steps < MaxSteps

\* addImage, addDocument: a file is chosen and read.
Choose ==
  \E f \in Paths \cup {"image"} :
    /\ Steps /\ f \notin composer.reading
    /\ composer' = [composer EXCEPT !.reading = @ \cup {f}, !.status = "reading", !.steps = @ + 1]

\* Mutant: the limit is not applied.
AddDocument_NoLimit(c, p) == [c EXCEPT !.documents = Append(@, [path |-> p, by |-> "user"])]

AddDocument(c, p) ==
  IF Len(c.documents) >= MaxAttached \/ \E i \in DOMAIN c.documents : c.documents[i].path = p THEN c
  ELSE [c EXCEPT !.documents = Append(@, [path |-> p, by |-> "user"])]

FileRead ==
  \E f \in composer.reading :
    LET c == [composer EXCEPT !.reading = @ \ {f}, !.status = "ready"] IN
    \/ f # "image" /\ composer' = AddDocument(c, f)
    \/ f = "image" /\ composer' = [c EXCEPT !.images = IF @ >= MaxAttached THEN @ ELSE @ + 1]
    \/ \E s \in {"failed", "idle"} : composer' = [c EXCEPT !.status = s]  \* or none was chosen

RemoveDocument ==
  \E p \in Paths :
    /\ \E i \in DOMAIN composer.documents : composer.documents[i].path = p
    /\ composer' = [composer EXCEPT !.documents = Among(@, {d \in Range(@) : d.path # p})]
RemoveAttachment == composer.images > 0 /\ \E n \in 0..composer.images - 1 : composer' = [composer EXCEPT !.images = n]

\* clearComposerAttachments: the thread changed.
Clear ==
  /\ composer.documents # <<>> \/ composer.images > 0
  /\ composer' = [composer EXCEPT !.documents = <<>>, !.images = 0, !.status = "idle"]

-----------------------------------------------------------------------------
\* The chat's phase changes, and its effect binds the project anew; what the
\* effect before it was still reading is cancelled by the epoch.
PhaseIs(c, p) == IF c.phase = p THEN c ELSE Bind([c EXCEPT !.phase = p, !.epoch = @ + 1])

\* send takes what is attached, and waits: for the back end to count it, for embeddings.
Send ==
  /\ Steps /\ composer.phase = "idle"
  /\ composer' = [composer EXCEPT !.starting = @ + 1, !.steps = @ + 1]
SendFails ==
  /\ composer.starting > 0
  /\ composer' = PhaseIs([composer EXCEPT !.starting = @ - 1], "idle")

\* Then it goes out, and unless it is a retry it removes whatever is attached by now.
SendGoes ==
  /\ composer.starting > 0
  /\ \E retry \in BOOLEAN :
       composer' = PhaseIs([composer EXCEPT !.starting = @ - 1, !.going = @ + 1,
                              !.documents = IF retry THEN @ ELSE <<>>, !.images = IF retry THEN @ ELSE 0], "sending")

\* approvePendingTool: it is called, and its result goes out with nothing removed.
RunsTool ==
  /\ Steps /\ composer.phase = "idle"
  /\ composer' = PhaseIs([composer EXCEPT !.going = @ + 1, !.steps = @ + 1], "sending")

\* An answer's text sets the phase again, which the end of another send may have ended.
Streams == composer.going > 0 /\ composer' = PhaseIs(composer, "sending")
SendEnds == composer.going > 0 /\ composer' = PhaseIs([composer EXCEPT !.going = @ - 1], "idle")

\* PROJECTS_CHANGED_EVENT, within the same effect.
ProjectChanges ==
  \E project \in Bound \cup {Unbound} :
    /\ Steps /\ project # composer.project
    /\ composer' = Bind([composer EXCEPT !.project = project, !.steps = @ + 1])

\* Mutant: documents read for an earlier binding are taken.
BoundRead_EvenLate(c, b, docs) == [c EXCEPT !.bindings = @ \ {b}, !.documents = docs]

BoundRead(c, b, docs) ==
  IF b.epoch # c.epoch THEN [c EXCEPT !.bindings = @ \ {b}]
  ELSE [c EXCEPT !.bindings = @ \ {b}, !.documents = docs]

\* Those of the bound documents that could be read.
BindingRead ==
  \E b \in composer.bindings : \E readable \in SUBSET Paths :
    LET read == Among(b.docs, readable)
        docs == [i \in 1..(IF Len(read) < MaxAttached THEN Len(read) ELSE MaxAttached) |->
                   [path |-> read[i], by |-> "project"]]
    IN  composer' = BoundRead(composer, b, docs)

-----------------------------------------------------------------------------
\* The tools a refresh finds, in the order of their servers.
Listed(es) == CHOOSE s \in [1..Cardinality(es) -> es] : IsInjective(s)

\* refreshMcpTools: the tools of every server that is on.
Refresh == Steps /\ ~composer.loading /\ composer' = [composer EXCEPT !.loading = TRUE, !.steps = @ + 1]
Refreshed ==
  /\ composer.loading
  /\ \/ \E es \in SUBSET Entries :
          composer' = [composer EXCEPT !.loading = FALSE, !.catalog = Listed(es), !.selected = es]
     \/ composer' = [composer EXCEPT !.loading = FALSE]
ToggleMcpTool ==
  \E e \in {composer.catalog[i] : i \in DOMAIN composer.catalog} :
    composer' = [composer EXCEPT !.selected = IF e \in @ THEN @ \ {e} ELSE @ \cup {e}]

Cut(name, n) == SubSeq(name, 1, IF Len(name) < n THEN Len(name) ELSE n)
Marked(base, n) == Append(Cut(base, MaxName - 1), n)  \* the marker is _n

\* Mutant: no number is appended to a name in use.
Candidate_Base(base, used) == base

\* The first of base, base_2, base_3, ... that is not used.
Candidate(base, used) ==
  IF base \notin used THEN base
  ELSE Marked(base, CHOOSE n \in 2..Cardinality(used) + 2 :
                      /\ Marked(base, n) \notin used
                      /\ \A m \in 2..n - 1 : Marked(base, m) \in used)

\* buildMcpFunctionNames
FunctionNames(entries) ==
  LET Names[i \in 0..Len(entries)] ==
        IF i = 0 THEN <<>>
        ELSE Append(Names[i - 1], Candidate(BaseOf[entries[i]], Range(Names[i - 1])))
  IN  Names[Len(entries)]

Offered == Among(composer.catalog, composer.selected)

Next ==
  \/ Choose \/ FileRead \/ RemoveDocument \/ RemoveAttachment \/ Clear
  \/ Send \/ SendFails \/ SendGoes \/ RunsTool \/ Streams \/ SendEnds
  \/ ProjectChanges \/ BindingRead \/ Refresh \/ Refreshed \/ ToggleMcpTool

Spec == Init /\ [][Next]_vars

-----------------------------------------------------------------------------
\* The model calls a tool by its function name alone: the names offered with a
\* message are distinct and short enough, also where two servers' tools have
\* the same name or names that differ only in what is cut or replaced.
NamesTellToolsApart ==
  LET names == FunctionNames(Offered) IN
  /\ Len(names) = Len(Offered) /\ IsInjective(names)
  /\ \A i \in DOMAIN names : Len(names[i]) <= MaxName

\* While a message is on its way no document of a project appears in the composer,
\* however sends overlap: a binding that was read too late is dropped (Chat.tsx:91).
\* Before it goes out, while it waits, one may appear, and is removed with the rest.
Projects(c) == {c.documents[i].path : i \in {j \in DOMAIN c.documents : c.documents[j].by = "project"}}
NothingBoundWhileSending ==
  composer.phase = "sending" /\ composer'.phase = "sending" => Projects(composer') \subseteq Projects(composer)
================================================================================
