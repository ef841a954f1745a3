------------------------------ MODULE SamplerChain ------------------------------
(***************************************************************************)
(* The order of samplers in the tuning panel (TuningSamplerChain.tsx and   *)
(* updateSamplerChain of useTuningController.ts): a draft that is moved,   *)
(* dragged, cut and extended, each change saved through the configuration  *)
(* queue, while every render of the panel brings the configuration's chain *)
(* back.                                                                   *)
(***************************************************************************)
EXTENDS Naturals, Sequences, Functions

CONSTANTS
  Samplers,  \* SAMPLER_CHAIN_OPTIONS
  Limit,     \* samplers a chain keeps
  NoIndex,
  MaxQueue   \* bound: changes that wait to be saved

VARIABLE chain
vars == <<chain>>

Chains(n) == UNION {[1..k -> Samplers] : k \in 0..n}

TypeOK ==
  /\ chain.draft \in Chains(Limit) /\ chain.dragged \in 1..Limit \cup {NoIndex}
  /\ Len(chain.queue) <= MaxQueue /\ chain.saving \in BOOLEAN

\* Mutant: only the length is looked at.
Normalized_Cut(value) == SubSeq(value, 1, IF Len(value) < Limit THEN Len(value) ELSE Limit)

\* normalizeSamplerChain
Normalized(value) ==
  LET Once[i \in 0..Len(value)] ==
        IF i = 0 THEN <<>>
        ELSE IF value[i] \in Range(Once[i - 1]) THEN Once[i - 1] ELSE Append(Once[i - 1], value[i])
      all == Once[Len(value)]
  IN  SubSeq(all, 1, IF Len(all) < Limit THEN Len(all) ELSE Limit)

\* A configuration written by hand may name a sampler twice, or too many.
Init ==
  \E value \in Chains(Limit + 1) :
    chain = [ config |-> value, draft |-> Normalized(value), dragged |-> NoIndex,
              queue |-> <<>>, saving |-> FALSE, before |-> <<>>,  \* the save under way, and what it replaces
              by |-> "config", last |-> <<>> ]                     \* the last change, for the properties

\* publish: the draft is shown and goes to the queue.
Published(how, next) ==
  /\ Len(chain.queue) < MaxQueue
  /\ chain' = [chain EXCEPT !.draft = Normalized(next), !.queue = Append(@, Normalized(next)),
                            !.by = how, !.last = chain.draft]

Move ==
  \E i \in DOMAIN chain.draft :
    i < Len(chain.draft) /\ Published("move",
      [chain.draft EXCEPT ![i] = chain.draft[i + 1], ![i + 1] = chain.draft[i]])

DragStart == \E i \in DOMAIN chain.draft : chain' = [chain EXCEPT !.dragged = i]
DragEnd == chain.dragged # NoIndex /\ chain' = [chain EXCEPT !.dragged = NoIndex]

\* splice: one taken out, and one put in.
RemoveAt(s, i) == SubSeq(s, 1, i - 1) \o SubSeq(s, i + 1, Len(s))
InsertAt(s, i, x) == SubSeq(s, 1, i - 1) \o <<x>> \o SubSeq(s, i, Len(s))

\* Mutant: the place of the drop is counted before the sampler is taken out.
Drop_Before ==
  \E to \in DOMAIN chain.draft :
    /\ chain.dragged \in DOMAIN chain.draft \ {to}
    /\ Published("drop", RemoveAt(InsertAt(chain.draft, to, chain.draft[chain.dragged]), chain.dragged))

\* The dragged sampler is taken out and put at the place of the drop.  If the chain has
\* become shorter meanwhile there is none, and the handler throws.
Drop ==
  \E to \in DOMAIN chain.draft :
    /\ chain.dragged \in DOMAIN chain.draft \ {to}
    /\ Len(chain.queue) < MaxQueue
    /\ LET next == Normalized(InsertAt(RemoveAt(chain.draft, chain.dragged), to, chain.draft[chain.dragged]))
       IN  chain' = [chain EXCEPT !.draft = next, !.queue = Append(@, next), !.dragged = NoIndex,
                                  !.by = "drop", !.last = chain.draft]

TakeOut == \E i \in DOMAIN chain.draft : Published("remove", RemoveAt(chain.draft, i))
AddSelected == \E s \in Samplers \ Range(chain.draft) : Published("add", Append(chain.draft, s))

-----------------------------------------------------------------------------
\* A render of the panel makes a new array of the configuration's chain, so the
\* effect of the editor runs, whether or not that has changed.
Rendered(c, config) == [c EXCEPT !.config = config, !.draft = Normalized(config), !.by = "config"]
Render == chain' = Rendered(chain, chain.config)

\* The queue publishes a change when its turn comes, and what was before it if
\* the save fails.
SaveBegins ==
  /\ ~chain.saving /\ chain.queue # <<>>
  /\ chain' = Rendered([chain EXCEPT !.saving = TRUE, !.before = chain.config, !.queue = Tail(@)], Head(chain.queue))

SaveEnds ==
  /\ chain.saving
  /\ \E config \in {chain.config, chain.before} :
       chain' = Rendered([chain EXCEPT !.saving = FALSE, !.before = <<>>], config)

Next == Move \/ DragStart \/ DragEnd \/ Drop \/ TakeOut \/ AddSelected \/ Render \/ SaveBegins \/ SaveEnds

Spec == Init /\ [][Next]_vars

-----------------------------------------------------------------------------
\* The elements of s that are in S, in their order for the properties.
Among(s, S) ==
  LET Kept[i \in 0..Len(s)] ==
        IF i = 0 THEN <<>> ELSE IF s[i] \in S THEN Append(Kept[i - 1], s[i]) ELSE Kept[i - 1]
  IN  Kept[Len(s)]

\* Whatever is shown, saved or waits to be has each sampler once, and a click, key
\* or drop changes the place or presence of one sampler only: the others keep their
\* order, and reordering loses none.
OneAtATime ==
  LET Without(s, x) == Among(s, Samplers \ {x}) IN
  /\ \A s \in {chain.draft} \cup Range(chain.queue) : IsInjective(s) /\ Len(s) <= Limit
  /\ chain.by # "config" =>
       /\ \E x \in Samplers : Without(chain.draft, x) = Without(chain.last, x)
       /\ chain.by \in {"move", "drop"} => Range(chain.draft) = Range(chain.last)

\* Once nothing waits to be saved and no drag or click has come since the last
\* render, the editor shows the configuration's chain, also after a refused save.
ShowsConfig == chain.by = "config" => chain.draft = Normalized(chain.config)
===============================================================================
