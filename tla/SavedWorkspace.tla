----------------------------- MODULE SavedWorkspace -----------------------------
(***************************************************************************)
(* What chatHistory.ts keeps of a workspace and reads back: the active     *)
(* conversation first, a bounded number of conversations and messages with *)
(* bounded texts, no empty conversation but the active one, and nothing    *)
(* that an earlier version has left unreadable.  A workspace is built      *)
(* conversation by conversation and message by message.                    *)
(***************************************************************************)
EXTENDS Naturals, Sequences, Functions

CONSTANTS
  THREADS_LIMIT, MESSAGES_LIMIT, TEXT_LIMIT, IMAGE_LIMIT, RAW_LIMIT,
  Texts, Images,  \* lengths; an image of length 0 has lost its data
  MaxThreads, MaxMessages,
  Nothing

VARIABLE kept
vars == <<kept>>

Messages == [text : Texts, image : Images]
Ids == 1..MaxThreads

TypeOK ==
  /\ Len(kept.threads) <= MaxThreads /\ kept.active \in Ids
  /\ \A i \in DOMAIN kept.threads : LET t == kept.threads[i] IN
       t.id \in Ids /\ t.readable \in BOOLEAN /\ Range(t.messages) \subseteq Messages

\* The elements of s that are in S, in their order (Array.prototype.filter).
Among(s, S) ==
  LET Kept[i \in 0..Len(s)] ==
        IF i = 0 THEN <<>> ELSE IF s[i] \in S THEN Append(Kept[i - 1], s[i]) ELSE Kept[i - 1]
  IN  Kept[Len(s)]

AtMost(n, limit) == IF n < limit THEN n ELSE limit
HasThread(w, id) == \E i \in DOMAIN w.threads : w.threads[i].id = id

\* Mutant: the oldest messages are kept.
Newest_Oldest(ms) == SubSeq(ms, 1, AtMost(Len(ms), MESSAGES_LIMIT))
Newest(ms) == SubSeq(ms, Len(ms) - AtMost(Len(ms), MESSAGES_LIMIT) + 1, Len(ms))

SafeMessage(m) ==
  [text |-> AtMost(m.text, TEXT_LIMIT), image |-> IF m.image <= IMAGE_LIMIT THEN m.image ELSE 0]
SafeThread(t) ==
  [t EXCEPT !.messages = [i \in DOMAIN Newest(t.messages) |-> SafeMessage(Newest(t.messages)[i])]]

\* Mutant: the order is left as it is.
Ordered_AsIs(w) == w.threads
Ordered(w) ==
  LET active == {t \in Range(w.threads) : t.id = w.active}
  IN  Among(w.threads, active) \o Among(w.threads, Range(w.threads) \ active)

\* localSafeWorkspace
LocalSafe(w) ==
  LET first == SubSeq(Ordered(w), 1, AtMost(Len(w.threads), THREADS_LIMIT))
  IN  [w EXCEPT !.threads = [i \in DOMAIN first |-> SafeThread(first[i])]]

\* persistedWorkspace
Persisted(w) ==
  LET safe == LocalSafe(w)
      threads == Among(safe.threads, {t \in Range(safe.threads) : t.messages # <<>> \/ t.id = safe.active})
      left == IF threads # <<>> THEN threads ELSE <<safe.threads[1]>>
  IN  [active |-> IF HasThread([safe EXCEPT !.threads = threads], safe.active) THEN safe.active
                  ELSE IF threads # <<>> THEN threads[1].id ELSE safe.active,
       threads |-> left]

\* Mutant: one conversation that cannot be read makes the workspace unreadable.
Normalized_AllOrNothing(w) ==
  IF w.threads = <<>> \/ \E i \in DOMAIN w.threads : ~w.threads[i].readable THEN Nothing ELSE w

\* normalizeWorkspace
Normalized(w) ==
  LET threads == Among(w.threads, {t \in Range(w.threads) : t.readable})
  IN  IF threads = <<>> THEN Nothing
      ELSE [active |-> IF HasThread([w EXCEPT !.threads = threads], w.active) THEN w.active ELSE threads[1].id,
            threads |-> threads]

Length(ms) == SumFunction([i \in DOMAIN ms |-> ms[i].text + ms[i].image])
Raw(w) == SumFunction([i \in DOMAIN w.threads |-> 1 + Length(w.threads[i].messages)])

\* parseWorkspace of what was written into localStorage.
Parsed(w) == IF Raw(w) <= RAW_LIMIT THEN Normalized(w) ELSE Nothing

-----------------------------------------------------------------------------
\* Whatever workspace an earlier version, or this one, may have stored.
Init == kept = [threads |-> <<>>, active |-> 1]

NewThread ==
  /\ Len(kept.threads) < MaxThreads
  /\ \E readable \in BOOLEAN :
       kept' = [kept EXCEPT !.threads = Append(@, [id |-> Len(@) + 1, readable |-> readable, messages |-> <<>>])]

NewMessage ==
  /\ SumFunction([i \in DOMAIN kept.threads |-> Len(kept.threads[i].messages)]) < MaxMessages
  /\ \E i \in DOMAIN kept.threads, m \in Messages :
       kept' = [kept EXCEPT !.threads[i].messages = Append(@, m)]

Select == \E id \in Ids \ {kept.active} : kept' = [kept EXCEPT !.active = id]

Next == NewThread \/ NewMessage \/ Select

Spec == Init /\ [][Next]_vars

-----------------------------------------------------------------------------
\* What is read of a stored workspace has every conversation that can be read,
\* and the active one if that can be.
NoneDragsAnother ==
  kept.threads # <<>> /\ (\E i \in DOMAIN kept.threads : kept.threads[i].readable) =>
    LET w == Normalized(kept) IN
    /\ w # Nothing /\ HasThread(w, w.active)
    /\ \A i \in DOMAIN kept.threads : kept.threads[i].readable =>
         /\ kept.threads[i] \in Range(w.threads)
         /\ kept.threads[i].id = kept.active => w.active = kept.active

\* The active conversation is among those kept, whichever else there are, with
\* its newest messages; saving what was read back changes nothing, and what was
\* written is what is read back, if it is not too long to be read.
ReadsBack ==
  LET p == Persisted(kept)
      all == \A i \in DOMAIN kept.threads : kept.threads[i].readable
  IN  HasThread(kept, kept.active) =>
        /\ Persisted(p) = p
        /\ all /\ Raw(p) <= RAW_LIMIT => Parsed(p) = p
        /\ HasThread(p, p.active)
        /\ \A i \in DOMAIN kept.threads : kept.threads[i].id = kept.active =>
             LET was == kept.threads[i].messages
                 now == p.threads[1].messages
             IN  /\ p.active = kept.active /\ p.threads[1].id = kept.active
                 /\ was # <<>> => now # <<>> /\ now[Len(now)] = SafeMessage(was[Len(was)])
===============================================================================
