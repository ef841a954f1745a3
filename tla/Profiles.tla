-------------------------------- MODULE Profiles --------------------------------
(***************************************************************************)
(* Execution profiles: the store in local storage (modelProfiles.ts) and   *)
(* the section that edits it (panels/ExecutionProfiles.tsx), for server    *)
(* and model profiles, which work alike, of one model.  A profile is its   *)
(* id and a version of its content.                                        *)
(***************************************************************************)
EXTENDS Naturals, Sequences

CONSTANTS
  MaxIds,       \* bound: profiles made
  MaxVersions   \* bound: edits

VARIABLE profiles
vars == <<profiles>>

Kinds == {"server", "model"}
Profile == [id : 1..MaxIds, v : 0..MaxVersions]
\* The elements of s that are in S, in their order (Array.prototype.filter).
Among(s, S) ==
  LET Kept[i \in 0..Len(s)] ==
        IF i = 0 THEN <<>> ELSE IF s[i] \in S THEN Append(Kept[i - 1], s[i]) ELSE Kept[i - 1]
  IN  Kept[Len(s)]

IdsOf(list) == {list[i].id : i \in DOMAIN list}
Of(list, id) == list[CHOOSE i \in DOMAIN list : list[i].id = id]
Without(list, id) == Among(list, {p \in Profile : p.id # id})

TypeOK ==
  \A k \in Kinds :
    LET s == profiles.sec[k] IN
    /\ s.stored \in Seq(Profile) /\ s.view \in Seq(Profile)
    /\ s.active \in 1..MaxIds /\ s.shown \in IdsOf(s.view) /\ s.draft \in Profile

\* loadProfiles: a stored selection that is gone becomes the first profile.
Load(s) ==
  LET active == IF s.active \in IdsOf(s.stored) THEN s.active ELSE s.stored[1].id
  IN  [s EXCEPT !.view = s.stored, !.active = active, !.shown = active, !.draft = Of(s.stored, active)]
Loads(p) == [p EXCEPT !.sec = [k \in Kinds |-> Load(p.sec[k])]]

\* What is stored when the section opens: nothing, and a default is made, or
\* some profiles, one of them active, or one that is gone.
Init ==
  \E n \in 1..MaxIds - 1, active \in 1..MaxIds :
    profiles = Loads([ sec |-> [k \in Kinds |->
                         [stored |-> [i \in 1..n |-> [id |-> i, v |-> 0]], active |-> active,
                          view |-> <<>>, shown |-> 1, draft |-> [id |-> 1, v |-> 0]]],
                       applying |-> {}, ids |-> n, versions |-> 0 ])

\* saveServerProfile, saveModelProfile: at the end of the store, in place in the list.
Store(s, p) == [s EXCEPT !.stored = Append(Without(@, p.id), p)]
Save(s, p) ==
  [Store(s, p) EXCEPT !.view = [i \in DOMAIN @ |-> IF @[i].id = p.id THEN p ELSE @[i]],
                      !.draft = IF s.shown = p.id THEN p ELSE @]
\* saveProfileSelection
Choose(s, id) == [s EXCEPT !.shown = id, !.active = id, !.draft = Of(s.view, id)]

Set(k, s) == profiles' = [profiles EXCEPT !.sec[k] = s]

Select == \E k \in Kinds : \E id \in IdsOf(profiles.sec[k].view) : Set(k, Choose(profiles.sec[k], id))

Edit ==
  \E k \in Kinds :
    /\ profiles.versions < MaxVersions
    /\ profiles' = [profiles EXCEPT !.sec[k].draft.v = profiles.versions + 1, !.versions = @ + 1]

SaveDraft == \E k \in Kinds : Set(k, Save(profiles.sec[k], profiles.sec[k].draft))

Renamed ==
  \E k \in Kinds :
    LET s == profiles.sec[k] IN
    /\ profiles.versions < MaxVersions
    /\ profiles' = [profiles EXCEPT !.versions = @ + 1,
                      !.sec[k] = Save(s, [id |-> s.shown, v |-> profiles.versions + 1])]

\* newServer, newModel; duplicateServerActive, duplicateModelActive
Add ==
  \E k \in Kinds :
    LET s == profiles.sec[k] IN
    /\ profiles.ids < MaxIds
    /\ \E v \in {0, Of(s.view, s.shown).v} :
         LET p == [id |-> profiles.ids + 1, v |-> v] IN
         profiles' = [profiles EXCEPT !.ids = @ + 1,
                        !.sec[k] = Choose(Store([s EXCEPT !.view = Append(@, p)], p), p.id)]

\* Mutant: the active profile is not changed.
Deleted_KeepsActive(s) ==
  IF Len(s.stored) <= 1 THEN s ELSE [s EXCEPT !.stored = Without(@, s.shown)]

\* deleteServerProfile, deleteModelProfile, of the one shown.
Deleted(s) ==
  IF Len(s.stored) <= 1 THEN s
  ELSE LET left == Without(s.stored, s.shown)
       IN  [s EXCEPT !.stored = left, !.active = IF @ = s.shown THEN left[1].id ELSE @]

Delete ==
  \E k \in Kinds :
    LET s == profiles.sec[k] left == Without(s.view, s.shown) IN
    /\ Len(s.view) > 1
    /\ Set(k, [Deleted(s) EXCEPT !.view = left, !.shown = left[1].id, !.draft = left[1]])

\* apply: both drafts are patched into the configuration and, once that is
\* saved, stored; the new configuration loads the profiles again.
Apply ==
  LET drafts == [k \in Kinds |-> profiles.sec[k].draft] IN
  profiles.applying = {} /\ profiles' = [profiles EXCEPT !.applying = {drafts}]

ApplyReturns ==
  \E drafts \in profiles.applying :
    \/ profiles' = Loads([profiles EXCEPT !.applying = {},
                            !.sec = [k \in Kinds |-> Save(profiles.sec[k], drafts[k])]])
    \/ profiles' = [profiles EXCEPT !.applying = {}]  \* failed

\* The configuration changes for another reason; unsaved drafts go.
ConfigChanges == profiles' = Loads(profiles)

Next ==
  \/ Select \/ Edit \/ SaveDraft \/ Renamed \/ Add \/ Delete \/ Apply \/ ApplyReturns \/ ConfigChanges

Spec == Init /\ [][Next]_vars

-----------------------------------------------------------------------------
\* The store always has a profile, ids are unique in it, what the section
\* lists is in it, and the selection the chat reads from it names one of them,
\* also when a profile was deleted while it was being applied.
SelectionIsStored ==
  \A k \in Kinds :
    LET s == profiles.sec[k] IN
    /\ s.stored # <<>> /\ s.active \in IdsOf(s.stored) /\ IdsOf(s.view) \subseteq IdsOf(s.stored)
    /\ \A i, j \in DOMAIN s.stored : s.stored[i].id = s.stored[j].id => i = j
================================================================================
