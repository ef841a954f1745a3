----------------------------- MODULE LoadingProfiles -----------------------------
(***************************************************************************)
(* The loading profiles of the Runtimes panel (useRuntimesController.ts,   *)
(* runtimeUtils.ts): the runtime, the model and the launch settings under  *)
(* a name, kept in the browser's storage, which may refuse.  A profile is  *)
(* taken from the configuration as it is and applied to it as a whole.     *)
(***************************************************************************)
EXTENDS Naturals, Sequences

CONSTANTS
  Names,        \* names that may be typed
  LongNames,    \* those of them that are too long to be read back
  Backends,     \* runtimes by their back end
  Path,         \* the runtime of the PATH, which has none
  Limit,        \* profiles kept (20)
  MaxIds        \* bound: profiles made

VARIABLE loading
vars == <<loading>>

Profile == [id : 1..MaxIds, name : Names, backend : Backends \cup {Path}, ngl : {0, 99}]
Setting == [backend : Backends \cup {Path}, ngl : {0, 99}]  \* the part of the configuration

TypeOK ==
  /\ \A list \in {loading.shown, loading.stored} : list \in Seq(Profile) /\ Len(list) <= Limit
  /\ loading.cfg \in Setting /\ {loading.running, loading.refused} \subseteq BOOLEAN
  /\ loading.ids \in 0..MaxIds

Init == \E cfg \in Setting :
  loading = [ shown |-> <<>>, stored |-> <<>>, cfg |-> cfg, running |-> FALSE,
              refused |-> FALSE,   \* the storage refused the last write
              ids |-> 0 ]

\* validLoadingProfile: names and the back end are texts that are not empty
\* nor too long; the numbers of a configuration are always within its ranges.
Valid == {p \in Profile : p.backend # Path /\ p.name \notin LongNames}

\* The elements of s that are in S, in their order (Array.prototype.filter).
Among(s, S) ==
  LET Kept[i \in 0..Len(s)] ==
        IF i = 0 THEN <<>> ELSE IF s[i] \in S THEN Append(Kept[i - 1], s[i]) ELSE Kept[i - 1]
  IN  Kept[Len(s)]

Taken(list, n) == SubSeq(list, 1, IF Len(list) < n THEN Len(list) ELSE n)

\* writeLoadingProfiles: an error of the storage is swallowed.
Shows(list) ==
  \/ loading' = [loading EXCEPT !.shown = list, !.stored = Taken(Among(list, Valid), Limit), !.refused = FALSE,
                   !.ids = IF list # <<>> /\ list[1].id > @ THEN list[1].id ELSE @]
  \/ loading' = [loading EXCEPT !.shown = list, !.refused = TRUE,
                   !.ids = IF list # <<>> /\ list[1].id > @ THEN list[1].id ELSE @]

\* Mutant: a profile of the same name stays.
Saved_Beside(profile, list) == Taken(<<profile>> \o list, Limit)

\* saveProfile: in front of the others, in the place of one of the same name.
Saved(profile, list) == Taken(<<profile>> \o Among(list, {item \in Profile : item.name # profile.name}), Limit)

SaveProfile ==
  /\ ~loading.running /\ loading.ids < MaxIds
  /\ \E name \in Names :
       Shows(Saved([id |-> loading.ids + 1, name |-> name, backend |-> loading.cfg.backend, ngl |-> loading.cfg.ngl],
                   loading.shown))

\* removeProfile
RemoveProfile ==
  \E i \in DOMAIN loading.shown :
    Shows(Among(loading.shown, {item \in Profile : item.id # loading.shown[i].id}))

\* applyProfile: through the save queue, which may fail.
ApplyProfile ==
  /\ ~loading.running
  /\ \E i \in DOMAIN loading.shown :
       loading' = [loading EXCEPT !.cfg = [backend |-> loading.shown[i].backend, ngl |-> loading.shown[i].ngl]]

\* Other panels, the server, and the next start of the app (readLoadingProfiles).
Changes == \E cfg \in Setting : loading' = [loading EXCEPT !.cfg = cfg]
Server == loading' = [loading EXCEPT !.running = ~@]
Reopen == loading' = [loading EXCEPT !.shown = Among(loading.stored, Valid), !.refused = FALSE]

Next == SaveProfile \/ RemoveProfile \/ ApplyProfile \/ Changes \/ Server \/ Reopen
Spec == Init /\ [][Next]_vars

\* The list that is shown is the list that the next start shows, as far as its
\* profiles can be read back and the storage took the last write; and a name
\* stands for one profile, there and in the storage.
ListIsKept ==
  /\ ~loading.refused => loading.stored = Among(loading.shown, {p \in Profile : p.backend # Path /\ p.name \notin LongNames})
  /\ \A list \in {loading.shown, loading.stored} :
       \A i, j \in DOMAIN list : list[i].name = list[j].name => i = j
  /\ \A i \in DOMAIN loading.stored : loading.stored[i].name \notin LongNames

==================================================================================
