------------------------------- MODULE Preferences -------------------------------
(***************************************************************************)
(* The preferences and their copies: React state, localStorage, the        *)
(* language's context and what the page shows (App.tsx, Settings.tsx,      *)
(* preferences.ts, theme.ts, i18n.ts).  The language, the theme and the    *)
(* confirmation of destructive actions stand for all preferences.  Effects *)
(* run some time after the change that asked for them.                     *)
(***************************************************************************)
CONSTANTS
  Locales, Detected   \* languages, and the one of the browser

VARIABLE settings
vars == <<settings>>

Themes == {"light", "dark", "system"}
Preferences == [locale : Locales, theme : Themes, confirm : BOOLEAN]
Defaults == [locale |-> Detected, theme |-> "system", confirm |-> TRUE]

\* What localStorage may hold under a key.
Nothing == [kind |-> "nothing", values |-> Defaults]
Broken  == [kind |-> "broken", values |-> Defaults]
Values(p) == [kind |-> "values", values |-> p]

\* A key of an earlier version, "none" when it was never set.
Theme(key) == IF key = "none" THEN "system" ELSE key
Locale(key) == IF key = "none" THEN Detected ELSE key

\* loadPreferences
Load(s) ==
  CASE s.stored.kind = "values" -> s.stored.values
    [] s.stored.kind = "broken" -> Defaults
    [] OTHER -> [Defaults EXCEPT !.theme = Theme(s.themeKey), !.locale = Locale(s.localeKey)]

\* getStoredThemeMode, which theme.ts applies before there is an application.
StoredTheme(s) ==
  CASE s.stored.kind = "values" -> s.stored.values.theme
    [] s.stored.kind = "broken" -> "system"
    [] OTHER -> Theme(s.themeKey)

Resolved(theme, dark) == IF theme # "system" THEN theme ELSE IF dark THEN "dark" ELSE "light"

\* shouldConfirmDestructive reads the storage, not the state.
ShouldConfirm(s) == Load(s).confirm

\* savePreferences; a storage that is full or forbidden changes nothing.
Saved(s, p) ==
  IF s.works THEN [s EXCEPT !.prefs = p, !.stored = Values(p), !.fresh = FALSE]
  ELSE [s EXCEPT !.prefs = p, !.unsaved = TRUE, !.fresh = FALSE]

\* Mutant: the application's own language is not changed.
Updated_KeepsLanguage(s, p) == [Saved(s, p) EXCEPT !.chosen = p.locale]

\* updatePreferences: a language in the patch is the application's too.
Updated(s, p) == [Saved(s, p) EXCEPT !.lang = p.locale, !.chosen = p.locale]

Opened(s) ==
  LET p == Load(s)
  IN  [s EXCEPT !.prefs = p, !.lang = p.locale, !.chosen = p.locale,
                !.shown = Resolved(StoredTheme(s), s.dark),
                !.follows = FALSE, !.fresh = FALSE, !.unsaved = FALSE]

Init ==
  \E stored \in {Nothing, Broken, Values([Defaults EXCEPT !.theme = "dark", !.confirm = FALSE])},
     themeKey \in {"none", "light"}, localeKey \in Locales \cup {"none"}, dark \in BOOLEAN :
    settings = Opened(
      [ stored |-> stored, themeKey |-> themeKey, localeKey |-> localeKey, works |-> TRUE,
        unsaved |-> FALSE,     \* a save failed since the application was opened
        prefs |-> Defaults,
        lang |-> Detected, documentLang |-> Detected,
        chosen |-> Detected,   \* the language last asked for
        dark |-> dark, shown |-> "light", follows |-> FALSE, fresh |-> FALSE ])

-----------------------------------------------------------------------------
\* Switches, selections and the resets of a section.
Patch ==
  \/ \E theme \in Themes : settings' = Saved(settings, [settings.prefs EXCEPT !.theme = theme])
  \/ \E confirm \in BOOLEAN : settings' = Saved(settings, [settings.prefs EXCEPT !.confirm = confirm])

SelectLanguage == \E l \in Locales : settings' = Updated(settings, [settings.prefs EXCEPT !.locale = l])

\* importFile: validatePreferences has made the file's values whole.
Import == \E p \in Preferences : settings' = Updated(settings, p)

Reset == settings' = Updated(settings, Defaults)

\* The effects of App: first the theme and the document's language, then the
\* language that the context has into the preferences.
Effects ==
  LET themed == [settings EXCEPT !.shown = Resolved(settings.prefs.theme, settings.dark),
                              !.themeKey = IF settings.works THEN settings.prefs.theme ELSE @,
                              !.documentLang = settings.lang, !.fresh = TRUE,
                              !.follows = (settings.prefs.theme = "system")]
  IN  /\ ~settings.fresh
      /\ settings' = IF settings.prefs.locale = settings.lang THEN themed
                  ELSE Saved(themed, [settings.prefs EXCEPT !.locale = settings.lang])

\* subscribeToSystemTheme
SystemChanges ==
  settings' = [settings EXCEPT !.dark = ~@,
                         !.shown = IF settings.follows THEN Resolved("system", ~settings.dark) ELSE @]

StorageChanges == settings' = [settings EXCEPT !.works = ~@]
Reopens == settings' = Opened(settings)

Next ==
  \/ Patch \/ SelectLanguage \/ Import \/ Reset \/ Effects \/ SystemChanges
  \/ StorageChanges \/ Reopens

Spec == Init /\ [][Next]_vars

-----------------------------------------------------------------------------
TypeOK ==
  /\ settings.prefs \in Preferences /\ settings.lang \in Locales /\ settings.documentLang \in Locales
  /\ settings.shown \in {"light", "dark"} /\ settings.stored.kind \in {"nothing", "broken", "values"}

\* Once the effects have run, the copies agree: the language of preferences,
\* context and page is the one last chosen; the theme on the page is the
\* preferences' and the system's, also after the system changed; and, unless a
\* save failed, storage has what the panels read there (the confirmation) and
\* what the next start will load.
CopiesAgree ==
  settings.fresh =>
    /\ settings.prefs.locale = settings.chosen
    /\ settings.lang = settings.chosen /\ settings.documentLang = settings.chosen
    /\ settings.shown = Resolved(settings.prefs.theme, settings.dark)
    /\ ~settings.unsaved => Load(settings) = settings.prefs /\ ShouldConfirm(settings) = settings.prefs.confirm
================================================================================
