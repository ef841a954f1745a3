------------------------------- MODULE TuningView -------------------------------
(***************************************************************************)
(* What of the Tuning panel is on screen (Tuning.tsx, TuningNavigation.tsx *)
(* and the sections): the quick or the advanced view, the category chosen  *)
(* by hand, by the keyboard or by a search, and the fields its section     *)
(* renders.  The tables are TuningFields.  A search is for a text anywhere *)
(* in the words of a field or of a category: here it is the fields and the *)
(* categories in whose words the text occurs.                              *)
(***************************************************************************)
EXTENDS TuningFields

CONSTANT Queries   \* texts to search for, each as what its letters occur in, as Everything is

VARIABLE view
vars == <<view>>

Modes == {"quick", "advanced"}
\* An empty search: it occurs in the words of every field, in the label or a
\* keyword of every category, and in all the text about every category.
Everything == [fields |-> DOMAIN Catalog, words |-> Ids, about |-> Ids]
Searches == {Everything} \cup Queries

TypeOK == view.mode \in Modes /\ view.category \in Ids /\ view.query \in Searches

SectionCategory == [server |-> "runtime", sampling |-> "sampling", reasoning |-> "reasoning", escape |-> "advanced"]
Init == \E section \in DOMAIN SectionCategory :
  view = [mode |-> "quick", category |-> SectionCategory[section], query |-> Everything]

-----------------------------------------------------------------------------
\* tuningCatalogMatches: a field is found by its own words and its category's.
FieldMatches(f, query) == f \in query.fields \/ Catalog[f].category \in query.words

\* Mutant: only the text about the category is searched.
CategoryMatches_ByText(c, query) == c \in query.about

\* categoryMatchesSearch
CategoryMatches(c, query) ==
  \/ c \in query.about
  \/ \E f \in DOMAIN Catalog : Catalog[f].category = c /\ FieldMatches(f, query)

\* The categories of the navigation, by their places in it.
Id(i) == TuningCategories[i].id
Visible ==
  {i \in DOMAIN TuningCategories : /\ TuningCategories[i].quick \/ view.mode = "advanced"
                                   /\ CategoryMatches(Id(i), view.query)}
First == CHOOSE i \in Visible : \A j \in Visible : i <= j
Listed == {Id(i) : i \in Visible}
NoCategory == "none"
Selected == IF view.category \in Listed THEN view.category
            ELSE IF Visible = {} THEN NoCategory ELSE Id(First)

\* visibleFields
VisibleFields(table, c) ==
  {f \in DOMAIN table : table[f].category = c /\ (view.mode = "advanced" \/ ~table[f].advancedOnly)}

\* TuningServerSection, and TuningSpeculativeSection inside it.
ServerSection(c) ==
  VisibleFields(IF c = "speculative" THEN MtpFields ELSE ServerFields, c)
    \cup (IF c = "runtime" THEN {"flash_attn"} ELSE {})
    \cup (IF view.mode # "advanced" THEN {}
          ELSE CASE c = "context" -> {"cache_type_k", "cache_type_v"}
                 [] c = "multimodal" -> {"mmproj"}
                 [] c = "speculative" -> {"spec_type", "spec_draft_ngl", "spec_draft_device", "spec_draft_model"}
                                           \cup DOMAIN MtpFields
                 [] OTHER -> {})
\* TuningReasoningSection
ReasoningSection ==
  DOMAIN ReasoningFields \cup
    {"reasoning", "reasoning_format", "reasoning_preserve", "reasoning_effort", "reasoning_budget_message"}
\* TuningSamplingSection
SamplingSection ==
  DOMAIN SamplingFields \cup (IF view.mode = "advanced" THEN DOMAIN AdvancedSamplingFields \cup {"samplers"} ELSE {})

\* renderSection
Rendered ==
  LET section == {TuningCategories[i].section : i \in {j \in DOMAIN TuningCategories : Id(j) = Selected}} IN
  CASE section = {"server"} -> ServerSection(Selected)
    [] section = {"reasoning"} -> ReasoningSection
    [] section = {"sampling"} -> SamplingSection
    [] section = {"escape"} -> {"server_args", "chat_options"}
    [] OTHER -> {}

-----------------------------------------------------------------------------
SetMode == \E mode \in Modes : view' = [view EXCEPT !.mode = mode]

\* handleModeKeyDown: the arrows go around, Home and End to the ends, of two.
ModeKey == view' = [view EXCEPT !.mode = IF @ = "quick" THEN "advanced" ELSE "quick"]

SelectCategory == \E c \in Listed : view' = [view EXCEPT !.category = c]

\* handleCategoryKeyDown, on the category that is selected: the arrows go to
\* the one before or after it, around, and Home and End to the ends.
Follows(i, j) == \A k \in Visible : IF i < j THEN k <= i \/ k >= j ELSE j <= k /\ k <= i
CategoryKey ==
  \E i, target \in Visible :
    /\ Id(i) = Selected
    /\ \/ Follows(i, target) \/ Follows(target, i)
       \/ \A k \in Visible : target <= k
       \/ \A k \in Visible : target >= k
    /\ view' = [view EXCEPT !.category = Id(target)]

Search == \E query \in Searches : view' = [view EXCEPT !.query = query]

Next == SetMode \/ ModeKey \/ SelectCategory \/ CategoryKey \/ Search
Spec == Init /\ [][Next]_vars

\* What is searched for can be reached: whatever was selected before, the category of
\* every field that a search finds is in the navigation, unless the view leaves the
\* field out, and its section shows the field once it is selected.  A search that finds
\* anything selects a category it finds, so a field it finds alone is on screen; the
\* category that was selected stays if it is found too, and then a field of another
\* category is one click away ("keep" is in min_keep, of the sampling).
FoundIsShown ==
  /\ \A f \in DOMAIN Catalog :
       FieldMatches(f, view.query) /\ (view.mode = "advanced" \/ ~Catalog[f].advancedOnly) =>
         Catalog[f].category \in Listed /\ (Selected = Catalog[f].category => f \in Rendered)
  /\ Listed # {} => Selected \in Listed

=================================================================================
