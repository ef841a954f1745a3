------------------------------ MODULE TuningFields ------------------------------
(***************************************************************************)
(* The tables of the Tuning panel (tuningFields.ts, tuningValidation.ts):  *)
(* its categories, its fields with the category each is in, whether the    *)
(* quick view hides it, and the range of a number.  A field with a step    *)
(* below one is counted in hundredths.  What a field says of itself in     *)
(* words (labels, hints, tooltips) is left out.                            *)
(***************************************************************************)
EXTENDS Integers, Sequences

\* TUNING_CATEGORIES, in the order of the navigation: the section that shows
\* each, and whether the quick view has it.
Category(id, section, quick) == [id |-> id, section |-> section, quick |-> quick]
TuningCategories ==
  << Category("runtime", "server", TRUE),      Category("context", "server", TRUE),
     Category("sampling", "sampling", TRUE),   Category("reasoning", "reasoning", TRUE),
     Category("speculative", "server", FALSE), Category("multimodal", "server", FALSE),
     Category("advanced", "escape", FALSE) >>
Ids == {TuningCategories[i].id : i \in DOMAIN TuningCategories}

\* A number: its category, whether only the advanced view shows it, its range.
Number(category, advancedOnly, min, max) ==
  [category |-> category, advancedOnly |-> advancedOnly, min |-> min, max |-> max]

ServerFields ==
  [ ngl |-> Number("runtime", FALSE, 0, 128),        ctx_size |-> Number("context", FALSE, 512, 131072),
    batch_size |-> Number("context", TRUE, 1, 131072), ubatch_size |-> Number("context", TRUE, 1, 131072),
    keep |-> Number("context", TRUE, 0, 131072),     n_cpu_moe |-> Number("runtime", FALSE, 0, 64),
    threads |-> Number("runtime", FALSE, 0, 64),     parallel |-> Number("runtime", FALSE, 0, 128),
    request_timeout_seconds |-> Number("runtime", FALSE, 1, 86400),
    sleep_idle_seconds |-> Number("runtime", FALSE, -1, 604800) ]

MtpFields ==
  [ spec_draft_n_max |-> Number("speculative", TRUE, 0, 64),
    spec_draft_n_min |-> Number("speculative", TRUE, 0, 64),
    spec_draft_p_min |-> Number("speculative", TRUE, 0, 100),
    spec_draft_p_split |-> Number("speculative", TRUE, 0, 100) ]

ReasoningFields == [reasoning_budget |-> Number("reasoning", FALSE, -1, 1048576)]

SamplingFields ==
  [ temperature |-> Number("sampling", FALSE, 0, 200), top_p |-> Number("sampling", FALSE, 1, 100),
    top_k |-> Number("sampling", FALSE, 1, 200) ]

\* An option of the request: its range and the value it has when it is not set.
\* The largest seed is beyond TLC's integers: MaxSeed stands for it.
MaxSeed == 2000000000
Option(min, max, default) ==
  [category |-> "sampling", advancedOnly |-> TRUE, min |-> min, max |-> max, default |-> default]
AdvancedSamplingFields ==
  [ min_p |-> Option(0, 100, 5),              top_n_sigma |-> Option(-100, 1000, -100),
    typical_p |-> Option(0, 100, 100),        xtc_probability |-> Option(0, 100, 0),
    xtc_threshold |-> Option(0, 100, 10),     dynatemp_range |-> Option(0, 200, 0),
    dynatemp_exponent |-> Option(10, 300, 100), repeat_last_n |-> Option(-1, 131072, 64),
    repeat_penalty |-> Option(0, 200, 100),   presence_penalty |-> Option(-200, 200, 0),
    frequency_penalty |-> Option(-200, 200, 0), dry_multiplier |-> Option(0, 200, 0),
    dry_base |-> Option(100, 300, 175),       dry_allowed_length |-> Option(0, 128, 2),
    dry_penalty_last_n |-> Option(0, 131072, 64), mirostat |-> Option(0, 2, 0),
    mirostat_lr |-> Option(0, 100, 10),       mirostat_ent |-> Option(0, 2000, 500),
    seed |-> Option(-1, MaxSeed, -1),         max_tokens |-> Option(-1, 131072, -1),
    n_probs |-> Option(0, 100, 0),            min_keep |-> Option(0, 100, 0),
    t_max_predict_ms |-> Option(0, 3600000, 0), id_slot |-> Option(-1, 1024, -1) ]

\* The fields that are no numbers.
Text(category, advancedOnly) == [category |-> category, advancedOnly |-> advancedOnly]
ServerTextFields ==
  [ spec_type |-> Text("speculative", TRUE),         spec_draft_ngl |-> Text("speculative", TRUE),
    spec_draft_device |-> Text("speculative", TRUE), spec_draft_model |-> Text("speculative", TRUE),
    reasoning |-> Text("reasoning", FALSE),          reasoning_format |-> Text("reasoning", FALSE),
    reasoning_budget_message |-> Text("reasoning", FALSE), reasoning_preserve |-> Text("reasoning", FALSE),
    mmproj |-> Text("multimodal", TRUE),
    cache_type_k |-> Text("context", TRUE),          cache_type_v |-> Text("context", TRUE) ]

\* TUNING_FIELD_CATALOG: where each field of all the tables is.
Where(table) == [f \in DOMAIN table |-> Text(table[f].category, table[f].advancedOnly)]
Catalog ==
  LET tables == {Where(ServerFields), Where(MtpFields), Where(ReasoningFields), Where(SamplingFields),
                 Where(AdvancedSamplingFields), Where(ServerTextFields)} IN
  [f \in UNION {DOMAIN table : table \in tables} |->
     (CHOOSE table \in tables : f \in DOMAIN table)[f]]

\* The choices the lists offer (CACHE_TYPE_OPTIONS, SPEC_TYPE_OPTIONS and the
\* lists of the sections).
CacheTypeOptions == {"f16", "f32", "bf16", "q8_0", "q5_0", "q5_1", "q4_0", "q4_1"}
SpecTypeOptions ==
  {"none", "draft-simple", "draft-eagle3", "draft-mtp", "draft-dflash", "draft-dspark", "ngram-simple",
   "ngram-map-k", "ngram-map-k4v", "ngram-mod", "ngram-cache"}
SpecDraftNglOptions == {"auto", "all"}
ReasoningOptions == {"auto", "on", "off"}
FormatOptions == {"auto", "none", "deepseek", "deepseek-legacy"}
PreserveOptions == {"auto", "on", "off"}
EffortOptions == {"default", "none", "minimal", "low", "medium", "high", "xhigh", "max"}
FlashOptions == {"auto", "on", "off"}

=================================================================================
