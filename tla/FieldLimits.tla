------------------------------ MODULE FieldLimits -------------------------------
(***************************************************************************)
(* A value on its way from the Tuning panel to the configuration file:     *)
(* typed or moved by a slider, chosen from a list or set by a preset, then *)
(* limited by the panel (tuningControllerHelpers.ts), by the save          *)
(* (storeConfig.ts) and by the back end (AppConfig::normalize of           *)
(* config.rs), which each have ranges of their own.  One field at a time;  *)
(* the batch size is followed too, for the micro-batch may not exceed it.  *)
(***************************************************************************)
EXTENDS TuningFields

CONSTANTS
  Batches,     \* batch sizes
  Distances    \* how far from an end of its range a number is typed

VARIABLE limits
vars == <<limits>>

Numbers == [f \in DOMAIN ServerFields \cup DOMAIN MtpFields \cup DOMAIN ReasoningFields \cup DOMAIN SamplingFields |->
              CASE f \in DOMAIN ServerFields -> ServerFields[f]   [] f \in DOMAIN MtpFields -> MtpFields[f]
                [] f \in DOMAIN SamplingFields -> SamplingFields[f] [] OTHER -> ReasoningFields[f]]
Options == AdvancedSamplingFields
Field(f) == IF f \in DOMAIN Numbers THEN Numbers[f] ELSE Options[f]
NumberFields == DOMAIN Numbers \cup DOMAIN Options

\* The lists, and what the panel puts in each.
Lists ==
  [ cache_type_k |-> CacheTypeOptions, cache_type_v |-> CacheTypeOptions, reasoning |-> ReasoningOptions,
    reasoning_format |-> FormatOptions, reasoning_preserve |-> PreserveOptions,
    reasoning_effort |-> EffortOptions, flash_attn |-> FlashOptions ]
Fields == NumberFields \cup DOMAIN Lists

Least(a, b) == IF a <= b THEN a ELSE b
Greatest(a, b) == IF a >= b THEN a ELSE b
clampNumber(v, min, max) == Least(max, Greatest(min, v))

-----------------------------------------------------------------------------
\* What the back end keeps of a value it reads or is given
\* (AppConfig::normalize); options of the request have no range there.
Range(f, batch) ==
  CASE f \in {"ngl", "parallel"} -> <<0, 128>>            [] f = "ctx_size" -> <<512, 131072>>
    [] f = "batch_size" -> <<1, 131072>>                  [] f = "ubatch_size" -> <<1, batch>>
    [] f = "keep" -> <<0, 131072>>                        [] f \in {"n_cpu_moe", "threads"} -> <<0, 64>>
    [] f = "temperature" -> <<0, 200>>                    [] f = "top_p" -> <<1, 100>>
    [] f = "top_k" -> <<1, 200>>                          [] f \in {"spec_draft_n_max", "spec_draft_n_min"} -> <<0, 64>>
    [] f \in {"spec_draft_p_min", "spec_draft_p_split"} -> <<0, 100>>
    [] f = "reasoning_budget" -> <<-1, 1048576>>          [] f = "request_timeout_seconds" -> <<1, 86400>>
    [] f = "sleep_idle_seconds" -> <<-1, 604800>>
Known ==
  [ cache_type_k |-> {"f16", "f32", "bf16", "q8_0", "q5_0", "q5_1", "q4_0", "q4_1"},
    cache_type_v |-> {"f16", "f32", "bf16", "q8_0", "q5_0", "q5_1", "q4_0", "q4_1"},
    reasoning |-> {"auto", "on", "off"}, reasoning_format |-> {"auto", "none", "deepseek", "deepseek-legacy"},
    reasoning_preserve |-> {"auto", "on", "off"}, flash_attn |-> {"auto", "on", "off"},
    reasoning_effort |-> {"default", "none", "minimal", "low", "medium", "high", "xhigh", "max"} ]
Otherwise(f) ==
  CASE f \in {"cache_type_k", "cache_type_v"} -> "f16" [] f = "reasoning_effort" -> "default" [] OTHER -> "auto"

Normalize(f, v, batch) ==
  CASE f \in DOMAIN Numbers -> clampNumber(v, Range(f, batch)[1], Range(f, batch)[2])
    [] f \in DOMAIN Options -> v
    [] f \in DOMAIN Known -> IF v \in Known[f] THEN v ELSE Otherwise(f)

\* The save limits three numbers and the cache types before the back end does
\* (normalizeConfigPatch).
PatchNormalized(f, v) ==
  CASE f \in {"batch_size", "ubatch_size"} -> clampNumber(v, 1, 131072)
    [] f = "keep" -> clampNumber(v, 0, 131072)
    [] f \in {"cache_type_k", "cache_type_v"} -> IF v \in CacheTypeOptions THEN v ELSE "f16"
    [] OTHER -> v

-----------------------------------------------------------------------------
\* What is typed: at, around and far beyond the ends, and what is no number
\* (an empty text, a sign, a fraction where there is none), which
\* parseNumericInput refuses.
NoNumber == {}
Typed(f) == {NoNumber} \cup {{end + d} : end \in {Field(f).min, Field(f).max}, d \in Distances}

\* QWEN38_DEFAULTS, QWEN38_DFLASH2_DEFAULTS and QWEN38_CHAT_OPTIONS.
Qwen ==
  [ ngl |-> 99, ctx_size |-> 131072, batch_size |-> 1024, ubatch_size |-> 512, keep |-> 0,
    cache_type_k |-> "q8_0", cache_type_v |-> "q8_0", flash_attn |-> "on", n_cpu_moe |-> 0, threads |-> 0,
    temperature |-> 100, top_p |-> 95, top_k |-> 20, spec_draft_n_max |-> 5, spec_draft_n_min |-> 0,
    spec_draft_p_min |-> 0, spec_draft_p_split |-> 0, reasoning |-> "on", reasoning_format |-> "deepseek",
    reasoning_effort |-> "xhigh", reasoning_budget |-> -1, reasoning_preserve |-> "on", parallel |-> 1 ]
QwenOptions == [min_p |-> 0, repeat_penalty |-> 100, presence_penalty |-> 0, max_tokens |-> 131072]
\* applyPreset
Presets ==
  { [ngl |-> 0, threads |-> 0, flash_attn |-> "off"],
    [ngl |-> 99, ctx_size |-> 8192, threads |-> 0, flash_attn |-> "auto"],
    [ngl |-> 99, ctx_size |-> 16384, threads |-> 0, flash_attn |-> "on"] }

-----------------------------------------------------------------------------
OnDisk(f, batch) ==
  IF f \in NumberFields THEN {Normalize(f, v, batch) : v \in UNION Typed(f)} ELSE Known[f]

\* A field with the value the back end read for it; an option is set through
\* the panel or not at all (raw options are TuningOptions).
Init ==
  \E f \in Fields, b \in Batches : \E v \in IF f \in DOMAIN Options THEN {Options[f].default} ELSE OnDisk(f, b) :
    /\ f = "batch_size" => v = b
    /\ limits = [field |-> f, value |-> v, batch |-> b,
                 draft |-> NoNumber,    \* what the field's text says while it is edited
                 asked |-> {},          \* the patch on its way to the back end
                 kept |-> {} ]          \* what the last save asked for
f0 == limits.field

\* The slider and the text beside it (TuningSliderField, NumericFieldGrid,
\* TuningChatOptionField).
Text0 == IF limits.draft # {} THEN limits.draft
         ELSE IF f0 \in DOMAIN Options THEN {clampNumber(limits.value, Field(f0).min, Field(f0).max)}
         ELSE {limits.value}
Slider == LET v == CHOOSE v \in Text0 : TRUE IN clampNumber(v, Field(f0).min, Field(f0).max)

Type ==
  /\ f0 \in NumberFields
  /\ \E text \in Typed(f0) \ {NoNumber} : limits' = [limits EXCEPT !.draft = text]

\* Mutant: the lower limit is not applied.
Limited_High(f, v) == Least(Field(f).max, v)

\* commitNumericField, commitChatOptionField: of the text as it is when the
\* field is left.
Limited(f, v) == clampNumber(v, Field(f).min, Field(f).max)

Commit ==
  /\ f0 \in NumberFields /\ limits.asked = {}
  /\ \E text \in {Text0, NoNumber} :
       limits' = IF text = NoNumber THEN [limits EXCEPT !.draft = NoNumber]
                 ELSE LET normalized == {Limited(f0, v) : v \in text} IN
                      [limits EXCEPT !.draft = normalized, !.asked = normalized]

\* A choice of a list (updateFlash, updateServerText, selectServerText,
\* updateReasoningEffort), or a preset's value for the field.
Choose ==
  /\ f0 \in DOMAIN Lists /\ limits.asked = {}
  /\ \E v \in Lists[f0] : limits' = [limits EXCEPT !.asked = {v}]

Preset ==
  /\ limits.asked = {}
  /\ \E preset \in Presets \cup {Qwen, QwenOptions} :
       f0 \in DOMAIN preset /\ limits' = [limits EXCEPT !.asked = {preset[f0]}]

\* The batch size changes in its own field.
BatchChanges ==
  /\ f0 # "batch_size" /\ limits.asked = {}
  /\ \E b \in Batches : limits' = [limits EXCEPT !.batch = b, !.value = Normalize(f0, limits.value, b), !.kept = {}]

\* The back end keeps the configuration, and what it kept is published; a
\* draft that is still what was sent is done with.
Save ==
  /\ limits.asked # {}
  /\ LET v == CHOOSE v \in limits.asked : TRUE
         kept == Normalize(f0, PatchNormalized(f0, v), limits.batch) IN
     limits' = [limits EXCEPT !.value = kept, !.kept = limits.asked, !.asked = {},
                  !.batch = IF f0 = "batch_size" THEN kept ELSE @,
                  !.draft = IF @ = limits.asked THEN NoNumber ELSE @]

Next == Type \/ Commit \/ Choose \/ Preset \/ BatchChanges \/ Save
Spec == Init /\ [][Next]_vars

TypeOK ==
  /\ limits.field \in Fields /\ limits.batch \in Nat /\ limits.batch <= 131072
  /\ limits.draft = NoNumber \/ (f0 \in NumberFields /\ \E v \in limits.draft : limits.draft = {v} /\ v \in Int)

\* The panel, the save and the back end agree on every field's limits: what
\* the panel sends is kept as it is (a micro-batch as far as the batch allows),
\* and what the back end keeps is a value the panel can show, so that leaving
\* a field nobody edited changes nothing.
LimitsAgree ==
  /\ \A v \in limits.kept : limits.value = IF f0 = "ubatch_size" THEN Least(v, limits.batch) ELSE v
  /\ f0 \in NumberFields /\ limits.draft = NoNumber => Slider = limits.value
  /\ f0 \in DOMAIN Lists => limits.value \in Lists[f0]

=================================================================================
