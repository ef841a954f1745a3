----------------------------- MODULE TuningOptions -----------------------------
(***************************************************************************)
(* The raw escape hatches of the Tuning panel, server arguments and chat   *)
(* options typed by hand, beside the controls the panel has of its own     *)
(* (tuningValidation.ts, tuningFields.ts), and the chat request built from *)
(* both (buildChatRequestBody, in api.ts).                                 *)
(***************************************************************************)
EXTENDS Integers, Sequences

CONSTANTS
  Unmanaged,    \* some switches the application leaves to the user
  ChatKeys,     \* keys of chat options a user may type
  Sizes, MaxSize, NotANumber   \* numbers in a configuration, and 131072

VARIABLE options
vars == <<options>>

\* APP_MANAGED_SERVER_OPTION_ALIASES: the spellings of each switch that the
\* application passes itself.
Managed ==
  { {"--model", "-m"}, {"--host"}, {"--port", "-p"},
    {"--api-key", "--api-key-file", "--no-api-key"},
    {"--mmproj", "-mm", "--mmproj-url", "--mmproj-auto", "--no-mmproj", "--no-mmproj-auto"},
    {"--n-gpu-layers", "--gpu-layers", "-ngl"}, {"--ctx-size", "-c"},
    {"--batch-size", "-b"}, {"--ubatch-size", "-ub"}, {"--keep"},
    {"--cache-type-k", "-ctk"}, {"--cache-type-v", "-ctv"}, {"--flash-attn", "-fa"},
    {"--n-cpu-moe", "-ncmoe"}, {"--threads", "-t"}, {"--parallel", "-np"},
    {"--timeout", "-to"}, {"--sleep-idle-seconds"}, {"--lora", "--lora-scaled"},
    {"--spec-type"}, {"--spec-draft-n-max"}, {"--spec-draft-n-min"},
    {"--spec-draft-p-min", "--draft-p-min"}, {"--spec-draft-p-split", "--draft-p-split"},
    {"--spec-draft-ngl", "--gpu-layers-draft", "--n-gpu-layers-draft"},
    {"--spec-draft-device", "-devd", "--device-draft"},
    {"--spec-draft-model", "-md", "--model-draft"}, {"--reasoning", "-rea"},
    {"--reasoning-format"}, {"--reasoning-effort"}, {"--reasoning-budget"},
    {"--reasoning-budget-message"}, {"--reasoning-preserve", "--no-reasoning-preserve"} }

\* The switches that the controls of the panel stand for, in the catalogue.
FieldAliases ==
  [ ngl |-> {"--n-gpu-layers", "--gpu-layers", "-ngl"},
    ctx_size |-> {"--ctx-size", "-c"}, batch_size |-> {"--batch-size", "-b"},
    ubatch_size |-> {"--ubatch-size", "-ub"}, keep |-> {"--keep"},
    n_cpu_moe |-> {"--n-cpu-moe", "-ncmoe"}, threads |-> {"--threads", "-t"},
    parallel |-> {"--parallel", "-np"}, request_timeout_seconds |-> {"--timeout", "-to"},
    sleep_idle_seconds |-> {"--sleep-idle-seconds"},
    spec_draft_n_max |-> {"--spec-draft-n-max"},
    spec_draft_n_min |-> {"--spec-draft-n-min"},
    spec_draft_p_min |-> {"--spec-draft-p-min", "--draft-p-min"},
    spec_draft_p_split |-> {"--spec-draft-p-split", "--draft-p-split"},
    reasoning_budget |-> {"--reasoning-budget"}, spec_type |-> {"--spec-type"},
    spec_draft_ngl |-> {"--spec-draft-ngl", "--gpu-layers-draft", "--n-gpu-layers-draft"},
    spec_draft_device |-> {"--spec-draft-device", "-devd", "--device-draft"},
    spec_draft_model |-> {"--spec-draft-model", "-md", "--model-draft"},
    reasoning |-> {"--reasoning", "-rea"}, reasoning_format |-> {"--reasoning-format"},
    reasoning_budget_message |-> {"--reasoning-budget-message"},
    reasoning_preserve |-> {"--reasoning-preserve", "--no-reasoning-preserve"},
    mmproj |-> {"--mmproj", "-mm"}, cache_type_k |-> {"--cache-type-k", "-ctk"},
    cache_type_v |-> {"--cache-type-v", "-ctv"} ]

\* serverConfigSnapshot: what a failed restart brings back.
Snapshot ==
  { "active_backend", "ctx_size", "batch_size", "ubatch_size", "keep", "cache_type_k",
    "cache_type_v", "ngl", "n_cpu_moe", "threads", "parallel", "request_timeout_seconds",
    "sleep_idle_seconds", "flash_attn", "spec_type", "spec_draft_n_max", "spec_draft_n_min",
    "spec_draft_p_min", "spec_draft_p_split", "spec_draft_ngl", "spec_draft_device",
    "spec_draft_model", "reasoning", "reasoning_format", "reasoning_budget",
    "reasoning_budget_message", "reasoning_preserve", "server_args", "mmproj" }

ManagedNames == UNION Managed
Spellings == ManagedNames \cup UNION {FieldAliases[f] : f \in DOMAIN FieldAliases} \cup Unmanaged

\* A line typed as an argument: a name, alone or with "=value" behind it.
Lines == [name : Spellings, inline : BOOLEAN]

\* Mutant: --flag=value is not recognised.
Blocked_WholeLine(line) == ~line.inline /\ line.name \in ManagedNames

\* canonicalServerOptionName: what stands before "=" is looked up.
Blocked(line) == line.name \in ManagedNames

\* RESERVED_CHAT_OPTIONS, and what a body has from the application.
Reserved == {"model", "messages", "stream"}
Owned == Reserved \cup {"temperature", "top_p", "top_k"}
RequestKey == [mirostat_lr |-> "mirostat_eta", mirostat_ent |-> "mirostat_tau"]

\* Mutant: an alias wins over the name it stands for.
Mapped_AliasWins(keys) ==
  [k \in (keys \ DOMAIN RequestKey) \cup {RequestKey[a] : a \in DOMAIN RequestKey \cap keys} |->
     IF \E a \in DOMAIN RequestKey \cap keys : RequestKey[a] = k
     THEN CHOOSE a \in DOMAIN RequestKey \cap keys : RequestKey[a] = k ELSE k]

\* mapChatOptionAliases: from which typed key a key of the request has its value.
Mapped(keys) ==
  [k \in (keys \ DOMAIN RequestKey) \cup {RequestKey[a] : a \in DOMAIN RequestKey \cap keys} |->
     IF k \in keys THEN k ELSE CHOOSE a \in DOMAIN RequestKey \cap keys : RequestKey[a] = k]

Effort(reasoning, effort) == IF reasoning = "off" THEN "none" ELSE effort

\* The keys a body has from the reasoning effort, and from the application.
OfEffort(chosen) == IF chosen = "default" THEN {} ELSE {"reasoning_effort", "chat_template_kwargs"}
OfApp(tools) == Owned \cup (IF tools THEN {"tools"} ELSE {})

\* Mutant: the raw options win over the application's fields.
Body_OptionsLast(keys, tools, reasoning, effort) ==
  LET chosen == Effort(reasoning, effort)
      typed  == Mapped(keys)
  IN  [k \in OfEffort(chosen) \cup OfApp(tools) \cup DOMAIN typed |->
         IF k \in DOMAIN typed THEN typed[k] ELSE IF k \in OfApp(tools) THEN "app" ELSE chosen]

\* buildChatRequestBody: every key of the body, with where its value is from:
\* the typed key, the application, or the reasoning effort it was set for.
Body(keys, tools, reasoning, effort) ==
  LET chosen == Effort(reasoning, effort)
      typed  == Mapped(keys)
  IN  [k \in OfEffort(chosen) \cup OfApp(tools) \cup (DOMAIN typed \ {"tools"}) |->
         IF k \in OfEffort(chosen) THEN chosen ELSE IF k \in OfApp(tools) THEN "app" ELSE typed[k]]

Clamp(n, low, high) == IF n < low THEN low ELSE IF n > high THEN high ELSE n

\* finiteInteger
Bounded(n, fallback, low, high) == IF n = NotANumber THEN fallback ELSE Clamp(n, low, high)

DefaultBatch == 3
DefaultMicro == 2

\* normalizeTypedTuning, on the configuration loaded.
Loaded(c) ==
  LET batch == Bounded(c.batch, DefaultBatch, 1, MaxSize)
  IN  [ batch |-> batch, micro |-> Bounded(c.micro, DefaultMicro, 1, batch),
        keep |-> Bounded(c.keep, 0, 0, MaxSize) ]

\* Mutant: the sizes are limited one by one.
Kept_Apart(c) ==
  [ batch |-> Clamp(c.batch, 1, MaxSize), micro |-> Clamp(c.micro, 1, MaxSize), keep |-> Clamp(c.keep, 0, MaxSize) ]

\* AppConfig::normalize, of what the back end reads and saves.
Kept(c) ==
  LET batch == Clamp(c.batch, 1, MaxSize)
  IN  [ batch |-> batch, micro |-> Clamp(c.micro, 1, batch), keep |-> Clamp(c.keep, 0, MaxSize) ]

\* Mutant: the micro batch is held to the default batch.
Patched_ByDefault(p) ==
  [ k \in DOMAIN p |->
      CASE k = "batch" -> Bounded(p[k], DefaultBatch, 1, MaxSize)
        [] k = "micro" -> Bounded(p[k], DefaultMicro, 1, DefaultBatch)
        [] k = "keep" -> Bounded(p[k], 0, 0, MaxSize) ]

\* normalizeConfigPatch: a micro batch is held to the batch of the same patch.
Patched(p) ==
  LET batch == IF "batch" \in DOMAIN p THEN Bounded(p.batch, DefaultBatch, 1, MaxSize) ELSE MaxSize
  IN  [ k \in DOMAIN p |->
          CASE k = "batch" -> batch
            [] k = "micro" -> Bounded(p[k], DefaultMicro, 1, batch)
            [] k = "keep" -> Bounded(p[k], 0, 0, MaxSize) ]

\* The sizes of a configuration file.
Config == [batch : Sizes, micro : Sizes, keep : Sizes]
Defaults == [batch |-> DefaultBatch, micro |-> DefaultMicro, keep |-> 0]

Init ==
  \E c \in Config, about \in {"args", "chat", "sizes"} :  \* which have nothing in common
    options = [ about |-> about, args |-> <<>>, keys |-> {}, body |-> <<>>,
                cfg |-> IF about = "sizes" THEN Loaded(Kept(c)) ELSE Defaults,
                before |-> {} ]    \* the configuration before the edit that is being saved

\* saveServerArgs: a blocked argument fails the whole text.
SaveArgs ==
  \E line \in Lines :
    /\ options.about = "args" /\ ~Blocked(line)
    /\ options' = [options EXCEPT !.args = <<line, [name |-> "value", inline |-> FALSE]>>]

\* saveChatOptions, by parseChatOptions; a configuration made elsewhere may
\* hold reserved keys all the same.
SaveChatOptions ==
  \E keys \in SUBSET (ChatKeys \ Reserved) :
    options.about = "chat" /\ options' = [options EXCEPT !.keys = keys, !.body = <<>>]
Imported ==
  \E keys \in SUBSET Reserved :
    options.about = "chat" /\ options' = [options EXCEPT !.keys = @ \cup keys, !.body = <<>>]

Sends ==
  \E tools \in BOOLEAN, reasoning \in {"off", "auto"}, effort \in {"default", "low"} :
    /\ options.about = "chat" /\ options.body = <<>>
    /\ options' = [options EXCEPT !.body = [ of |-> options.keys, reasoning |-> reasoning,
                                             from |-> Body(options.keys, tools, reasoning, effort) ]]

\* updateConfig with a patch of some of the sizes, when its turn comes: it is
\* published and sent to the back end, ...
Patches ==
  \E fields \in SUBSET {"batch", "micro", "keep"} : \E p \in [fields -> Sizes \cup {NotANumber}] :
    /\ options.about = "sizes" /\ options.before = {}
    /\ options' = [options EXCEPT !.cfg = [k \in DOMAIN @ |-> IF k \in fields THEN Patched(p)[k] ELSE @[k]],
                                  !.before = {options.cfg}]

\* ... whose answer is published, ...
Saved ==
  /\ options.before # {}
  /\ options' = [options EXCEPT !.cfg = Kept(@), !.before = {}]

\* ... or what was there before.
SaveFails ==
  \E c \in options.before : options' = [options EXCEPT !.cfg = c, !.before = {}]

Next == SaveArgs \/ SaveChatOptions \/ Imported \/ Sends \/ Patches \/ Saved \/ SaveFails

Spec == Init /\ [][Next]_vars

-----------------------------------------------------------------------------
\* No spelling of a raw argument, with a value behind it or not, reaches the
\* server over a control of the panel; and what a control changes in the
\* server's configuration is what a failed restart rolls back.
ControlsWin ==
  /\ \A i \in DOMAIN options.args :
       options.args[i].name \notin UNION {FieldAliases[f] : f \in DOMAIN FieldAliases}
  /\ DOMAIN FieldAliases \subseteq Snapshot

\* Whatever the chat options hold, typed or imported: the request is the
\* application's in the keys it owns, an option has one spelling in it and the
\* request's own spelling wins, and reasoning that is off stays off.
RequestIsTheApps ==
  options.body # <<>> =>
    LET from == options.body.from IN
    /\ \A k \in Owned : from[k] = "app"
    /\ "tools" \in DOMAIN from => from["tools"] = "app"
    /\ DOMAIN from \cap DOMAIN RequestKey = {}
    /\ \A k \in DOMAIN from \cap options.body.of : from[k] \in {k, "app", "none", "low"}
    /\ options.body.reasoning = "off" => from["chat_template_kwargs"] = "none"

\* Each size is always within its limits.  A patch of one of the two batch sizes is
\* limited without the other, so while it is saved they may not fit each other; as
\* soon as the save is over, whether it succeeded or failed, the micro batch is within
\* the batch again, and the limits of the front end leave the sizes as they are.
SizesHold ==
  /\ options.cfg.batch \in 1..MaxSize /\ options.cfg.micro \in 1..MaxSize
  /\ options.cfg.keep \in 0..MaxSize
  /\ options.before = {} =>
       /\ options.cfg.micro <= options.cfg.batch
       /\ Patched(options.cfg) = options.cfg /\ Loaded(options.cfg) = options.cfg
================================================================================
