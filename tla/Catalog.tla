------------------------------- MODULE Catalog ------------------------------
(***************************************************************************)
(* The vendor catalog of the agent host: which reasoning controls a model  *)
(* of a vendor offers (its surface), whether a stored choice fits it, what *)
(* the choice becomes in the request to the vendor, and how large the      *)
(* model's context window is taken to be.                                  *)
(*                                                                         *)
(* A model's name is a sequence of words, cut wherever a rule's prefix     *)
(* ends; "/" and ":" are words of their own.  Prefixes of one name extend  *)
(* one another, so that the longest is the one with most words.            *)
(***************************************************************************)
EXTENDS Integers, SequencesExt

-----------------------------------------------------------------------------
(* Surfaces and choices. *)

NoSurface == [kind |-> "none"]
AlwaysOn == [kind |-> "always_on"]
Toggle(param, on) == [kind |-> "toggle", param |-> param, on |-> on]
EffortEnum(param, allowed) == [kind |-> "effort_enum", param |-> param, allowed |-> allowed]
BudgetTokens(min, max) == [kind |-> "budget_tokens", min |-> min, max |-> max]

effort(allowed) == EffortEnum("reasoning_effort", allowed)
LowHigh == effort({"low", "high"})
ToHigh == effort({"low", "medium", "high"})
ToMax == effort({"low", "high", "max"})
ToXhigh == effort({"low", "medium", "high", "xhigh"})
NoneToMax == effort({"none", "low", "high", "max"})
Claude == EffortEnum("thinking_effort", {"low", "high", "max"})
EnableThinking == Toggle("enable_thinking", TRUE)
ThinkingType == Toggle("thinking.type", TRUE)

Efforts == {"none", "minimal", "low", "medium", "high", "xhigh", "max"}

(* A choice is its kind and its value. *)
Choice(kind, value) == <<kind, value>>
ChoicesOf(s) ==
  CASE s.kind = "toggle"        -> {Choice("toggle", on) : on \in BOOLEAN}
    [] s.kind = "effort_enum"   -> {Choice("effort_enum", v) : v \in Efforts}
    [] s.kind = "budget_tokens" -> {Choice("budget_tokens", n) : n \in {s.min - 1, s.min, s.max, s.max + 1}}
    [] OTHER                    -> {Choice(s.kind, "")}

(* An advanced choice is a set of keys and fits every surface. *)
validate_choice(s, c) ==
  \/ c[1] = "advanced"
  \/ /\ s.kind = c[1]
     /\ s.kind = "effort_enum" => c[2] \in s.allowed
     /\ s.kind = "budget_tokens" => s.min <= c[2] /\ c[2] <= s.max

ADVANCED_ALLOWLIST ==
  {"thinking", "reasoning_effort", "enable_thinking", "thinking_budget", "budget_tokens"}

fortify_choice(c) == IF c[1] = "advanced" THEN Choice("advanced", c[2] \cap ADVANCED_ALLOWLIST) ELSE c

-----------------------------------------------------------------------------
(* Rules: a pattern, where it matches and how long it is. *)

Rule(pat, surface) == [pat |-> pat, inside |-> FALSE, rank |-> Len(pat), surface |-> surface]
Rules(surface, pats) == {Rule(p, surface) : p \in pats}
Inside(pat, chars, surface) == [pat |-> pat, inside |-> TRUE, rank |-> chars, surface |-> surface]

(* prefix_matches; "*x*" is matched anywhere, "x*" is the prefix x.        *)
Matches(id, r) ==
  IF r.inside
  THEN \E i \in 0..Len(id) - Len(r.pat) : SubSeq(id, i + 1, i + Len(r.pat)) = r.pat
  ELSE IsPrefix(r.pat, id)

Matching(id, rules) == {r \in rules : Matches(id, r)}
Longest(rules) == CHOOSE r \in rules : \A q \in rules : q.rank <= r.rank

model_basename(id) ==
  LET cuts == {i \in 1..Len(id) : id[i] \in {"/", ":"}}
      last == IF cuts = {} THEN 0 ELSE CHOOSE i \in cuts : \A j \in cuts : j <= i
  IN IF last = Len(id) THEN id ELSE SubSeq(id, last + 1, Len(id))

family_rules ==
  Rules(ToXhigh, {<<"gpt", "-5", ".1-codex">>, <<"grok", "-4", ".20", "-multi-agent">>,
                  <<"grok", "-4", ".6">>, <<"grok", "-4", ".20">>})
  \cup Rules(AlwaysOn, {<<"kimi", "-k2", ".7", "-code">>, <<"minimax", "-m2">>})
  \cup Rules(Toggle("thinking", FALSE), {<<"minimax", "-m3">>})
  \cup Rules(ThinkingType, {<<"kimi", "-k2", ".6">>, <<"kimi", "-k2", ".5">>})
  \cup Rules(ToMax, {<<"glm", "-5", ".3">>, <<"glm", "-5", ".2">>, <<"glm", "-5">>, <<"kimi", "-k3">>})
  \cup Rules(ToHigh, {<<"grok", "-4", ".5">>, <<"o1">>, <<"o3">>, <<"o4">>})
  \cup Rules(LowHigh, {<<"grok", "-3", "-mini">>, <<"grok", "-4">>, <<"grok", "-3">>, <<"grok">>})
  \cup Rules(NoneToMax, {<<"deepseek", "-">>})
  \cup Rules(Claude, {<<"claude-">>})
  \cup Rules(effort({"none", "minimal", "low", "medium", "high", "xhigh"}), {<<"gpt", "-5">>})
  \cup Rules(EnableThinking, {<<"qwen">>})

(* The model_rules of vendors.json. *)
Grok == {r \in family_rules : r.pat[1] = "grok"}
Kimi == {r \in family_rules : r.pat[1] = "kimi"}
model_rules ==
  [openai      |-> Rules(effort({"minimal", "low", "medium", "high", "xhigh"}), {<<"gpt", "-5">>}),
   anthropic   |-> Rules(Claude, {<<"claude-">>}),
   xai         |-> Grok,
   deepseek    |-> Rules(NoneToMax, {<<"deepseek", "-">>}),
   qwen        |-> Rules(EnableThinking, {<<"qwen">>}),
   moonshot    |-> Kimi,
   zhipu       |-> Rules(ToMax, {<<"glm", "-5", ".3">>, <<"glm", "-5", ".2">>}),
   minimax     |-> Rules(Toggle("thinking", FALSE), {<<"minimax", "-m3">>})
                   \cup Rules(AlwaysOn, {<<"minimax", "-m2">>}),
   siliconflow |-> {Inside(<<"qwen">>, 6, EnableThinking), Inside(<<"deepseek">>, 10, NoneToMax),
                    Inside(<<"glm">>, 5, ToMax), Inside(<<"glm", "-5", ".2">>, 9, ToMax),
                    Inside(<<"glm", "-5", ".3">>, 9, ToMax)}
                   \cup {[r EXCEPT !.inside = TRUE, !.rank = 9 + Len(r.pat)] : r \in Kimi},
   openrouter  |-> Rules(EnableThinking, {<<"qwen", "/">>}) \cup Rules(NoneToMax, {<<"deepseek", "/">>})
                   \cup Rules(ThinkingType, {<<"moonshotai", "/">>})
                   \cup {Rule(<<"moonshotai", "/">> \o r.pat, r.surface) : r \in Kimi},
   openai_compatible |-> {}, groq |-> {}]

(* The models vendors.json lists itself, where a rule says something else. *)
Exact(vendor, id) ==
  IF vendor = "openai" /\ id = <<"gpt", "-4", "o">> THEN {NoSurface}
  ELSE IF vendor = "zhipu" /\ id = <<"glm", "-5">> THEN {ToMax} ELSE {}

Vendors == DOMAIN model_rules

(* The names of older settings and of the runtime, as catalog vendors; any *)
(* other name stands for itself.                                           *)
Aliases == [custom_deepseek |-> "deepseek", alibaba |-> "qwen", grok |-> "xai", responses_http |-> "openai",
            live |-> "openai", responses |-> "openai", messages |-> "anthropic"]
normalize_vendor_id(raw) ==
  IF raw \in DOMAIN Aliases THEN Aliases[raw] ELSE IF raw = "" THEN "openai" ELSE raw

Own(vendor, id) == Exact(vendor, id) # {} \/ Matching(id, model_rules[vendor]) # {}

(* The whole name is tried with every rule before its last part is. *)
family_surface(id) ==
  LET full == Matching(id, family_rules)
      base == Matching(model_basename(id), family_rules)
  IN IF full # {} THEN Longest(full).surface
     ELSE IF base # {} THEN Longest(base).surface ELSE NoSurface

surface_for(vendor, id) ==
  IF Exact(vendor, id) # {} THEN CHOOSE s \in Exact(vendor, id) : TRUE
  ELSE IF Own(vendor, id) THEN Longest(Matching(id, model_rules[vendor])).surface
  ELSE family_surface(id)

-----------------------------------------------------------------------------
(* The request: an effort, parameters, and whether the model reasons. *)

Apply(eff, params, reasoning) == [effort |-> eff, params |-> params, reasoning |-> reasoning]
Nothing == Apply("", {}, "unset")
Params(ps) == Apply("", ps, "unset")
Thinking(on) == <<"thinking", IF on THEN "enabled" ELSE "disabled">>
Bool(on) == IF on THEN "true" ELSE "false"
Is(c, kind) == c[1] = kind
reasoning_effort(v) == <<"reasoning_effort", v>>

Has(id, word) == \E i \in 1..Len(id) : id[i] = word

route_vendor(vendor, id) ==
  CASE vendor = "openrouter" ->
         IF IsPrefix(<<"qwen", "/">>, id) THEN "qwen"
         ELSE IF IsPrefix(<<"moonshotai", "/">>, id) THEN "moonshot"
         ELSE IF IsPrefix(<<"deepseek", "/">>, id) THEN "deepseek" ELSE vendor
    [] vendor = "siliconflow" ->
         IF Has(id, "qwen") THEN "qwen" ELSE IF Has(id, "deepseek") THEN "deepseek"
         ELSE IF Has(id, "glm") THEN "zhipu" ELSE vendor
    [] OTHER -> vendor

map_deepseek(c) ==
  LET v == IF Is(c, "none") THEN "none" ELSE c[2]
  IN IF c[1] \in {"effort_enum", "none"}
     THEN Params({Thinking(v # "none"), reasoning_effort(v)}) ELSE Nothing

map_qwen(c) ==
  CASE Is(c, "toggle")        -> Params({<<"enable_thinking", Bool(c[2])>>})
    [] Is(c, "budget_tokens") -> Params({<<"enable_thinking", "true">>, <<"thinking_budget", c[2]>>})
    [] Is(c, "none")          -> Params({<<"enable_thinking", "false">>})
    [] OTHER                  -> Nothing

map_moonshot(s, c) ==
  IF s.kind = "always_on" THEN Params({Thinking(TRUE)})
  ELSE IF s.kind = "toggle" /\ Is(c, "toggle") THEN Params({Thinking(c[2])})
  ELSE IF Is(c, "effort_enum") THEN Params({reasoning_effort(c[2])}) ELSE Nothing

map_zhipu(c) ==
  IF Is(c, "effort_enum") THEN Params({reasoning_effort(c[2]), Thinking(TRUE)}) ELSE Nothing

map_anthropic(c) ==
  IF Is(c, "effort_enum") /\ c[2] \in {"low", "high", "max"}
  THEN Apply(c[2], {}, "on") ELSE Nothing

map_minimax(s, c) ==
  LET on == CASE s.kind = "always_on" \/ Is(c, "always_on") -> TRUE
              [] Is(c, "toggle") -> c[2]
              [] Is(c, "none")   -> FALSE
              [] OTHER           -> ~(s.kind = "toggle" /\ ~s.on)
      budget == IF Is(c, "budget_tokens") THEN (IF c[2] < 1024 THEN 1024 ELSE c[2]) ELSE 4096
  IN IF on THEN Apply("", {<<"budget_tokens", budget>>}, "on") ELSE Apply("", {}, "off")

map_openai(id, c) ==
  LET reasons == (Has(id, "gpt") /\ Has(id, "-5")) \/ id[1] \in {"o1", "o3"}
  IN IF ~Is(c, "effort_enum") THEN Nothing
     ELSE IF reasons /\ c[2] \in {"low", "medium", "high", "max"} THEN Apply(c[2], {}, "unset")
     ELSE Params({reasoning_effort(c[2])})

map_generic_toggle(param, c) ==
  IF param \in {"thinking.type", "thinking"} THEN Params({Thinking(c[2])})
  ELSE Params({<<param, Bool(c[2])>>})

map_generic(s, c) ==
  CASE s.kind = "effort_enum"   -> Params({reasoning_effort(c[2])})
    [] s.kind = "toggle"        -> map_generic_toggle(s.param, c)
    [] s.kind = "budget_tokens" -> Params({<<"budget_tokens", c[2]>>})
    [] OTHER                    -> Nothing

(* map_choice, for a choice that has passed validate_choice. *)
map_choice(vendor, id, s, c) ==
  CASE Is(c, "advanced")    -> Params({<<k, "json">> : k \in c[2]})
    [] vendor = "deepseek"  -> map_deepseek(c)
    [] vendor = "qwen"      -> map_qwen(c)
    [] vendor = "moonshot"  -> map_moonshot(s, c)
    [] vendor = "zhipu"     -> map_zhipu(c)
    [] vendor = "anthropic" -> map_anthropic(c)
    [] vendor = "minimax"   -> map_minimax(s, c)
    [] vendor \in {"openai", "openai_compatible"} -> map_openai(id, c)
    [] OTHER -> map_generic(s, c)

to_model_spec(raw, id, c) ==
  LET vendor == normalize_vendor_id(raw)
  IN map_choice(route_vendor(vendor, id), id, surface_for(vendor, id), fortify_choice(c))

-----------------------------------------------------------------------------
(* Context windows, in tokens. *)

DEFAULT_CONTEXT_TOKENS == 256000
Window(tokens, pats) == {[pat |-> p, inside |-> FALSE, rank |-> Len(p), tokens |-> tokens] : p \in pats}

family_context_rules ==
  Window(200000, {<<"claude-">>, <<"o1">>, <<"o3">>, <<"o4">>, <<"glm", "-4", ".7">>, <<"glm", "-4", ".6">>}
                 \cup {<<"claude-", n>> : n \in {"sonnet-4", "opus-4", "haiku-4"}}
                 \cup {<<"claude-", n, "-5">> : n \in {"sonnet-4", "opus-4", "haiku-4"}})
  \cup Window(1000000, {<<"claude-", "sonnet-4", "-6">>}
                 \cup {<<"claude-", "opus-4", v>> : v \in {"-6", "-7", "-8"}}
                 \cup {<<"claude-", n>> : n \in {"sonnet-5", "opus-5", "haiku-5", "fable", "mythos"}}
                 \cup {<<"grok", "-4", ".3">>, <<"deepseek", "-", "v4">>, <<"deepseek", "-", "flash">>,
                       <<"qwen", "3">>, <<"qwen", "3", ".6">>, <<"qwen", "3", ".7">>, <<"qwen", "3", ".8">>,
                       <<"qwen", "-plus">>, <<"qwen", "-max">>, <<"glm", "-5">>,
                       <<"minimax", "-m3">>, <<"minimax", "-m2">>})
  \cup Window(128000, {<<"gpt", "-4", "o">>, <<"gpt", "-4", "-turbo">>, <<"deepseek", "-", "chat">>,
                       <<"deepseek", "-", "reasoner">>, <<"qwen", "-turbo">>, <<"qwen", "-flash">>,
                       <<"glm", "-4", ".5">>})
  \cup Window(1050000, {<<"gpt", "-5", v>> : v \in {".4", ".5", ".6"}} \cup {<<"gpt", "-6">>})
  \cup Window(500000, {<<"grok", "-4", v>> : v \in {".20", ".6", ".5"}})
  \cup Window(256000, {<<"grok", "-4">>, <<"grok">>})
  \cup Window(262144, {<<"kimi", "-k2", v>> : v \in {".5", ".6", ".7"}} \cup {<<"kimi", "-k2">>})
  \cup Window(1048576, {<<"kimi", "-k3">>} \cup {<<"gemini", v>> : v \in {"-3", "-2.5", "-2.0", "-1.5"}})
  \cup Window(1047576, {<<"gpt", "-4", ".1">>}) \cup Window(32768, {<<"gpt", "-4", "-32k">>})
  \cup Window(8192, {<<"gpt", "-4">>}) \cup Window(400000, {<<"gpt", "-5">>})
  \cup Window(131072, {<<"grok", "-3">>}) \cup Window(10000000, {<<"qwen", "-long">>})

(* The windows vendors.json publishes for models it lists. *)
Published ==
  Window(200000, {<<"claude-", n, "-5">> : n \in {"sonnet-4", "opus-4", "haiku-4"}})
  \cup Window(1000000, {<<"claude-", "sonnet-4", "-6">>, <<"claude-", "opus-4", "-6">>,
                        <<"deepseek", "-", "flash">>, <<"deepseek", "-", "v4", "-pro">>,
                        <<"qwen", "-plus">>, <<"qwen", "3", ".8", "-max">>, <<"glm", "-5">>,
                        <<"glm", "-5", ".2">>, <<"glm", "-5", ".3">>, <<"minimax", "-m3">>})
  \cup Window(128000, {<<"gpt", "-4", "o">>}) \cup Window(1048576, {<<"kimi", "-k3">>})
  \cup Window(500000, {<<"grok", "-4", ".6">>, <<"grok", "-4", ".5">>})
  \cup Window(262144, {<<"kimi", "-k2", ".6">>, <<"kimi", "-k2", ".7", "-code">>})

catalog_model_context(id) == {w.tokens : w \in {p \in Published : p.pat = id}}

default_context_tokens(id) ==
  LET base == model_basename(id)
      listed(n) == catalog_model_context(n)
      ruled(n) == Matching(n, family_context_rules)
  IN IF id = <<>> THEN DEFAULT_CONTEXT_TOKENS
     ELSE IF listed(id) # {} THEN CHOOSE t \in listed(id) : TRUE
     ELSE IF listed(base) # {} THEN CHOOSE t \in listed(base) : TRUE
     ELSE IF ruled(id) # {} THEN Longest(ruled(id)).tokens
     ELSE IF ruled(base) # {} THEN Longest(ruled(base)).tokens
     ELSE DEFAULT_CONTEXT_TOKENS

-----------------------------------------------------------------------------
(* Names to look at: every rule's prefix, longer names, gateways' names,   *)
(* and a distilled model that carries two families in its name.            *)
Plain == {r.pat : r \in family_rules \cup family_context_rules} \cup {<<"mistral">>}
Longer == Plain \cup {p \o <<"-preview">> : p \in Plain}
Distilled == <<"deepseek", "-", "r1-distill-", "qwen", "-7b">>
Hosted == {<<o, "/">> \o p : o \in {"qwen", "moonshotai", "openai"}, p \in Longer}
          \cup {<<"deepseek", "-", "ai", "/">> \o Distilled, <<"deepseek", "/">> \o Distilled}
Names == Longer \cup Hosted

(* No alias hides a vendor of the catalog, and each leads to one. *)
AliasesListed ==
  /\ \A raw \in DOMAIN Aliases \cup {""} : normalize_vendor_id(raw) \in Vendors
  /\ \A v \in Vendors : normalize_vendor_id(v) = v

(* Every choice a vendor offers for one of its own models makes a request  *)
(* of its own: no two mean the same, none is dropped on the way.  The      *)
(* exception is siliconflow, where a name that mentions qwen is mapped as  *)
(* Qwen's whichever rule gave it its surface: a distilled model is offered *)
(* DeepSeek's efforts, and Qwen's map knows none.                          *)
OwnChoicesDistinct ==
  \A v \in Vendors, id \in Names :
    LET s == surface_for(v, id)
        valid == {c \in ChoicesOf(s) : validate_choice(s, c)}
        told(c) == to_model_spec(v, id, c)
        lost == v = "siliconflow" /\ Has(id, "qwen") /\ s.kind = "effort_enum"
    IN Own(v, id) =>
         IF lost THEN \A c \in valid : told(c) = Nothing
         ELSE \A c, d \in valid : c # d => told(c) # told(d)

(* For other vendors' models, which a custom endpoint serves, the same     *)
(* holds where the vendor's map knows the surface; the OpenAI map knows    *)
(* efforts only, so that a switch on an OpenAI-compatible endpoint is      *)
(* accepted and never sent.                                                *)
Knows(v, kind) ==
  CASE v \in {"qwen", "minimax"} -> kind # "effort_enum"
    [] v \in {"deepseek", "zhipu", "anthropic", "openai", "openai_compatible"} -> kind = "effort_enum"
    [] OTHER -> TRUE
ForeignChoicesHeard ==
  \A v \in Vendors, id \in Plain :
    LET s == surface_for(v, id)
        valid == {c \in ChoicesOf(s) : validate_choice(s, c)}
    IN /\ (Knows(v, s.kind) /\ v # "anthropic") =>
            \A c, d \in valid : c # d => to_model_spec(v, id, c) # to_model_spec(v, id, d)
       /\ (v \in {"openai", "openai_compatible"} /\ s.kind = "toggle") =>
            \A c \in valid : to_model_spec(v, id, c) = Nothing

(* Whatever is chosen, the request carries no parameter beyond the allowed *)
(* ones, and an advanced choice loses exactly its other keys.              *)
ParamsAllowed ==
  \A v \in Vendors, id \in Names :
    LET s == surface_for(v, id)
        advanced == {Choice("advanced", keys) : keys \in SUBSET {"thinking", "budget_tokens", "tools"}}
        names(c) == {p[1] : p \in to_model_spec(v, id, c).params}
    IN /\ \A c \in {c \in ChoicesOf(s) : validate_choice(s, c)} : names(c) \subseteq ADVANCED_ALLOWLIST
       /\ \A c \in advanced : names(c) = c[2] \ {"tools"}

(* A gateway's name has the window of the model it serves, and the windows *)
(* of vendors.json and of the rules are the same.                          *)
WindowsAgree ==
  /\ \A p \in Longer : default_context_tokens(<<"openai", "/">> \o p) = default_context_tokens(p)
  /\ \A w \in Published : Longest(Matching(w.pat, family_context_rules)).tokens = w.tokens

CatalogSound ==
  AliasesListed /\ OwnChoicesDistinct /\ ForeignChoicesHeard /\ ParamsAllowed /\ WindowsAgree
=============================================================================
