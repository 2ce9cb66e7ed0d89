--------------------------- MODULE SearchConfigs ---------------------------
(***************************************************************************)
(* How a request is configured: the provider registry is looked up         *)
(* (models/provider_registry.py), a SearchAPIConfig is validated, made     *)
(* from a provider's defaults or updated (models/search_api_config.py),    *)
(* and the parameters of a request are built with the provider's own names *)
(* (SearchAPI.build_parameters over models/api_parameters.py).             *)
(*                                                                         *)
(* A URL is [site, path]; the site is what _extract_url_basename leaves.   *)
(* Values of parameters are strings, "None" where Python has None; delays  *)
(* are tenths of a second.  A dictionary is a function.  A registry maps   *)
(* normalised names to providers, [name, url, delay, size, env, map], and  *)
(* a map is [query, start, size, key, required, auto, zero, specific]: the *)
(* provider's names, how it counts pages, and the defaults of its own      *)
(* parameters.                                                             *)
(***************************************************************************)
EXTENDS Integers, Sequences, Functions, FiniteSets, TLC

CONSTANTS Normal,       \* _normalize_name of every name in use
          Environment   \* the keys that environment variables hold

None       == "None"
NoUrl      == [site |-> "", path |-> ""]
NoDelay    == -1
NoSize     == -1
NoPage     == -1
NoProvider == [name |-> None]
NoFields   == [n \in {} |-> None]
DefaultDelay == 61

Given(d, n) == IF n \in DOMAIN d THEN d[n] ELSE None
Filled(d)   == Restrict(d, {n \in DOMAIN d : d[n] # None})
\* A dictionary of one entry, and e with the entries of d over its own.
Entry(n, v) == [m \in {n} |-> v]
Over(d, e)  == [n \in DOMAIN d \cup DOMAIN e |-> IF n \in DOMAIN d THEN d[n] ELSE e[n]]

\* provider_registry.get and get_from_url
FromName(reg, name) ==
    IF name # "" /\ Normal[name] \in DOMAIN reg THEN reg[Normal[name]] ELSE NoProvider
FromUrl(reg, url) ==
    LET there == {p \in DOMAIN reg : reg[p].url = url}
    IN  IF there = {} THEN NoProvider ELSE reg[CHOOSE p \in there : TRUE]

\* _extract_url_basename and _load_api_key
Site(url) == url.site
LoadedKey(info) == Given(Environment, info.env)

\* _resolve_provider_config: the URL decides; a URL of nobody's gives its site's
\* name, and the provider's settings are still those of the name.
ResolveConfig(reg, url, name) ==
    LET u == FromUrl(reg, url)
        n == FromName(reg, name)
    IN  [found |-> TRUE, url |-> url,
         info |-> IF u # NoProvider THEN u ELSE n,
         name |-> IF u # NoProvider THEN u.name
                  ELSE IF n # NoProvider \/ name = "" THEN Site(url) ELSE name]

\* _prepare_provider_info; not found when it raises MissingProviderException.
PrepareInfo(reg, url, name) ==
    LET n == FromName(reg, name)
    IN  IF url # NoUrl THEN ResolveConfig(reg, url, name)
        ELSE [found |-> n # NoProvider, name |-> name, info |-> n,
              url |-> IF n = NoProvider THEN NoUrl ELSE n.url]

\* _prepare_api_specific_parameters: what the map does not name is ignored.
SpecificParameters(map, params) ==
    [n \in DOMAIN map.specific |-> IF n \in DOMAIN params THEN params[n] ELSE map.specific[n]]

\* model_validate with validate_search_api_config_parameters: a key that is
\* missing is read from the environment.
Validated(reg, d) ==
    LET p == PrepareInfo(reg, d.url, d.provider)
        known == p.info # NoProvider
    IN  [provider |-> p.name, url |-> p.url, size |-> d.size,
         delay |-> IF d.delay >= 0 THEN d.delay
                   ELSE IF known THEN p.info.delay ELSE DefaultDelay,
         key |-> IF d.key # None \/ ~known THEN d.key ELSE LoadedKey(p.info),
         params |-> IF known THEN SpecificParameters(p.info.map, d.params) ELSE d.params]

\* What keyword arguments may override.
NoOverrides == [provider |-> "", url |-> NoUrl, size |-> NoSize, delay |-> NoDelay,
                key |-> None, params |-> NoFields]

\* Fields that are given take the place of others.  Parameters are given as keyword
\* arguments, where None leaves the old value; None inside the nested dictionary
\* `api_specific_parameters', which would remove it, is not among the inputs.
Merged(d, over) ==
    [provider |-> IF over.provider # "" THEN over.provider ELSE d.provider,
     url    |-> IF over.url # NoUrl THEN over.url ELSE d.url,
     size   |-> IF over.size # NoSize THEN over.size ELSE d.size,
     delay  |-> IF over.delay # NoDelay THEN over.delay ELSE d.delay,
     key    |-> IF over.key # None THEN over.key ELSE d.key,
     params |-> Over(Filled(over.params), Filled(d.params))]

\* SearchAPIConfig.from_defaults, for a registered provider
DefaultConfig(reg, name, over) ==
    LET p == FromName(reg, name)
        own == [provider |-> p.name, url |-> p.url, size |-> p.size, delay |-> p.delay,
                key |-> None, params |-> NoFields]
    IN  Validated(reg, Merged(own, [over EXCEPT !.provider = ""]))

\* Mutant of KeyKept: the key of the configuration is kept.
KeyAlwaysKept(info, url, config) == TRUE

\* May update() keep the key?  Not when it turns to another site.
KeyKept(info, url, config) ==
    IF info # NoProvider THEN Site(info.url) = Site(config.url)
    ELSE url = NoUrl \/ Site(url) = Site(config.url)

\* SearchAPIConfig.update: size and delay stay unless they are given, whoever
\* the provider is; parameters that a new provider does not name go.
Updated(reg, config, over) ==
    LET p == PrepareInfo(reg, over.url, over.provider)
        info == IF p.found THEN p.info ELSE NoProvider
        kept == [config EXCEPT !.key = IF KeyKept(info, over.url, config) THEN @ ELSE None]
        d == Merged(kept, [over EXCEPT !.provider = IF p.found THEN p.name ELSE @,
                                       !.url = IF info # NoProvider THEN p.url ELSE @])
        changed == info # NoProvider /\ info.name # Normal[config.provider]
    IN  Validated(reg, IF changed
                       THEN [d EXCEPT !.params = Restrict(@, DOMAIN @ \cap DOMAIN info.map.specific)]
                       ELSE d)

----------------------------------------------------------------------------
(* SearchAPI.build_parameters *)

Raised == [n \in {"raised"} |-> None]

\* show_parameters(): the names of the map's fields, not their values.
ParameterNames(map) ==
    {"query", "start", "records_per_page", "api_key_parameter"} \cup DOMAIN map.specific

\* _calculate_start_index: the page, or the number of its first record.
StartIndex(map, page, size) ==
    LET first == IF map.zero THEN 0 ELSE 1
        adjusted == IF map.zero THEN page - 1 ELSE page
    IN  IF map.start = None THEN None
        ELSE IF adjusted < first \/ size < 1 THEN "raised"
        ELSE ToString(IF map.auto THEN first + (adjusted - first) * size ELSE adjusted)

\* _get_api_specific_parameters: the provider's own, and what is there already.
OwnParameters(map, base, specific) ==
    LET given == Filled(specific)
    IN  Over(Restrict(given, DOMAIN given \cap (DOMAIN base \cup DOMAIN map.specific)), base)

\* _get_api_key
WithKey(map, params, key) ==
    IF map.key = None THEN params
    ELSE IF key # None THEN Over(Entry(map.key, key), params)
    ELSE IF map.required THEN Raised ELSE params

\* APIParameterConfig.build_parameters
MappedParameters(map, query, page, size, key, specific) ==
    LET start == StartIndex(map, page, size)
        base == Over(Entry(map.query, query),
                     Over(Entry(map.start, start), Entry(map.size, ToString(size))))
        all == WithKey(map, OwnParameters(map, base, specific), key)
    IN  IF start = "raised" \/ all = Raised THEN Raised
        ELSE Filled(Restrict(all, DOMAIN all \ {None}))

\* _find_duplicated_parameters
Duplicated(map, specific) ==
    {"query", "records_per_page", "api_key", map.query, map.size, map.key} \cap DOMAIN specific

\* A key that the configuration lacks is taken from the other parameters; what
\* would override the core parameters is an error.
BuildParameters(config, map, query, page, extra) ==
    LET mine == ParameterNames(map) \cap DOMAIN extra
        specific == Over(Restrict(extra, mine), config.params)
        rest == Restrict(extra, DOMAIN extra \ mine)
        key == IF config.key # None THEN config.key
               ELSE IF Given(specific, "api_key") # None THEN specific["api_key"]
               ELSE Given(specific, map.key)
        popped == IF config.key # None THEN {}
                  ELSE IF Given(specific, "api_key") # None THEN {"api_key"}
                  ELSE {"api_key", map.key}
        left == Restrict(specific, DOMAIN specific \ popped)
        mapped == MappedParameters(map, query, page, config.size, key, left)
    IN  IF Duplicated(map, left) # {} \/ mapped = Raised THEN Raised
        ELSE Filled(Over(rest, mapped))
=============================================================================
