---------------------------- MODULE PageMetadata ----------------------------
(***************************************************************************)
(* From a parsed page to the total that ends a multi-page retrieval: what  *)
(* the extractor's metadata paths pick (BaseDataExtractor), and what the   *)
(* provider's ResponseMetadataMap reads of it.                             *)
(*                                                                         *)
(* A page is a value of JSON: a dictionary, a number or numeral, another   *)
(* text, or None.  Lists on the way to a total are left out.  A dotted     *)
(* name is the sequence of its parts.                                      *)
(***************************************************************************)
EXTENDS Integers, Sequences, SequencesExt

CONSTANT NoTotal    \* the provider reports no total

Missing         == [kind |-> "None"]
Text            == [kind |-> "text"]
Number(n)       == [kind |-> "number", value |-> n]
Mapping(fields) == [kind |-> "dict", entries |-> fields]

\* One step of get_nested_data: a scalar met before the end of the path is the result.
Under(value, key) ==
    IF value.kind # "dict" THEN value
    ELSE IF key \in DOMAIN value.entries THEN value.entries[key] ELSE Missing

\* The values met along a path.
Along(page, path) ==
    LET met[n \in 0..Len(path)] == IF n = 0 THEN page ELSE Under(met[n - 1], path[n])
    IN  met

\* get_nested_data
NestedData(page, path) == Along(page, path)[Len(path)]

\* extract_metadata: `paths' is a sequence of [name, path]; of two paths with one
\* name the later one counts, even where it leads nowhere.
ExtractMetadata(page, paths) ==
    LET Latest(name) == CHOOSE i \in DOMAIN paths :
                           /\ paths[i].name = name
                           /\ \A j \in DOMAIN paths : j > i => paths[j].name # name
    IN  [name \in {paths[i].name : i \in DOMAIN paths} |->
            NestedData(page, paths[Latest(name)].path)]

\* ResponseMetadataMap._extract_key: the name as it is, else part by part.
ExtractKey(metadata, key) ==
    IF key = <<>> THEN Missing
    ELSE IF Len(key) = 1 /\ key[1] \in DOMAIN metadata THEN metadata[key[1]]
    ELSE IF Len(key) > 1 THEN NestedData(Mapping(metadata), key) ELSE Missing

\* coerce_int
CoerceInt(value) == IF value.kind = "number" THEN value.value ELSE NoTotal

\* ResponseMetadataMap.process_metadata; a map that names no field has <<>>.
ProcessMetadata(map, metadata) ==
    [total_query_hits |-> CoerceInt(ExtractKey(metadata, map.total_query_hits)),
     records_per_page |-> CoerceInt(ExtractKey(metadata, map.records_per_page))]

\* ProcessedResponse.total_query_hits by way of process_metadata: `maps' has the
\* map of the provider the response's URL belongs to, or nothing.
TotalQueryHits(maps, metadata) ==
    IF maps = <<>> \/ DOMAIN metadata = {} THEN NoTotal
    ELSE ProcessMetadata(maps[1], metadata).total_query_hits
=============================================================================
