----------------------------- MODULE FieldMaps -----------------------------
(***************************************************************************)
(* NormalizingFieldMap (api/normalization/normalizing_field_map.py over    *)
(* base_field_map.py): the map of one provider, shared by every caller     *)
(* that normalises its records.  Its processor is built from the fields    *)
(* when it is first used and again when they are seen to have changed; the *)
(* pieces extracted from a record lie in a list of the processor until     *)
(* they are flattened, and no lock guards it.                              *)
(*                                                                         *)
(* A configuration of the map is [provider, paths, defaults]: paths gives  *)
(* each field the paths that are tried for it, in order, none for None.    *)
(***************************************************************************)
EXTENDS NormalizingRecords

CONSTANTS Calls,     \* calls of normalize_records, by any threads
          Pages,     \* the lists of records they may be given
          Versions   \* the configurations that the user switches between

VARIABLES
    fields,         \* the map's configuration
    record_keys,    \* its processor's keys
    cached_fields,  \* the snapshot of the fields, or NotCached
    extracted,      \* its processor's extracted_record_data_list
    pc,             \* call |-> where it is
    page,           \* call |-> the records it was given
    result,         \* call |-> the normalised records so far
    clean,          \* history: call |-> no other one and no change came in between
    missed,         \* history: were fields assigned while there was no snapshot?
    outdated        \* history: call |-> an assignment before it was missed, or it
                    \* left the map without paths

history == <<clean, missed, outdated>>
vars    == <<fields, record_keys, cached_fields, extracted, pc, page, result, history>>

NotCached == [provider |-> "not cached", paths |-> <<>>, defaults |-> <<>>]
NoKeys    == [name \in {} |-> <<>>]
Provider  == "provider_name"

\* _update_record_keys: the fallbacks of a field are numbered, and the provider
\* is looked for in the record when the map names none.
KeysFor(map) ==
    LET names == {<<f, i>> : f \in DOMAIN map.paths, i \in 0..3}
        used  == {n \in names : n[2] < Len(map.paths[n[1]])}
        paths == [n \in used |-> map.paths[n[1]][n[2] + 1]]
    IN  IF map.provider = "" THEN (<<Provider, 0>> :> <<Provider>>) @@ paths ELSE paths

Value(record, name) == IF name \in DOMAIN record THEN record[name] ELSE Null


\* _resolve_fallbacks: the first path with a value wins, and the numbered names
\* of the present fields go.
Resolved(record, map) ==
    LET fallbacks == {n \in DOMAIN record : n[1] \in DOMAIN map.paths
                                            /\ n[2] \in 1..(Len(map.paths[n[1]]) - 1)}
        Found(f) == {i \in 0..3 : Value(record, <<f, i>>) # Null
                                  /\ (i = 0 \/ <<f, i>> \in fallbacks)}
        Least(S) == CHOOSE i \in S : \A j \in S : i <= j
    IN  [n \in DOMAIN record \ fallbacks |->
            IF record[n] = Null /\ n[2] = 0 /\ Found(n[1]) # {}
            THEN record[<<n[1], Least(Found(n[1]))>>] ELSE record[n]]

\* _add_defaults: a provider that is nothing becomes None when there is no default.
WithDefaults(record, map) ==
    LET own == {<<f, 0>> : f \in DOMAIN map.paths \cup DOMAIN map.defaults \cup {Provider}}
        empty == {Null, Leaf("")}
        Nothing(n) == \/ Value(record, n) \in empty
                      \/ n = <<Provider, 0>> /\ Value(record, n) = List(<<>>)
        Default(n) == IF n[1] \in DOMAIN map.defaults THEN map.defaults[n[1]]
                      ELSE IF n = <<Provider, 0>> /\ map.provider # "" THEN Leaf(map.provider)
                      ELSE Null
    IN  [n \in own \cup DOMAIN record |->
            IF n \in own /\ Nothing(n) /\ (Default(n) # Null \/ n = <<Provider, 0>>)
            THEN Default(n) ELSE Value(record, n)]

----------------------------------------------------------------------------
Init ==
    /\ fields \in Versions
    /\ record_keys = NoKeys /\ cached_fields = NotCached /\ extracted = <<>>
    /\ pc = [c \in Calls |-> "start"]
    /\ page = [c \in Calls |-> <<>>]
    /\ result = [c \in Calls |-> <<>>]
    /\ clean = [c \in Calls |-> FALSE]
    /\ missed = FALSE /\ outdated = [c \in Calls |-> FALSE]

Running(c) == pc[c] \notin {"start", "done"}
Record(c)  == page[c][Len(result[c]) + 1]
Flattens(c) == NonEmpty(Record(c)) /\ IsNestedJson(Record(c)) /\ record_keys # NoKeys

\* normalize_records up to its loop, with the property `processor': the fields are
\* compared with the snapshot, which is taken when it is first looked at; new keys
\* remove it, and no keys leave the old ones.
Begin(c, records) ==
    /\ pc[c] = "start"
    /\ page' = [page EXCEPT ![c] = records]
    /\ LET snapshot == IF cached_fields = NotCached THEN fields ELSE cached_fields
           rebuilt  == record_keys = NoKeys \/ fields # snapshot
           keys     == IF rebuilt /\ KeysFor(fields) # NoKeys THEN KeysFor(fields)
                       ELSE record_keys
       IN  /\ record_keys' = keys
           /\ cached_fields' = IF rebuilt THEN NotCached ELSE snapshot
           /\ clean' = [d \in Calls |->
                  d = c \/ (clean[d] /\ (Running(d) => keys = record_keys))]
           /\ missed' = (missed /\ ~rebuilt)
           /\ outdated' = [outdated EXCEPT ![c] =
                  missed' \/ (KeysFor(fields) = NoKeys /\ record_keys # NoKeys)]
    /\ pc' = [pc EXCEPT ![c] = IF records = <<>> THEN "resolve" ELSE "read"]
    /\ UNCHANGED <<fields, extracted, result>>

\* process_record, first half: what was extracted before is cleared.
Extract(c) ==
    /\ pc[c] = "read"
    /\ IF Flattens(c)
       THEN /\ extracted' = TraverseAll(Record(c), record_keys)
            /\ clean' = [d \in Calls |-> clean[d] /\ (d # c => pc[d] # "flatten")]
       ELSE UNCHANGED <<extracted, clean>>
    /\ pc' = [pc EXCEPT ![c] = "flatten"]
    /\ UNCHANGED <<fields, record_keys, cached_fields, page, result, missed, outdated>>

\* Its second half
Flatten(c) ==
    /\ pc[c] = "flatten"
    /\ result' = [result EXCEPT ![c] =
                    Append(@, NormalizedRecord(Record(c), record_keys, extracted))]
    /\ pc' = [pc EXCEPT ![c] = IF Len(result'[c]) = Len(page[c]) THEN "resolve" ELSE "read"]
    /\ UNCHANGED <<fields, record_keys, cached_fields, extracted, page, history>>

\* The end of normalize_records
Resolve(c) ==
    /\ pc[c] = "resolve"
    /\ result' = [result EXCEPT ![c] =
           [i \in DOMAIN @ |-> WithDefaults(Resolved(@[i], fields), fields)]]
    /\ pc' = [pc EXCEPT ![c] = "done"]
    /\ UNCHANGED <<fields, record_keys, cached_fields, extracted, page, history>>

\* The user assigns fields of the map.
Change(map) ==
    /\ map # fields
    /\ fields' = map
    /\ clean' = [c \in Calls |-> clean[c] /\ ~Running(c)]
    /\ missed' = (missed \/ (record_keys # NoKeys /\ cached_fields = NotCached))
    /\ UNCHANGED <<record_keys, cached_fields, extracted, pc, page, result, outdated>>

Next ==
    \/ \E c \in Calls : \/ \E records \in Pages : Begin(c, records)
                        \/ Extract(c) \/ Flatten(c) \/ Resolve(c)
    \/ \E map \in Versions : Change(map)

Spec == Init /\ [][Next]_vars

----------------------------------------------------------------------------
(* Properties *)

Ends(c) == pc[c] = "resolve" /\ pc'[c] = "done"

\* What a record says at a path: the values that lie there, through any list on
\* the way, or the value of a record that was flattened already.
Said(record, path) ==
    LET there == IF IsNestedJson(record) THEN At(record, path)
                 ELSE SelectSeq(<<Got(record, Dotted(path))>>, LAMBDA v : v # Null)
    IN  Unlist(Unlist(IF there = <<>> THEN Null ELSE List(there)))

\* The field of a normalised record: what is said at the first of its paths at
\* which anything is, or else its default.
Expected(record, map, f) ==
    LET said == SelectSeq([i \in DOMAIN map.paths[f] |-> Said(record, map.paths[f][i])],
                          LAMBDA v : v # Null)
    IN  IF said # <<>> /\ said[1] # Leaf("") THEN said[1]
        ELSE IF f \in DOMAIN map.defaults THEN map.defaults[f]
        ELSE IF said # <<>> THEN said[1] ELSE Null

ExpectedProvider(record, map) ==
    LET said == Said(record, <<Provider>>)
    IN  IF map.provider = "" /\ said \notin {Null, Leaf(""), List(<<>>)} THEN said
        ELSE IF Provider \in DOMAIN map.defaults THEN map.defaults[Provider]
        ELSE IF map.provider = "" THEN Null ELSE Leaf(map.provider)

\* What a call returns: the records have the fields of the map and no other, each
\* with what its own record says.
FieldsOfTheMap(c) ==
    /\ Len(result'[c]) = Len(page[c])
    /\ \A i \in DOMAIN page[c] :
         LET row == result'[c][i]
         IN  /\ DOMAIN row = {<<f, 0>> : f \in DOMAIN fields.paths
                                  \cup DOMAIN fields.defaults \cup {Provider}}
             /\ row[<<Provider, 0>>] = ExpectedProvider(page[c][i], fields)
             /\ \A f \in DOMAIN fields.paths :
                   row[<<f, 0>>] = Expected(page[c][i], fields, f)


\* What the class promises (normalizing_field_map.py:29): changes of the fields are
\* detected during normalisation, so that every undisturbed call returns the
\* fields that the map has.
ChangesDetected ==
    [][\A c \in Calls : Ends(c) /\ clean[c] => FieldsOfTheMap(c)]_vars

\* Where DataProcessor finds a value, NormalizingDataProcessor finds the same:
\* the two are documented with one example.
KeyedAgree ==
    [][\A c \in Calls : pc[c] = "flatten" /\ pc'[c] # "flatten" /\ clean[c] =>
         \A name \in DOMAIN record_keys :
            LET one == ExtractKey(Record(c), record_keys[name])
            IN  one # Null /\ NonEmpty(Record(c)) =>
                    Last(result'[c])[name] = one]_vars
=============================================================================
