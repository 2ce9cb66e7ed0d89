----------------------------- MODULE MCRecords -----------------------------
(***************************************************************************)
(* The two parts of the program that work on the records of a page: a data *)
(* processor (RecordPipeline) and the field map of a provider (FieldMaps). *)
(* They share no state and neither calls the other, so that what one does  *)
(* never depends on where the other one is: a behaviour is one of the      *)
(* processor or one of the map, and the other half stands still.           *)
(***************************************************************************)
EXTENDS MCRecordPipeline

CONSTANT Calls

VARIABLES half, map_fields, map_keys, map_snapshot, map_pieces, map_pc, map_page,
          map_result, map_clean, map_missed, map_outdated

mapVars == <<map_fields, map_keys, map_snapshot, map_pieces, map_pc, map_page,
             map_result, map_clean, map_missed, map_outdated>>

Cases == INSTANCE MCFieldMapCases
FieldPages == Cases!MCPages
FieldVersions == Cases!MCVersions

Map == INSTANCE FieldMaps WITH
    fields <- map_fields, record_keys <- map_keys, cached_fields <- map_snapshot,
    extracted <- map_pieces, pc <- map_pc, page <- map_page, result <- map_result,
    clean <- map_clean, missed <- map_missed, outdated <- map_outdated,
    Pages <- FieldPages, Versions <- FieldVersions

\* The half that does not move has one state to stand in.
BothInit ==
    /\ Init /\ Map!Init
    /\ \/ half = "processor" /\ map_fields = CHOOSE map \in FieldVersions : TRUE
       \/ half = "map" /\ setup = CHOOSE s \in Setups : TRUE

BothNext ==
    \/ half = "processor" /\ Next /\ UNCHANGED <<half, mapVars>>
    \/ half = "map" /\ Map!Next /\ UNCHANGED <<half, vars>>

BothSpec == BothInit /\ [][BothNext]_<<half, vars, mapVars>>

Symmetric == Permutations(Calls)


\* FieldMaps!KeyedAgree: where DataProcessor finds a value of a record,
\* NormalizingDataProcessor finds the same.
KeyedAgree == Map!KeyedAgree
=============================================================================
