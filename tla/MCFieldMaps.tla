---------------------------- MODULE MCFieldMaps ----------------------------
(* A field map alone: one caller is enough for a change that goes unnoticed. *)
EXTENDS FieldMaps, MCFieldMapCases

\* The configurations that have paths.
WithPaths == {map \in MCVersions : KeysFor(map) # NoKeys}
=============================================================================
