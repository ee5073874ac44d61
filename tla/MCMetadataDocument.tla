------------------------ MODULE MCMetadataDocument ------------------------
(***************************************************************************)
(* Instances of MetadataDocument.  A record with two neighbouring fields   *)
(* of one kind, a field of another kind and an element no XPath names; and *)
(* a record of a single field.                                             *)
(***************************************************************************)
EXTENDS MetadataDocument

RecordKinds  == <<"popis", "popis", "poznamka", "nazev">>
RecordXPaths == <<{"poznamka"}, {"popis"}>>

OneField == <<"popis">>
OneXPath == <<{"popis"}>>
=============================================================================
