-------------------------- MODULE MCDocumentRecord --------------------------
(* Two pages of one line; two files; the OCR program under its old name.     *)
EXTENDS DocumentRecord, TLC

CONSTANT PageKeys

MCKeys    == {<<p, 1>> : p \in PageKeys}
MCBatches == {{k} : k \in MCKeys}

MCPrograms == {"alto-postprocess", Converter, "nlp-enrich"}
MCOrigins  == {"ocr:engine", "digital-born-pdf"}

Symmetric == Permutations(Slots) \cup Permutations(PageKeys)
=============================================================================
