----------------------------- MODULE MCParadata -----------------------------
(***************************************************************************)
(* The catalogue of para_licenses; stages log licences of it at ranks with *)
(* and without ties, and one that is not in it.                            *)
(***************************************************************************)
EXTENDS Paradata

MCNonCommercial == {"CC BY-NC 4.0", "glm-4", "CC BY-NC-SA 4.0"}
MCShareAlike    == {"MPL 2.0", "LGPL-3.0", "CC BY-SA 4.0", "GPL-3.0", "AGPL-3.0", "CC BY-NC-SA 4.0"}

\* LICENSE_RANK, rank by rank.
MCByRank == << {"Public Domain", "CC0"},
               {"MIT", "Apache-2.0", "BSD-3-Clause", "CDLA-Permissive-2.0", "CC BY 4.0"},
               {"MPL 2.0"}, {"LGPL-3.0", "CC BY-SA 4.0"}, {"GPL-3.0", "AGPL-3.0"},
               {"CC BY-NC 4.0", "glm-4"}, {"CC BY-NC-SA 4.0"} >>
MCLicences == UNION ToSet(MCByRank)
MCRank     == [l \in MCLicences |-> (CHOOSE r \in DOMAIN MCByRank : l \in MCByRank[r]) - 1]
MCTerms    == {"MIT", "MPL 2.0", "CC BY-NC 4.0", "CC BY-NC-SA 4.0", "LLM provider ToS"}
=============================================================================
