-------------------------- MODULE MCVocabularyBuild --------------------------
(* Three lemmas; "hrob" names two AMCR concepts and a TEATER one, two of       *)
(* TEATER's nodes have no identifier.  In the first release "papir" names     *)
(* three concepts with the same labels, of which the union names the second   *)
(* and then the first, which is excluded; of "rov" it names one that no flat  *)
(* row has, and the first flat row is an excluded one.                        *)
EXTENDS VocabularyBuild

C(l, t, i) == [lemma |-> l, target |-> t, id |-> i, excluded |-> FALSE]
X(l, t, i) == [lemma |-> l, target |-> t, id |-> i, excluded |-> TRUE]

MCLemmas == <<"hrob", "papir", "rov">>
MCPages  == << <<C("hrob", "grave", "H1"), C("rov", "", "H2")>>,
               <<C("hrob", "tomb", "H3")>> >>
MCNodes  == <<C("hrob", "burial", "T1"), C("rov", "mound", "T2"),
              C("rov", "barrow", ""), C("papir", "paper", "")>>
MCReleases ==
  << [readable |-> TRUE, curated |-> << <<"papir", "paper">>, <<"rov", "mound">>, <<"hrob", "pit">> >>,
      nested |-> <<[pair |-> <<"papir", "paper">>, source |-> "teater", id |-> "T5"],
                   [pair |-> <<"rov", "mound">>, source |-> "amcr", id |-> "H9"],
                   [pair |-> <<"papir", "paper">>, source |-> "teater", id |-> "T4"]>>,
      amcr |-> <<X("papir", "paper", "H4")>>,
      teater |-> <<X("papir", "paper", "T4"), C("papir", "paper", "T5"),
                   X("rov", "mound", "T9"), C("rov", "mound", "T2")>>],
     [readable |-> TRUE, curated |-> <<>>, nested |-> <<>>, amcr |-> <<>>, teater |-> <<>>],
     [readable |-> FALSE, curated |-> <<>>, nested |-> <<>>, amcr |-> <<>>, teater |-> <<>>] >>
MCCommitted == <<[lemma |-> "rov", target |-> "mound", source |-> "teater", id |-> "T2"]>>
=============================================================================
