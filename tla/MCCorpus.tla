------------------------------ MODULE MCCorpus ------------------------------
\* The scenarios of the run corpus: a handover and an observation.
EXTENDS Corpus

MCScenarios ==
  << [driver |-> <<"call", "flush", "resume">>, texts |-> {"restored"}],
     [driver |-> <<"call">>, texts |-> {"bounded"}] >>
=============================================================================
