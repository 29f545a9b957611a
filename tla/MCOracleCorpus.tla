--------------------------- MODULE MCOracleCorpus ---------------------------
\* The declarations of the runs of OracleCorpus: a scenario that completes, one
\* that ends in an error, one the oracle has no mechanism for.
EXTENDS OracleCorpus

MCScenarios ==
  << [applicable |-> TRUE, expected |-> "completed"],
     [applicable |-> FALSE, expected |-> "completed"],
     [applicable |-> TRUE, expected |-> "deadline_exceeded"] >>
=============================================================================
