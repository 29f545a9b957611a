---------------------------- MODULE MCComparison ----------------------------
\* Run specs for Comparison.
EXTENDS Comparison

Step(method, needs) == [method |-> method, needs |-> needs]
Gate(kind, required) == [kind |-> kind, required |-> required]

MCSpecs ==
  { \* two captures under one name, gates of every kind; the result is too large
    [id |-> "native", backend |-> "native",
     workflow |-> <<Step("capture", 0), Step("capture", 0)>>,
     gates |-> {Gate(k, TRUE) : k \in {"native", "capability", "evidence",
                                      "execution"}},
     oversized |-> {"result"}],
    \* a step that refers to the one before; the traces are too large
    [id |-> "mock", backend |-> "mock",
     workflow |-> <<Step("compare", 0), Step("act", 1)>>,
     gates |-> {Gate("native", TRUE), Gate("execution", FALSE)},
     oversized |-> {"traces"}],
    \* a step that refers to itself
    [id |-> "unresolved", backend |-> "mock",
     workflow |-> <<Step("act", 1)>>, gates |-> {}, oversized |-> {}],
    \* a spec that is not valid
    [id |-> "unknown", backend |-> "unknown",
     workflow |-> <<Step("act", 0)>>,
     gates |-> {Gate("capability", TRUE), Gate("execution", TRUE)},
     oversized |-> {}] }
=============================================================================
