--------------------------- MODULE BrowserDecision ---------------------------
(***************************************************************************)
(* What a browser-owned request promises: it is asked once, it is decided  *)
(* at most once, and what the host records as its decision is the one that *)
(* was applied.                                                            *)
(***************************************************************************)
CONSTANTS Requests, Decisions, Undecided

VARIABLES
  asked,    \* the requests raised so far
  applied,  \* the decision the browser was given for each
  recorded  \* the decision the host holds for each

decisionVars == <<asked, applied, recorded>>

Init ==
  /\ asked = {}
  /\ applied = [r \in Requests |-> Undecided]
  /\ recorded = [r \in Requests |-> Undecided]

Ask(r) ==
  /\ r \notin asked
  /\ asked' = asked \union {r}
  /\ UNCHANGED <<applied, recorded>>

Decide(r, d) ==
  /\ r \in asked /\ applied[r] = Undecided
  /\ applied' = [applied EXCEPT ![r] = d]
  /\ UNCHANGED <<asked, recorded>>

Record(r) ==
  /\ applied[r] # Undecided /\ recorded[r] = Undecided
  /\ recorded' = [recorded EXCEPT ![r] = applied[r]]
  /\ UNCHANGED <<asked, applied>>

Next ==
  \E r \in Requests : Ask(r) \/ Record(r) \/ \E d \in Decisions : Decide(r, d)

Spec == Init /\ [][Next]_decisionVars
=============================================================================
