---------------------------- MODULE RequestChannel ----------------------------
(***************************************************************************)
(* What the adapter transport promises its caller, without frames, ordinals*)
(* or timers (spec/RUNNER_CONTRACT_V1.md, "exactly once, no retries"):     *)
(*                                                                         *)
(*   - requests are made one at a time;                                    *)
(*   - each ends exactly once, answered by the adapter or failed;          *)
(*   - only a request the adapter has performed is answered;               *)
(*   - a request is performed at most once, and in the order of issue, but *)
(*     possibly after it has failed: failure does not mean no effect.      *)
(***************************************************************************)
EXTENDS Naturals, Sequences

VARIABLES
  status,   \* status[s]: how request s stands with its caller
  effects   \* the requests performed, in order

vars == <<status, effects>>

Status == {"pending", "answered", "failed"}

Idle == \A s \in 1..Len(status) : status[s] # "pending"

Init == status = <<>> /\ effects = <<>>

Issue ==
  /\ Idle
  /\ \E st \in {"pending", "failed"} : status' = Append(status, st)
  /\ UNCHANGED effects

Perform(s) ==
  /\ \A i \in 1..Len(effects) : effects[i] < s
  /\ effects' = Append(effects, s)
  /\ UNCHANGED status

Answer(s) ==
  /\ status[s] = "pending"
  /\ \E i \in 1..Len(effects) : effects[i] = s
  /\ status' = [status EXCEPT ![s] = "answered"]
  /\ UNCHANGED effects

Fail(s) ==
  /\ status[s] = "pending"
  /\ status' = [status EXCEPT ![s] = "failed"]
  /\ UNCHANGED effects

Next ==
  \/ Issue
  \/ \E s \in 1..Len(status) : Perform(s) \/ Answer(s) \/ Fail(s)

Spec == Init /\ [][Next]_vars

\* A pending request does end.
FairSpec ==
  Spec /\ WF_vars(\E s \in 1..Len(status) : Answer(s) \/ Fail(s))
=============================================================================
