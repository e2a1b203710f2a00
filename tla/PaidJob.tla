------------------------------ MODULE PaidJob ------------------------------
(***************************************************************************)
(* What a relay in front of a provider that charges per request promises   *)
(* its callers: a job is handed to the provider, and handed to it again    *)
(* only after the provider said that it did not take it; an answer, once   *)
(* given, stands.  The Dola adapter is shown to implement it.              *)
(***************************************************************************)
CONSTANT Jobs

VARIABLE phase   \* phase[j]: where the caller and the provider see the job

Phases == {"absent", "waiting", "sent", "failed", "delivered"}

Init == phase = [j \in Jobs |-> "absent"]

Move(j, from, to) ==
    /\ phase[j] = from
    /\ phase' = [phase EXCEPT ![j] = to]

Accept(j)  == Move(j, "absent", "waiting")
Send(j)    == Move(j, "waiting", "sent")
Refuse(j)  == Move(j, "sent", "waiting")    \* the provider did not take it
Deliver(j) == Move(j, "sent", "delivered")
Fail(j)    == Move(j, "waiting", "failed") \/ Move(j, "sent", "failed")

(* A restart of the relay gives up every job in `lost` at once. *)
GiveUp(lost) ==
    /\ lost \subseteq {j \in Jobs : phase[j] \in {"waiting", "sent"}}
    /\ phase' = [j \in Jobs |-> IF j \in lost THEN "failed" ELSE phase[j]]

Next ==
    \/ \E j \in Jobs : Accept(j) \/ Send(j) \/ Refuse(j) \/ Deliver(j) \/ Fail(j)
    \/ \E lost \in SUBSET Jobs : GiveUp(lost)

Spec == Init /\ [][Next]_phase
=============================================================================
