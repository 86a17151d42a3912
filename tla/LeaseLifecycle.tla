--------------------------- MODULE LeaseLifecycle ---------------------------
(***************************************************************************)
(* What campaign supervision promises about one campaign run: one owner    *)
(* for its lifetime, one verdict, and a lease that is given back only      *)
(* after the verdict is durable.  No file, thread, heartbeat or clock.     *)
(***************************************************************************)
CONSTANT Verdict  \* the pairs of terminal status and first terminal cause

VARIABLES phase,   \* "none", "held", "stopping", "closed", "released"
          verdict  \* "open", or the Verdict the supervision was closed with

leaseVars == <<phase, verdict>>

Init == phase = "none" /\ verdict = "open"

Acquire == phase = "none" /\ phase' = "held" /\ UNCHANGED verdict

RequestStop == phase = "held" /\ phase' = "stopping" /\ UNCHANGED verdict

Close ==
  /\ phase \in {"held", "stopping"}
  /\ phase' = "closed"
  /\ verdict' \in Verdict

Release == phase = "closed" /\ phase' = "released" /\ UNCHANGED verdict

Next == Acquire \/ RequestStop \/ Close \/ Release

Spec == Init /\ [][Next]_leaseVars
=============================================================================
