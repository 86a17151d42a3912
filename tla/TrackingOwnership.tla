-------------------------- MODULE TrackingOwnership --------------------------
(***************************************************************************)
(* What the tracking queue promises its callers, without rows, slots,      *)
(* savepoints or connections: who may track a token.                       *)
(*                                                                         *)
(* A token is free until a campaign takes it; a campaign takes two tokens  *)
(* or none; a token it has let go cools down until a known instant or is   *)
(* barred until somebody reopens it by hand, which no code does.           *)
(***************************************************************************)
EXTENDS Integers

CONSTANTS Token, Cooldown, MaxTime

VARIABLES owner,  \* what each token is
          now     \* the clock, in units of which Cooldown is a number

ownershipVars == <<owner, now>>

Free         == [is |-> "free",   until |-> 0]
Owned        == [is |-> "owned",  until |-> 0]
Barred       == [is |-> "barred", until |-> 0]
Cooling(end) == [is |-> "cooling", until |-> end]

Available(t) ==
  \/ owner[t] = Free
  \/ owner[t].is = "cooling" /\ owner[t].until <= now

\* A database may hold tokens that cool down, or are barred, from before.
Init ==
  /\ now = 0
  /\ owner \in [Token -> {Free, Barred} \cup {Cooling(end) : end \in 0 .. Cooldown}]

Take(t, u) ==
  /\ t # u /\ Available(t) /\ Available(u)
  /\ owner' = [owner EXCEPT ![t] = Owned, ![u] = Owned]
  /\ UNCHANGED now

Settle(S) ==
  /\ S # {} /\ \A t \in S : owner[t] = Owned
  /\ \E end \in [S -> {Barred, Cooling(now + Cooldown)}] :
       owner' = [t \in Token |-> IF t \in S THEN end[t] ELSE owner[t]]
  /\ UNCHANGED now

Tick ==
  /\ now < MaxTime
  /\ now' = now + 1
  /\ UNCHANGED owner

Next ==
  \/ \E t, u \in Token : Take(t, u)
  \/ \E S \in SUBSET Token : Settle(S)
  \/ Tick

Spec == Init /\ [][Next]_ownershipVars
=============================================================================
