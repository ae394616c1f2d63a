--------------------------- MODULE WindowLifecycle ---------------------------
(***************************************************************************)
(* What a ChangeWindow promises to those who read its status, without      *)
(* rows, gates, patches or caches.  Somebody evaluates the window now and  *)
(* then, the outcome is good or bad, and the lifecycle says what the       *)
(* stored phase may be after it: success needs a stretch of good outcomes  *)
(* as long as the stabilization period with no bad one in it, a bad        *)
(* outcome takes success back, a bad outcome after the end times the       *)
(* window out, and each decision is signed when it is made.                *)
(***************************************************************************)
EXTENDS Integers

CONSTANTS
    Opening,   \* when the window starts
    Closing,   \* when it ends
    Settling   \* how long outcomes must be good, 0 for once

NoTime == -1

VARIABLES
    now,      \* the clock
    outcome,  \* the last stored outcome: "none", "good" or "bad"
    since,    \* when the present stretch of good outcomes began (if Settling > 0)
    phase,    \* the phase a reader sees
    signed    \* the last decision signed, and when

vars == <<now, outcome, since, phase, signed>>

Init ==
    /\ now = 0
    /\ outcome = "none"
    /\ since = NoTime
    /\ phase = ""
    /\ signed = [result |-> "", at |-> NoTime]

PassTime == now' = now + 1 /\ UNCHANGED <<outcome, since, phase, signed>>

Schedule ==
    /\ now < Opening
    /\ phase' = "Scheduled"
    /\ UNCHANGED <<now, outcome, since, signed>>

Decision(result) == phase' = result /\ signed' = [result |-> result, at |-> now]

Good ==
    /\ now >= Opening
    /\ outcome' = "good"
    /\ since' = IF Settling = 0 THEN NoTime ELSE IF outcome = "good" THEN since ELSE now
    /\ \/ Settling = 0 /\ Decision("Succeeded")
       \/ Settling > 0 /\ now - since' >= Settling /\ Decision("Succeeded")
       \/ /\ Settling > 0 /\ now - since' < Settling
          /\ phase' = "PlatformRecovering" /\ UNCHANGED signed
    /\ UNCHANGED now

Bad ==
    /\ now >= Opening
    /\ outcome' = "bad"
    /\ since' = NoTime
    /\ \/ now > Closing /\ Decision("TimedOut")
       \/ now <= Closing /\ outcome = "none" /\ phase' = "WaitingForChange" /\ UNCHANGED signed
       \/ now <= Closing /\ outcome # "none" /\ phase' = "Executing" /\ UNCHANGED signed
    /\ UNCHANGED now

Next == PassTime \/ Schedule \/ Good \/ Bad

Spec == Init /\ [][Next]_vars
=============================================================================
