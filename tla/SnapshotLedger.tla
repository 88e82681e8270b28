--------------------------- MODULE SnapshotLedger ---------------------------
(***************************************************************************)
(* What snapshot collection promises about the files of a trial, whatever  *)
(* the ticks, the order of their measurement and their failures: time is   *)
(* cut at a horizon that only moves forward, a file version is counted     *)
(* when the horizon passes its time, once, and no file that is still there *)
(* is passed over.                                                         *)
(***************************************************************************)
EXTENDS Integers, FiniteSets

CONSTANTS
  Trials,      \* the trials of a run
  Files,       \* the files they may write
  Owner,       \* the trial that writes a file
  Ns           \* clock units per second

VARIABLES
  writes,      \* the times at which each file was written
  horizon,     \* up to which second each trial has been counted
  counted      \* the file versions <<file, time>> counted for each trial

ledgerVars == <<writes, horizon, counted>>

Current(w, f) == CHOOSE x \in w[f] : \A y \in w[f] : y <= x

Init ==
  /\ counted = [t \in Trials |-> {}]
  /\ horizon \in [Trials -> Int]
  /\ writes \in [Files -> SUBSET Nat]

\* A file is written, once more or for the first time.
Write(f) ==
  /\ writes[f] \subseteq writes'[f]
  /\ writes' = [writes EXCEPT ![f] = writes'[f]]
  /\ UNCHANGED <<horizon, counted>>

\* A snapshot of trial t moves its horizon: every version counted lies in the new
\* window, and a version is left out only if it was overwritten meanwhile.
Count(t) ==
  LET h == horizon'[t]
      InWindow(x) == horizon[t] * Ns < x /\ x <= h * Ns
      New == counted'[t] \ counted[t]
  IN /\ h > horizon[t]
     /\ horizon' = [horizon EXCEPT ![t] = h]
     /\ counted[t] \subseteq counted'[t]
     /\ counted' = [counted EXCEPT ![t] = counted'[t]]
     /\ \A v \in New : Owner[v[1]] = t /\ v[2] \in writes[v[1]] /\ InWindow(v[2])
     /\ \A f \in Files :
          Owner[f] = t /\ writes[f] # {} /\ InWindow(Current(writes, f))
            => <<f, Current(writes, f)>> \in New
     /\ UNCHANGED writes

Next ==
  \/ \E f \in Files : Write(f)
  \/ \E t \in Trials : Count(t)

Spec == Init /\ [][Next]_ledgerVars
=============================================================================
