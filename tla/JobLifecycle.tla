---------------------------- MODULE JobLifecycle ----------------------------
(***************************************************************************)
(* What the durable message queue promises about one message, whoever      *)
(* works on it: the abstract specification that MessageQueue and           *)
(* MessageSystem implement.                                                *)
(*                                                                         *)
(* A message is held by one turn at a time.  A turn may be superseded by a *)
(* later one (its lease ran out), but only the turn that is current when   *)
(* the message is marked sent can be the one that is recorded as having    *)
(* sent it, and a message that was sent never goes back.                   *)
(***************************************************************************)
EXTENDS Naturals

CONSTANT Jobs

VARIABLES
  state,   \* of each message, one of States
  turn,    \* how many turns have been taken, the last of them current
  winner   \* the turn recorded as having sent the message, 0 if none

vars == <<state, turn, winner>>

States == {"absent", "queued", "held", "sent", "failed", "cancelled", "removed"}

Init ==
  /\ state \in [Jobs -> {"absent", "queued"}]
  /\ turn = [j \in Jobs |-> 0]
  /\ winner = [j \in Jobs |-> 0]

Move(j, from, to) ==
  /\ state[j] \in from
  /\ state' = [state EXCEPT ![j] = to]

Create(j) == Move(j, {"absent"}, "queued") /\ UNCHANGED <<turn, winner>>

Take(j) ==
  /\ Move(j, {"queued", "held"}, "held")
  /\ turn' = [turn EXCEPT ![j] = @ + 1]
  /\ UNCHANGED winner

Send(j) ==
  /\ Move(j, {"held"}, "sent")
  /\ winner' = [winner EXCEPT ![j] = turn[j]]
  /\ UNCHANGED turn

PutBack(js) ==
  /\ \A j \in js : state[j] = "held"
  /\ state' = [j \in Jobs |-> IF j \in js THEN "queued" ELSE state[j]]
  /\ UNCHANGED <<turn, winner>>

Fail(js) ==
  /\ \A j \in js : state[j] = "held"
  /\ state' = [j \in Jobs |-> IF j \in js THEN "failed" ELSE state[j]]
  /\ UNCHANGED <<turn, winner>>

Revive(j) == Move(j, {"failed"}, "queued") /\ UNCHANGED <<turn, winner>>

Cancel(j) == Move(j, {"queued"}, "cancelled") /\ UNCHANGED <<turn, winner>>

(* What was known of a removed message is gone with it. *)
Remove(j) ==
  /\ Move(j, {"sent", "failed", "cancelled"}, "removed")
  /\ winner' = [winner EXCEPT ![j] = 0]
  /\ UNCHANGED turn

Next ==
  \/ \E j \in Jobs :
       Create(j) \/ Take(j) \/ Send(j) \/ Revive(j) \/ Cancel(j) \/ Remove(j)
  \/ \E js \in SUBSET Jobs : PutBack(js) \/ Fail(js)

Spec == Init /\ [][Next]_vars
=============================================================================
