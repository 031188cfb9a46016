---------------------------- MODULE WorkerLease ----------------------------
(***************************************************************************)
(* What the background workers beside the message worker share: e-mail,    *)
(* auto-reply, schedule, webhook, broadcast and campaign workers all claim *)
(* a row by writing a claim token and a lease into it, renew the lease     *)
(* while they work, write their result only where the token still stands,  *)
(* and set their rows back when they are stopped.                          *)
(*                                                                         *)
(* A claim token is `${workerId}:${uuid}`.  A worker runs one claim after  *)
(* the other and its id is fresh at every start, so the incarnation alone  *)
(* stands for the token.  A lease is "live" or "expired" (leaseExpiresAt < *)
(* now).                                                                   *)
(***************************************************************************)
EXTENDS Integers, FiniteSets

CONSTANTS
  Workers,  \* worker process incarnations
  Mortal,   \* those that may be stopped or killed
  Nobody    \* lockedBy IS NULL

ASSUME WorkersAssumption == IsFiniteSet(Workers) /\ Mortal \subseteq Workers
ASSUME NobodyAssumption == Nobody \notin Workers

Leases == {"none", "live", "expired"}

(* lockedBy, leaseExpiresAt and heartbeatAt of a row: set by a claim, cleared by
   whoever ends it. *)
Claimed(row, w) == [row EXCEPT !.lock = w, !.lease = "live"]
Released(row) == [row EXCEPT !.lock = Nobody, !.lease = "none"]

(* A worker that is out of work for good. *)
Gone == {"stopped", "dead"}
=============================================================================
