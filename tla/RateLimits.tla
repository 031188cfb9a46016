----------------------------- MODULE RateLimits -----------------------------
(***************************************************************************)
(* One bucket of the persistent rate limit (checkPersistentRateLimit in    *)
(* src/lib/rate-limit.ts): a fixed window whose counter is one row, raised *)
(* by one statement and read by the next.  Requests of the same key        *)
(* overlap, and their clock is read before the statement reaches the       *)
(* database.                                                               *)
(***************************************************************************)
EXTENDS Integers, FiniteSets

CONSTANTS
  Requests,      \* requests under one key
  RequestLimit,  \* requests admitted in one window
  Windows        \* bound on the windows that pass, from 1

ASSUME RateLimitsAssumption ==
  IsFiniteSet(Requests) /\ RequestLimit \in Nat \ {0} /\ Windows \in Nat \ {0}

VARIABLES
  bucket,    \* the RateLimitBucket row: windowStart and count; count 0 where there is none
  window,    \* the window of now
  request,   \* per request: where it is, the window of its clock, and the answer
  disturbed  \* history: windows that a request counted or answered after its own has touched

limitVars == <<bucket, window, request, disturbed>>

NoBucket == [start |-> 0, count |-> 0]

LimitInit ==
  /\ bucket = NoBucket /\ window = 1
  /\ request = [r \in Requests |-> [pc |-> "new", window |-> 0]]
  /\ disturbed = {}
-----------------------------------------------------------------------------
ReadClock(r) ==
  /\ request[r].pc = "new"
  /\ request' = [request EXCEPT ![r] = [pc |-> "clock", window |-> window]]
  /\ UNCHANGED <<bucket, window, disturbed>>

(* Faulty variant of Counted: the window of the row is taken for an earlier one. *)
CountedAnew(w) == [start |-> w, count |-> IF bucket.start <= w THEN 1 ELSE bucket.count + 1]

(* ON DUPLICATE KEY UPDATE: the count starts anew where the row is of an earlier
   window, and the start of the window is written in any case. *)
Counted(w) == [start |-> w, count |-> IF bucket.start < w THEN 1 ELSE bucket.count + 1]

CountRequest(r) ==
  LET w == request[r].window
  IN /\ request[r].pc = "clock"
     /\ bucket' = Counted(w)
     /\ disturbed' = IF w < window THEN disturbed \cup w..window ELSE disturbed
     /\ request' = [request EXCEPT ![r].pc = "counted"]
     /\ UNCHANGED window

(* A request whose row the clean-up has deleted meanwhile is refused. *)
Admits == bucket.count \in 1..RequestLimit

AnswerRequest(r) ==
  /\ request[r].pc = "counted"
  /\ request' = [request EXCEPT ![r].pc = IF Admits THEN "admitted" ELSE "refused"]
  /\ disturbed' = IF request[r].window < window THEN disturbed \cup {request[r].window} ELSE disturbed
  /\ UNCHANGED <<bucket, window>>

(* Every 500 calls the rows of windows that are over are deleted. *)
CleanUp ==
  /\ bucket.count > 0 /\ bucket.start < window
  /\ bucket' = NoBucket
  /\ UNCHANGED <<window, request, disturbed>>

WindowPasses ==
  /\ window < Windows /\ window' = window + 1
  /\ UNCHANGED <<bucket, request, disturbed>>

LimitNext ==
  \/ \E r \in Requests : ReadClock(r) \/ CountRequest(r) \/ AnswerRequest(r)
  \/ CleanUp \/ WindowPasses

LimitSpec == LimitInit /\ [][LimitNext]_limitVars
-----------------------------------------------------------------------------
LimitTypeOK ==
  /\ bucket \in [start : 0..Windows, count : 0..Cardinality(Requests)]
  /\ window \in 1..Windows /\ disturbed \subseteq 1..Windows
  /\ \A r \in Requests : request[r].window \in 0..window

(* A window admits no more than its limit, unless the statement of a request reaches
   the database after its window: it sets the bucket back, so that the window of now
   counts anew; or its answer is read after its window, from the count of the next. *)
Admitted(w) == {r \in Requests : request[r] = [pc |-> "admitted", window |-> w]}
WindowKeepsLimit ==
  \A w \in 1..Windows \ disturbed : Cardinality(Admitted(w)) <= RequestLimit
=============================================================================
