---------------------------- MODULE PrivateMedia ----------------------------
(***************************************************************************)
(* Private media and the storage quota: the upload of src/lib/             *)
(* private-media.ts inside runWithStorageQuota (storage-quota.ts), its     *)
(* deletion by a user or by the retention purge (private-media-            *)
(* lifecycle.ts), the quarantine of a damaged object, and the references   *)
(* that schedules, broadcasts, campaigns, auto-replies and message jobs    *)
(* hold while they may still send it.                                      *)
(*                                                                         *)
(* An upload reserves, puts the object, creates the row, commits; the      *)
(* statements of all uploads, deletions and reads interleave.  Storage is  *)
(* counted in one period that never ends.                                  *)
(***************************************************************************)
EXTENDS UsageOps, FiniteSets, FiniteSetsExt

CONSTANTS
  Media,     \* uploads; every one has a fresh random name and quota key
  Size,      \* bytes of each
  Limit,     \* storage limit of the package
  Deleters,  \* deletions and purges in progress at once
  Readers,   \* loadPrivateMedia calls in progress at once
  Users,     \* workflows that may refer to media
  Faults,    \* "put", "create", "erase", "commit": calls that may fail;
             \* "lost row", "lost": a creation of the row and a commit that took
             \* effect and whose answer was lost
  NoMedia    \* no media

ASSUME SizeAssumption == Size \in [Media -> Nat \ {0}]
ASSUME LimitAssumption == Limit \in Nat \cup {Unlimited}
ASSUME NoMediaAssumption == NoMedia \notin Media

VARIABLES
  row,        \* status of the PrivateMedia row
  expired,    \* expiresAt has passed
  users,      \* active references to each media
  object,     \* objects in the store
  damaged,    \* objects whose bytes no longer match the checksum
  usage,      \* counter and ledger of MEDIA_STORAGE_BYTES
  up,         \* how far each upload is
  rm,         \* per deleter: what it works on
  rd,         \* per reader: what it works on
  givenBack,  \* history: how often the bytes of each were given back
  unanswered  \* history: media whose row was created by a call that seemed to fail

vars == <<row, expired, users, object, damaged, usage, up, rm, rd, givenBack, unanswered>>

Lifetime == "1970-9999"
Kept == {"ACTIVE", "QUARANTINED"}
Busy(pc, m) == [pc |-> pc, media |-> m]
Free == Busy("ready", NoMedia)

Init ==
  /\ row = [m \in Media |-> "none"]
  /\ expired = [m \in Media |-> FALSE]
  /\ users = [m \in Media |-> {}]
  /\ object = {} /\ damaged = {}
  /\ usage = NoUsage({Lifetime})
  /\ up = [m \in Media |-> "new"]
  /\ rm = [d \in Deleters |-> Free]
  /\ rd = [r \in Readers |-> Free]
  /\ givenBack = [m \in Media |-> 0]
  /\ unanswered = {}

others == <<expired, users, damaged, rm, rd, givenBack, unanswered>>
-----------------------------------------------------------------------------
(* Faulty variants, as in UsageLedger: plausible bugs, not specification. *)

(* The purge trusts the list it read before. *)
PurgeUnchecked(d) ==
  /\ rm[d].pc = "listed"
  /\ row' = [row EXCEPT ![rm[d].media] = "DELETED"]
  /\ rm' = [rm EXCEPT ![d].pc = "erasing"]
  /\ UNCHANGED <<expired, users, object, damaged, usage, up, rd, givenBack, unanswered>>

(* The release is skipped once the object was stored (the bug of the audit of
   2026-10-06, storage-quota.ts:18-29 as it was then). *)
ReleaseUnlessStored(m) ==
  /\ up[m] = "releasing"
  /\ usage' = IF CanSettle(usage, "RELEASE", m) /\ m \notin object
              THEN Settled(usage, "RELEASE", m) ELSE usage
  /\ up' = [up EXCEPT ![m] = "failed"]
  /\ UNCHANGED <<row, object>> /\ UNCHANGED others

(* Giving back more than the counter holds. *)
GiveBackUnclamped(d) ==
  /\ rm[d].pc = "giving back"
  /\ usage' = [usage EXCEPT !.consumed[Lifetime] = @ - Size[rm[d].media]]
  /\ givenBack' = [givenBack EXCEPT ![rm[d].media] = @ + 1]
  /\ rm' = [rm EXCEPT ![d] = Free]
  /\ UNCHANGED <<row, expired, users, object, damaged, up, rd, unanswered>>
-----------------------------------------------------------------------------
(***************************************************************************)
(* storePrivateMedia inside runWithStorageQuota.                           *)
(***************************************************************************)

UploadReserve(m) ==
  /\ up[m] = "new"
  /\ IF CanReserve(usage, Lifetime, m, Size[m], Limit)
     THEN /\ usage' = Reserved(usage, Lifetime, m, Size[m])
          /\ up' = [up EXCEPT ![m] = "putting"]
     ELSE usage' = usage /\ up' = [up EXCEPT ![m] = "refused"]
  /\ UNCHANGED <<row, object>> /\ UNCHANGED others

(* A put that fails may have written. *)
UploadPut(m) ==
  /\ up[m] = "putting"
  /\ \/ object' = object \cup {m} /\ up' = [up EXCEPT ![m] = "creating"]
     \/ "put" \in Faults /\ object' = object /\ up' = [up EXCEPT ![m] = "releasing"]
     \/ "put" \in Faults /\ object' = object \cup {m} /\ up' = [up EXCEPT ![m] = "releasing"]
  /\ UNCHANGED <<row, usage>> /\ UNCHANGED others

(* An error of the call need not mean that there is no row. *)
UploadCreate(m) ==
  /\ up[m] = "creating"
  /\ \/ row' = [row EXCEPT ![m] = "ACTIVE"] /\ up' = [up EXCEPT ![m] = "committing"] /\ UNCHANGED unanswered
     \/ "create" \in Faults /\ up' = [up EXCEPT ![m] = "undoing"] /\ UNCHANGED <<row, unanswered>>
     \/ /\ "lost row" \in Faults
        /\ row' = [row EXCEPT ![m] = "ACTIVE"]
        /\ up' = [up EXCEPT ![m] = "undoing"]
        /\ unanswered' = unanswered \cup {m}
  /\ UNCHANGED <<object, usage, expired, users, damaged, rm, rd, givenBack>>

(* The catch block deletes the object, if that works, and looks for no row. *)
UploadUndo(m) ==
  /\ up[m] = "undoing"
  /\ \/ object' = object \ {m}
     \/ "erase" \in Faults /\ object' = object
  /\ up' = [up EXCEPT ![m] = "releasing"]
  /\ UNCHANGED <<row, usage>> /\ UNCHANGED others

UploadCommit(m) ==
  /\ up[m] = "committing"
  /\ IF CanSettle(usage, "COMMIT", m)
     THEN \/ /\ usage' = Settled(usage, "COMMIT", m)
             /\ \/ up' = [up EXCEPT ![m] = "done"]
                \/ "lost" \in Faults /\ up' = [up EXCEPT ![m] = "releasing"]
          \/ "commit" \in Faults /\ usage' = usage /\ up' = [up EXCEPT ![m] = "releasing"]
     ELSE usage' = usage /\ up' = [up EXCEPT ![m] = "releasing"]
  /\ UNCHANGED <<row, object>> /\ UNCHANGED others

(* The catch block; an error of the release itself is swallowed. *)
UploadRelease(m) ==
  /\ up[m] = "releasing"
  /\ usage' = IF CanSettle(usage, "RELEASE", m) THEN Settled(usage, "RELEASE", m) ELSE usage
  /\ up' = [up EXCEPT ![m] = "failed"]
  /\ UNCHANGED <<row, object>> /\ UNCHANGED others

Upload(m) ==
  \/ UploadReserve(m) \/ UploadPut(m) \/ UploadCreate(m)
  \/ UploadUndo(m) \/ UploadCommit(m) \/ UploadRelease(m)
-----------------------------------------------------------------------------
(***************************************************************************)
(* deletePrivateMedia and purgeExpiredPrivateMedia.                        *)
(***************************************************************************)

(* The serializable transaction that marks the row. *)
Delete(d, m) ==
  /\ rm[d] = Free /\ row[m] = "ACTIVE" /\ users[m] = {}
  /\ row' = [row EXCEPT ![m] = "DELETED"]
  /\ rm' = [rm EXCEPT ![d] = Busy("erasing", m)]
  /\ UNCHANGED <<expired, users, object, damaged, usage, up, rd, givenBack, unanswered>>

Purgeable(m) == row[m] \in Kept /\ expired[m] /\ users[m] = {}

(* The purge takes a candidate of the list it has read... *)
PurgeList(d, m) ==
  /\ rm[d] = Free /\ Purgeable(m)
  /\ rm' = [rm EXCEPT ![d] = Busy("listed", m)]
  /\ UNCHANGED <<row, expired, users, object, damaged, usage, up, rd, givenBack, unanswered>>

(* ...and checks it again in the transaction that marks the row. *)
PurgeClaim(d) ==
  /\ rm[d].pc = "listed"
  /\ IF Purgeable(rm[d].media)
     THEN row' = [row EXCEPT ![rm[d].media] = "DELETED"] /\ rm' = [rm EXCEPT ![d].pc = "erasing"]
     ELSE row' = row /\ rm' = [rm EXCEPT ![d] = Free]
  /\ UNCHANGED <<expired, users, object, damaged, usage, up, rd, givenBack, unanswered>>

(* An error is logged: an orphan object may remain. *)
Erase(d) ==
  /\ rm[d].pc = "erasing"
  /\ \/ object' = object \ {rm[d].media}
     \/ "erase" \in Faults /\ object' = object
  /\ rm' = [rm EXCEPT ![d].pc = "giving back"]
  /\ UNCHANGED <<row, expired, users, damaged, usage, up, rd, givenBack, unanswered>>

(* releaseStorageQuota. *)
GiveBack(d) ==
  /\ rm[d].pc = "giving back"
  /\ usage' = AfterGiveBack(usage, Lifetime, Size[rm[d].media])
  /\ givenBack' = [givenBack EXCEPT ![rm[d].media] = @ + 1]
  /\ rm' = [rm EXCEPT ![d] = Free]
  /\ UNCHANGED <<row, expired, users, object, damaged, up, rd, unanswered>>

Remove(d) ==
  \/ \E m \in Media : Delete(d, m) \/ PurgeList(d, m)
  \/ PurgeClaim(d) \/ Erase(d) \/ GiveBack(d)
-----------------------------------------------------------------------------
(***************************************************************************)
(* loadPrivateMedia, references, time and decay.                           *)
(***************************************************************************)

Read(r, m) ==
  /\ rd[r] = Free /\ row[m] = "ACTIVE"
  /\ rd' = [rd EXCEPT ![r] = Busy("loading", m)]
  /\ UNCHANGED <<row, expired, users, object, damaged, usage, up, rm, givenBack, unanswered>>

Load(r) ==
  /\ rd[r].pc = "loading"
  /\ rd' = [rd EXCEPT ![r] = IF rd[r].media \in object \cap damaged
                             THEN Busy("condemning", rd[r].media) ELSE Free]
  /\ UNCHANGED <<row, expired, users, object, damaged, usage, up, rm, givenBack, unanswered>>

(* The update has no condition but the id. *)
Quarantine(r) ==
  /\ rd[r].pc = "condemning"
  /\ row' = [row EXCEPT ![rd[r].media] = "QUARANTINED"]
  /\ rd' = [rd EXCEPT ![r] = Free]
  /\ UNCHANGED <<expired, users, object, damaged, usage, up, rm, givenBack, unanswered>>

(* lockPrivateMediaForUse in the transaction that creates the reference. *)
Use(m, u) ==
  /\ row[m] = "ACTIVE" /\ u \notin users[m]
  /\ users' = [users EXCEPT ![m] = @ \cup {u}]
  /\ UNCHANGED <<row, expired, object, damaged, usage, up, rm, rd, givenBack, unanswered>>

EndUse(m, u) ==
  /\ u \in users[m]
  /\ users' = [users EXCEPT ![m] = @ \ {u}]
  /\ UNCHANGED <<row, expired, object, damaged, usage, up, rm, rd, givenBack, unanswered>>

Expire(m) ==
  /\ row[m] # "none" /\ ~expired[m]
  /\ expired' = [expired EXCEPT ![m] = TRUE]
  /\ UNCHANGED <<row, users, object, damaged, usage, up, rm, rd, givenBack, unanswered>>

Decay(m) ==
  /\ m \in object \ damaged /\ Readers # {}
  /\ damaged' = damaged \cup {m}
  /\ UNCHANGED <<row, expired, users, object, usage, up, rm, rd, givenBack, unanswered>>

Next ==
  \/ \E m \in Media : Upload(m) \/ Expire(m) \/ Decay(m)
  \/ \E d \in Deleters : Remove(d)
  \/ \E r \in Readers : (\E m \in Media : Read(r, m)) \/ Load(r) \/ Quarantine(r)
  \/ \E m \in Media, u \in Users : Use(m, u) \/ EndUse(m, u)

Spec == Init /\ [][Next]_vars
-----------------------------------------------------------------------------
(***************************************************************************)
(* Properties.                                                             *)
(***************************************************************************)

TypeOK ==
  /\ row \in [Media -> {"none", "DELETED"} \cup Kept]
  /\ expired \in [Media -> BOOLEAN]
  /\ users \in [Media -> SUBSET Users]
  /\ object \subseteq Media /\ damaged \subseteq Media
  /\ usage.consumed \in [{Lifetime} -> Nat] /\ usage.reserved \in [{Lifetime} -> Nat]
  /\ up \in [Media -> {"new", "refused", "putting", "creating", "undoing", "committing",
                       "releasing", "done", "failed"}]
  /\ rm \in [Deleters -> [pc : {"ready", "listed", "erasing", "giving back"},
                          media : Media \cup {NoMedia}]]
  /\ rd \in [Readers -> [pc : {"ready", "loading", "condemning"}, media : Media \cup {NoMedia}]]
  /\ givenBack \in [Media -> Nat] /\ unanswered \subseteq Media

Bytes(S) == MapThenSumSet(LAMBDA m : Size[m], S)

(* Uploads between the reservation and its settlement. *)
Uploading == {m \in Media : up[m] \in {"putting", "creating", "undoing", "committing", "releasing"}}

(* The counter reserves exactly the bytes of the open reservations, and only
   uploads in progress have one: nothing is orphaned, and no upload's release
   takes away what another one has reserved. *)
ReservedIsUploading ==
  LET open == {m \in Media : OpenReservation(usage, m)}
  IN  open \subseteq Uploading /\ usage.reserved[Lifetime] = Bytes(open)

(* All that is kept is accounted for, so it is within the limit of the package,
   however uploads, deletions and purges race. *)
KeptIsAccounted ==
  /\ Bytes({m \in Media : row[m] \in Kept})
       <= usage.consumed[Lifetime] + usage.reserved[Lifetime]
  /\ Limit = Unlimited \/ usage.consumed[Lifetime] + usage.reserved[Lifetime] <= Limit

(* Media that some workflow may still send is neither deleted nor erased, but for
   one case: when the answer of its creation is lost, the upload erases the object
   of a row that exists (private-media.ts:97-99), and lockPrivateMediaForUse, which
   looks at the row only, lets a workflow refer to it. *)
ReferencedIsKept ==
  \A m \in Media : users[m] # {} => row[m] \in Kept /\ (m \in object \/ m \in unanswered)

(* The bytes of a media are given back at most once, although a user and the
   purge may remove it at the same time. *)
GivenBackOnce == \A m \in Media : givenBack[m] <= 1

(* The books of the storage balance, whatever uploads, deletions and purges do at
   the same time. *)
StorageBooksBalance == ReservedIsUploading /\ KeptIsAccounted /\ GivenBackOnce
=============================================================================
