-------------------------- MODULE PrivateMediaProofs --------------------------
(***************************************************************************)
(* Theorems about PrivateMedia, for every set of media, deleters, readers  *)
(* and users, all sizes and limits.                                        *)
(***************************************************************************)
EXTENDS PrivateMedia, FiniteSums

MediaRow == [op : LedgerOps, key : Media, amount : Nat, period : {Lifetime}]
MediaUsage == [consumed : [{Lifetime} -> Nat], reserved : [{Lifetime} -> Nat],
               ledger : SUBSET MediaRow]

(* What deleters and readers may be doing: who works, works on a media. *)
Removing == {p \in [pc : {"ready", "listed", "erasing", "giving back"}, media : Media \cup {NoMedia}] :
               p.pc # "ready" => p.media \in Media}
Reading == {p \in [pc : {"ready", "loading", "condemning"}, media : Media \cup {NoMedia}] :
              p.pc # "ready" => p.media \in Media}
AtWork == rm \in [Deleters -> Removing] /\ rd \in [Readers -> Reading]

TypeInv == TypeOK /\ usage \in MediaUsage /\ AtWork

(* reserveUsage of an upload that has no reservation yet: the counter holds its
   bytes more, and its row is written. *)
LEMMA ReservedMedia ==
  ASSUME NEW u \in MediaUsage, NEW m \in Media, ~HasRow(u, "RESERVE", m)
  PROVE  LET v == Reserved(u, Lifetime, m, Size[m])
         IN  /\ v \in MediaUsage
             /\ v.consumed = u.consumed
             /\ v.reserved[Lifetime] = u.reserved[Lifetime] + Size[m]
             /\ v.ledger = AddRow(u, "RESERVE", m, Size[m], Lifetime)
  <1>1. Size[m] \in Nat BY SizeAssumption
  <1> DEFINE l == AddRow(u, "RESERVE", m, Size[m], Lifetime)
             r == [u.reserved EXCEPT ![Lifetime] = @ + Size[m]]
  <1>2. l \in SUBSET MediaRow BY <1>1 DEF AddRow, MediaUsage, MediaRow, LedgerOps
  <1>3. r \in [{Lifetime} -> Nat] /\ r[Lifetime] = u.reserved[Lifetime] + Size[m]
    BY <1>1 DEF MediaUsage
  <1>4. Reserved(u, Lifetime, m, Size[m]) = [u EXCEPT !.reserved[Lifetime] = @ + Size[m], !.ledger = l]
    BY DEF Reserved
  <1> HIDE DEF l
  <1>5. Reserved(u, Lifetime, m, Size[m]) = [consumed |-> u.consumed, reserved |-> r, ledger |-> l]
    BY <1>4 DEF MediaUsage
  <1> HIDE DEF r
  <1> QED BY <1>2, <1>3, <1>5 DEF MediaUsage, l

(* A settlement that takes effect: what the reservation holds leaves `reserved`,
   and a commit adds it to `consumed`. *)
LEMMA SettledMedia ==
  ASSUME NEW u \in MediaUsage, NEW m \in Media, NEW op \in {"COMMIT", "RELEASE"},
         CanSettle(u, op, m), ~HasRow(u, op, m)
  PROVE  LET v == Settled(u, op, m)  a == Row(u, "RESERVE", m).amount
         IN  /\ v \in MediaUsage /\ a \in Nat
             /\ v.consumed[Lifetime] = u.consumed[Lifetime] + (IF op = "COMMIT" THEN a ELSE 0)
             /\ v.reserved[Lifetime] = u.reserved[Lifetime] - a
             /\ v.ledger = AddRow(u, op, m, a, Lifetime)
  <1> DEFINE row0 == Row(u, "RESERVE", m)
             a == row0.amount
             inc == IF op = "COMMIT" THEN a ELSE 0
             l == AddRow(u, op, m, a, Lifetime)
             r == [u.reserved EXCEPT ![Lifetime] = @ - a]
             c == [u.consumed EXCEPT ![Lifetime] = @ + inc]
  <1>1. HasRow(u, "RESERVE", m) /\ u.reserved[row0.period] >= row0.amount BY DEF CanSettle
  <1>2. row0 \in u.ledger BY <1>1 DEF HasRow, Row
  <1>3. row0 \in MediaRow BY <1>2 DEF MediaUsage
  <1>4. a \in Nat /\ row0.period = Lifetime /\ u.reserved[Lifetime] >= a BY <1>1, <1>3 DEF MediaRow
  <1>5. inc \in Nat BY <1>4
  <1>6. l \in SUBSET MediaRow BY <1>4 DEF AddRow, MediaUsage, MediaRow, LedgerOps
  <1>7. r \in [{Lifetime} -> Nat] /\ r[Lifetime] = u.reserved[Lifetime] - a
    BY <1>4 DEF MediaUsage
  <1>8. c \in [{Lifetime} -> Nat] /\ c[Lifetime] = u.consumed[Lifetime] + inc
    BY <1>5 DEF MediaUsage
  <1>9. Settled(u, op, m) = [u EXCEPT !.reserved[row0.period] = @ - a,
                                      !.consumed[row0.period] = @ + inc,
                                      !.ledger = AddRow(u, op, m, a, row0.period)]
    BY DEF Settled
  <1>10. Settled(u, op, m) = [u EXCEPT !.reserved[Lifetime] = @ - a,
                                      !.consumed[Lifetime] = @ + inc, !.ledger = l]
    BY <1>4, <1>9
  <1> HIDE DEF row0, a, inc, l
  <1>11. Settled(u, op, m) = [consumed |-> c, reserved |-> r, ledger |-> l]
    BY <1>10 DEF MediaUsage
  <1> HIDE DEF c, r
  <1> QED BY <1>4, <1>6, <1>7, <1>8, <1>11 DEF MediaUsage, a, inc, l, row0

(* releaseConsumedUsage takes at most what the counter holds. *)
LEMMA GivenBackMedia ==
  ASSUME NEW u \in MediaUsage, NEW a \in Nat
  PROVE  LET v == AfterGiveBack(u, Lifetime, a)
         IN  /\ v \in MediaUsage /\ v.reserved = u.reserved /\ v.ledger = u.ledger
             /\ v.consumed[Lifetime] <= u.consumed[Lifetime]
             /\ \/ v.consumed[Lifetime] = u.consumed[Lifetime] - a
                \/ u.consumed[Lifetime] < a /\ v.consumed[Lifetime] = 0
  <1> DEFINE g == GivenBack(u, Lifetime, a)
             c == [u.consumed EXCEPT ![Lifetime] = @ - g]
  <1>1. u.consumed[Lifetime] \in Nat BY DEF MediaUsage
  <1>2. g \in Nat /\ u.consumed[Lifetime] - g \in Nat BY <1>1 DEF GivenBack
  <1>3. c \in [{Lifetime} -> Nat] /\ c[Lifetime] = u.consumed[Lifetime] - g BY <1>2 DEF MediaUsage
  <1>4. g = a \/ (u.consumed[Lifetime] < a /\ g = u.consumed[Lifetime]) BY <1>1 DEF GivenBack
  <1>5. AfterGiveBack(u, Lifetime, a) = [u EXCEPT !.consumed[Lifetime] = @ - g] BY DEF AfterGiveBack
  <1> HIDE DEF g
  <1>6. AfterGiveBack(u, Lifetime, a) = [consumed |-> c, reserved |-> u.reserved, ledger |-> u.ledger]
    BY <1>5 DEF MediaUsage
  <1> HIDE DEF c
  <1> QED BY <1>1, <1>2, <1>3, <1>4, <1>6 DEF MediaUsage

(* A row that is written is found, and no other. *)
LEMMA FoundAfterAdd ==
  ASSUME NEW u, NEW v, NEW op, NEW k, NEW a, NEW p, v.ledger = AddRow(u, op, k, a, p)
  PROVE  \A o, j : HasRow(v, o, j) <=> (HasRow(u, o, j) \/ (o = op /\ j = k))
  <1> DEFINE new == [op |-> op, key |-> k, amount |-> a, period |-> p]
  <1>1. v.ledger = u.ledger \cup {new} BY DEF AddRow
  <1>2. new.op = op /\ new.key = k OBVIOUS
  <1> HIDE DEF new
  <1> QED BY <1>1, <1>2 DEF HasRow
-----------------------------------------------------------------------------
(* Every step keeps usage a usage value. *)
LEMMA UsageStep ==
  ASSUME TypeInv, [Next]_vars
  PROVE  usage' \in MediaUsage
  <1>0. usage \in MediaUsage BY DEF TypeInv
  <1>1. ASSUME NEW m \in Media, UploadReserve(m) PROVE usage' \in MediaUsage
    <2>1. CASE HasRow(usage, "RESERVE", m) BY <1>0, <1>1, <2>1 DEF UploadReserve, Reserved
    <2>2. CASE ~HasRow(usage, "RESERVE", m)
      BY <1>0, <1>1, <2>2, ReservedMedia DEF UploadReserve
    <2> QED BY <2>1, <2>2
  <1>2. ASSUME NEW m \in Media, NEW op \in {"COMMIT", "RELEASE"}, CanSettle(usage, op, m),
               usage' = Settled(usage, op, m)
        PROVE  usage' \in MediaUsage
    <2>1. CASE HasRow(usage, op, m) BY <1>0, <1>2, <2>1 DEF Settled
    <2>2. CASE ~HasRow(usage, op, m) BY <1>0, <1>2, <2>2, SettledMedia
    <2> QED BY <2>1, <2>2
  <1>3. ASSUME NEW d \in Deleters, GiveBack(d) PROVE usage' \in MediaUsage
    <2>1. Size[rm[d].media] \in Nat BY SizeAssumption, <1>3 DEF TypeInv, AtWork, Removing, GiveBack
    <2> QED BY <1>0, <1>3, <2>1, GivenBackMedia DEF GiveBack
  <1>4. ASSUME NEW m \in Media, Upload(m) PROVE usage' \in MediaUsage
    BY <1>0, <1>1, <1>2, <1>4
    DEF Upload, UploadPut, UploadCreate, UploadUndo, UploadCommit, UploadRelease
  <1>5. ASSUME NEW d \in Deleters, Remove(d) PROVE usage' \in MediaUsage
    BY <1>0, <1>3, <1>5 DEF Remove, Delete, PurgeList, PurgeClaim, Erase
  <1>6. CASE UNCHANGED vars BY <1>0, <1>6 DEF vars
  <1> QED BY <1>0, <1>4, <1>5, <1>6
          DEF Next, Expire, Decay, Read, Load, Quarantine, Use, EndUse

(* Every step keeps deleters and readers in a place. *)
LEMMA PlacesStep == ASSUME TypeInv, [Next]_vars PROVE AtWork'
  <1>0. AtWork BY DEF TypeInv
  <1>1. ASSUME NEW d \in Deleters, NEW p \in Removing, rm' = [rm EXCEPT ![d] = p]
        PROVE  rm' \in [Deleters -> Removing]
    BY <1>0, <1>1 DEF AtWork
  <1>2. ASSUME NEW d \in Deleters, rm[d].pc # "ready", NEW pc \in {"erasing", "giving back"}
        PROVE  [rm[d] EXCEPT !.pc = pc] \in Removing
    BY <1>0, <1>2 DEF AtWork, Removing
  <1>3. ASSUME NEW m \in Media, NEW pc \in {"listed", "erasing"} PROVE Busy(pc, m) \in Removing
    BY DEF Busy, Removing
  <1>4. Free \in Removing /\ Free \in Reading BY DEF Free, Busy, Removing, Reading
  <1>5. ASSUME NEW d \in Deleters, Remove(d) PROVE rm' \in [Deleters -> Removing]
    <2>1. ASSUME NEW m \in Media, Delete(d, m) \/ PurgeList(d, m) PROVE rm' \in [Deleters -> Removing]
      BY <1>1, <1>3, <2>1 DEF Delete, PurgeList
    <2>2. CASE PurgeClaim(d)
      <3>1. \/ rm' = [rm EXCEPT ![d] = [rm[d] EXCEPT !.pc = "erasing"]]
            \/ rm' = [rm EXCEPT ![d] = Free]
        BY <2>2 DEF PurgeClaim
      <3>2. [rm[d] EXCEPT !.pc = "erasing"] \in Removing BY <1>2, <2>2 DEF PurgeClaim
      <3> QED BY <1>1, <1>4, <3>1, <3>2
    <2>3. CASE Erase(d)
      <3>1. rm' = [rm EXCEPT ![d] = [rm[d] EXCEPT !.pc = "giving back"]] BY <2>3 DEF Erase
      <3>2. [rm[d] EXCEPT !.pc = "giving back"] \in Removing BY <1>2, <2>3 DEF Erase
      <3> QED BY <1>1, <3>1, <3>2
    <2>4. CASE GiveBack(d) BY <1>1, <1>4, <2>4 DEF GiveBack
    <2> QED BY <1>5, <2>1, <2>2, <2>3, <2>4 DEF Remove
  <1>6. ASSUME NEW r \in Readers, NEW p \in Reading, rd' = [rd EXCEPT ![r] = p]
        PROVE  rd' \in [Readers -> Reading]
    BY <1>0, <1>6 DEF AtWork
  <1>7. ASSUME NEW m \in Media, NEW pc \in {"loading", "condemning"} PROVE Busy(pc, m) \in Reading
    BY DEF Busy, Reading
  <1>8. ASSUME NEW r \in Readers, (\E m \in Media : Read(r, m)) \/ Load(r) \/ Quarantine(r)
        PROVE  rd' \in [Readers -> Reading]
    <2>1. ASSUME NEW m \in Media, Read(r, m) PROVE rd' \in [Readers -> Reading]
      BY <1>6, <1>7, <2>1 DEF Read
    <2>2. CASE Load(r)
      <3>1. rd[r].media \in Media BY <1>0, <2>2 DEF Load, AtWork, Reading
      <3> QED BY <1>4, <1>6, <1>7, <2>2, <3>1 DEF Load
    <2>3. CASE Quarantine(r) BY <1>4, <1>6, <2>3 DEF Quarantine
    <2> QED BY <1>8, <2>1, <2>2, <2>3
  <1>9. UNCHANGED rm \/ \E d \in Deleters : Remove(d)
    BY DEF Next, vars, Upload, UploadReserve, UploadPut, UploadCreate, UploadUndo, UploadCommit,
           UploadRelease, others, Expire, Decay, Read, Load, Quarantine, Use, EndUse
  <1>10. \/ UNCHANGED rd
         \/ \E r \in Readers : (\E m \in Media : Read(r, m)) \/ Load(r) \/ Quarantine(r)
    BY DEF Next, vars, Upload, UploadReserve, UploadPut, UploadCreate, UploadUndo, UploadCommit,
           UploadRelease, others, Expire, Decay, Remove, Delete, PurgeList, PurgeClaim, Erase,
           GiveBack, Use, EndUse
  <1> QED BY <1>0, <1>5, <1>8, <1>9, <1>10 DEF AtWork

(* The rows change one at a time, *)
LEMMA RowStep ==
  ASSUME TypeInv, [Next]_vars
  PROVE  \/ UNCHANGED row
         \/ \E m \in Media : UploadCreate(m) /\ row' = [row EXCEPT ![m] = "ACTIVE"]
         \/ \E d \in Deleters, m \in Media :
              /\ row[m] \in Kept /\ users[m] = {} /\ row' = [row EXCEPT ![m] = "DELETED"]
              /\ rm' = [rm EXCEPT ![d] = Busy("erasing", m)]
              /\ rm[d].pc = "ready" \/ rm[d] = Busy("listed", m)
              /\ UNCHANGED <<expired, users, object, damaged, usage, up, rd, givenBack, unanswered>>
         \/ \E r \in Readers : /\ rd[r].pc = "condemning"
                               /\ row' = [row EXCEPT ![rd[r].media] = "QUARANTINED"]
                               /\ rd' = [rd EXCEPT ![r] = Free]
                               /\ UNCHANGED <<expired, users, object, damaged, usage, up, rm, givenBack, unanswered>>
  <1>1. ASSUME NEW m \in Media, UploadCreate(m), row' # row
        PROVE  row' = [row EXCEPT ![m] = "ACTIVE"]
    BY <1>1 DEF UploadCreate
  <1>2. ASSUME NEW d \in Deleters, NEW m \in Media, Delete(d, m)
        PROVE  /\ row[m] \in Kept /\ users[m] = {} /\ row' = [row EXCEPT ![m] = "DELETED"]
               /\ rm' = [rm EXCEPT ![d] = Busy("erasing", m)] /\ rm[d].pc = "ready"
               /\ UNCHANGED <<expired, users, object, damaged, usage, up, rd, givenBack, unanswered>>
    BY <1>2 DEF Delete, Kept, Free, Busy
  <1>3. ASSUME NEW d \in Deleters, PurgeClaim(d), row' # row
        PROVE  \E m \in Media :
                 /\ row[m] \in Kept /\ users[m] = {} /\ row' = [row EXCEPT ![m] = "DELETED"]
                 /\ rm' = [rm EXCEPT ![d] = Busy("erasing", m)] /\ rm[d] = Busy("listed", m)
                 /\ UNCHANGED <<expired, users, object, damaged, usage, up, rd, givenBack, unanswered>>
    <2> DEFINE m == rm[d].media
    <2>1. rm[d] \in Removing /\ m \in Media BY <1>3 DEF TypeInv, AtWork, Removing, PurgeClaim
    <2>2. rm[d] = Busy("listed", m) /\ [rm[d] EXCEPT !.pc = "erasing"] = Busy("erasing", m)
      <3>1. rm[d].pc = "listed" BY <1>3 DEF PurgeClaim
      <3>2. ASSUME NEW p \in Removing, p.pc = "listed"
            PROVE  p = Busy("listed", p.media) /\ [p EXCEPT !.pc = "erasing"] = Busy("erasing", p.media)
        <4>1. p \in [pc : {"ready", "listed", "erasing", "giving back"}, media : Media \cup {NoMedia}]
          BY DEF Removing
        <4>2. p = [pc |-> "listed", media |-> p.media] BY <3>2, <4>1
        <4>3. [p EXCEPT !.pc = "erasing"] = [pc |-> "erasing", media |-> p.media]
          <5>1. ASSUME NEW x, p = [pc |-> "listed", media |-> x]
                PROVE  [p EXCEPT !.pc = "erasing"] = [pc |-> "erasing", media |-> x]
            BY <5>1
          <5> QED BY <4>2, <5>1
        <4> QED BY <4>2, <4>3 DEF Busy
      <3> QED BY <2>1, <3>1, <3>2
    <2>3. /\ Purgeable(m) /\ row' = [row EXCEPT ![m] = "DELETED"]
          /\ rm' = [rm EXCEPT ![d] = [rm[d] EXCEPT !.pc = "erasing"]]
          /\ UNCHANGED <<expired, users, object, damaged, usage, up, rd, givenBack, unanswered>>
      BY <1>3 DEF PurgeClaim
    <2> HIDE DEF m
    <2> QED BY <2>1, <2>2, <2>3 DEF Purgeable
  <1>4. ASSUME NEW r \in Readers, Quarantine(r)
        PROVE  /\ rd[r].pc = "condemning"
               /\ row' = [row EXCEPT ![rd[r].media] = "QUARANTINED"]
               /\ rd' = [rd EXCEPT ![r] = Free]
               /\ UNCHANGED <<expired, users, object, damaged, usage, up, rm, givenBack, unanswered>>
    BY <1>4 DEF Quarantine
  <1>5. \/ UNCHANGED row
        \/ \E m \in Media : UploadCreate(m)
        \/ \E d \in Deleters : PurgeClaim(d) \/ \E m \in Media : Delete(d, m)
        \/ \E r \in Readers : Quarantine(r)
    BY DEF Next, vars, Upload, UploadReserve, UploadPut, UploadUndo, UploadCommit,
           UploadRelease, others, Expire, Decay, Remove, PurgeList, Erase, GiveBack, Read, Load,
           Use, EndUse
  <1> QED BY <1>1, <1>2, <1>3, <1>4, <1>5

(* Every step keeps the types. *)
LEMMA TypeStep == ASSUME TypeInv, [Next]_vars PROVE TypeInv'
  <1> DEFINE UpPcs == {"new", "refused", "putting", "creating", "undoing", "committing",
                       "releasing", "done", "failed"}
  <1>0. TypeOK BY DEF TypeInv
  <1>1. row' \in [Media -> {"none", "DELETED"} \cup Kept]
    <2> DEFINE Status == {"none", "DELETED"} \cup Kept
    <2>1. "ACTIVE" \in Status /\ "DELETED" \in Status /\ "QUARANTINED" \in Status BY DEF Kept
    <2>2. row \in [Media -> Status] BY <1>0 DEF TypeOK
    <2> HIDE DEF Status
    <2>3. ASSUME NEW m, NEW s \in Status, row' = [row EXCEPT ![m] = s] PROVE row' \in [Media -> Status]
      BY <2>2, <2>3
    <2>4. row' \in [Media -> Status] BY <2>1, <2>2, <2>3, RowStep
    <2> QED BY <2>4 DEF Status
  <1>2. expired' \in [Media -> BOOLEAN] /\ damaged' \subseteq Media
    BY <1>0 DEF TypeOK, Next, vars, Upload, UploadReserve, UploadPut, UploadCreate, UploadUndo, UploadCommit,
           UploadRelease, others, Expire, Decay, Remove, Delete, PurgeList, PurgeClaim, Erase,
           GiveBack, Read, Load, Quarantine, Use, EndUse
  <1>3. users' \in [Media -> SUBSET Users]
    <2>1. ASSUME NEW m \in Media, NEW u \in Users, Use(m, u) \/ EndUse(m, u)
          PROVE  users' \in [Media -> SUBSET Users]
      <3>1. users[m] \in SUBSET Users BY <1>0 DEF TypeOK
      <3>2. \E S \in SUBSET Users : users' = [users EXCEPT ![m] = S]
        BY <2>1, <3>1 DEF Use, EndUse
      <3> QED BY <1>0, <3>2 DEF TypeOK
    <2> QED BY <1>0, <2>1 DEF TypeOK, Next, vars, Upload, UploadReserve, UploadPut, UploadCreate, UploadUndo, UploadCommit,
           UploadRelease, others, Expire, Decay, Remove, Delete, PurgeList, PurgeClaim, Erase,
           GiveBack, Read, Load, Quarantine
  <1>4. object' \subseteq Media
    BY <1>0 DEF TypeOK, Next, vars, Upload, UploadReserve, UploadPut, UploadCreate, UploadUndo, UploadCommit,
           UploadRelease, others, Expire, Decay, Remove, Delete, PurgeList, PurgeClaim, Erase,
           GiveBack, Read, Load, Quarantine, Use, EndUse
  <1>5. up' \in [Media -> UpPcs]
    <2>1. ASSUME NEW m \in Media, Upload(m) PROVE up' \in [Media -> UpPcs]
      <3>1. \E pc \in UpPcs : up' = [up EXCEPT ![m] = pc]
        BY <2>1 DEF Upload, UploadReserve, UploadPut, UploadCreate, UploadUndo,
                    UploadCommit, UploadRelease
      <3>2. up \in [Media -> UpPcs] BY <1>0 DEF TypeOK
      <3> HIDE DEF UpPcs
      <3> QED BY <3>1, <3>2
    <2> QED BY <1>0, <2>1
        DEF TypeOK, Next, vars, Expire, Decay, Remove, Delete, PurgeList, PurgeClaim, Erase,
            GiveBack, Read, Load, Quarantine, Use, EndUse
  <1>6. givenBack' \in [Media -> Nat]
    <2>1. ASSUME NEW d \in Deleters, GiveBack(d) PROVE givenBack' \in [Media -> Nat]
      <3>1. rm[d].media \in Media BY <2>1 DEF GiveBack, TypeInv, AtWork, Removing
      <3>2. givenBack[rm[d].media] + 1 \in Nat
        <4>1. givenBack \in [Media -> Nat] BY <1>0 DEF TypeOK
        <4>2. \A m \in Media : givenBack[m] + 1 \in Nat BY <4>1
        <4> QED BY <3>1, <4>2
      <3>3. givenBack' = [givenBack EXCEPT ![rm[d].media] = givenBack[rm[d].media] + 1]
        BY <2>1 DEF GiveBack
      <3> QED BY <1>0, <3>2, <3>3 DEF TypeOK
    <2>2. UNCHANGED givenBack \/ \E d \in Deleters : GiveBack(d)
      BY DEF Next, vars, Upload, UploadReserve, UploadPut, UploadCreate, UploadUndo, UploadCommit,
             UploadRelease, others, Expire, Decay, Remove, Delete, PurgeList, PurgeClaim, Erase,
             Read, Load, Quarantine, Use, EndUse
    <2> QED BY <1>0, <2>1, <2>2 DEF TypeOK
  <1>7. AtWork' BY PlacesStep
  <1>8. usage' \in MediaUsage BY UsageStep
  <1>10. unanswered' \subseteq Media
    BY <1>0 DEF TypeOK, Next, vars, Upload, UploadReserve, UploadPut, UploadCreate, UploadUndo, UploadCommit,
           UploadRelease, others, Expire, Decay, Remove, Delete, PurgeList, PurgeClaim, Erase,
           GiveBack, Read, Load, Quarantine, Use, EndUse
  <1>9. TypeOK' BY <1>1, <1>2, <1>3, <1>4, <1>5, <1>6, <1>7, <1>8, <1>10
                DEF TypeOK, AtWork, Removing, Reading, MediaUsage
  <1> QED BY <1>7, <1>8, <1>9 DEF TypeInv

(* The initial state has them. *)
LEMMA MediaTypeInit == ASSUME Init PROVE TypeInv
  <1>1. usage \in MediaUsage BY DEF Init, NoUsage, MediaUsage
  <1>2. AtWork BY DEF Init, AtWork, Removing, Reading, Free, Busy
  <1> QED BY <1>1, <1>2 DEF Init, TypeInv, TypeOK, Free, Busy, NoUsage, Kept

(* The counters of the storage never go negative, whatever fails. *)
THEOREM MediaTypeCorrect == Spec => []TypeOK
  <1>1. Init => TypeInv BY MediaTypeInit
  <1>2. TypeInv /\ [Next]_vars => TypeInv' BY TypeStep
  <1>3. TypeInv => TypeOK BY DEF TypeInv
  <1> QED BY <1>1, <1>2, <1>3, PTL DEF Spec
-----------------------------------------------------------------------------
(***************************************************************************)
(* Media in use.                                                           *)
(***************************************************************************)

(* Before its row is created there is none; a row can be used only with its object
   in the store, or when its creation seemed to fail; and whose object is being
   erased by a deletion can be used no more. *)
NotYetCreated == {"new", "refused", "putting", "creating"}

UseInv ==
  /\ \A m \in Media :
       /\ up[m] \in NotYetCreated => row[m] = "none"
       /\ up[m] = "creating" => m \in object
       /\ up[m] = "undoing" => row[m] = "none" \/ m \in unanswered
       /\ row[m] = "ACTIVE" => m \in object \/ m \in unanswered
       /\ row[m] = "none" => users[m] = {}
  /\ \A d \in Deleters : rm[d].pc \in {"listed", "erasing"} => row[rm[d].media] # "none"
  /\ \A d \in Deleters : rm[d].pc = "erasing" => row[rm[d].media] # "ACTIVE" /\ users[rm[d].media] = {}
  /\ \A r \in Readers : rd[r].pc # "ready" => row[rd[r].media] # "none"
  /\ ReferencedIsKept

(* A step keeps it. *)
LEMMA UseStep == ASSUME TypeInv, UseInv, [Next]_vars PROVE UseInv'
  <1>r. rm \in [Deleters -> Removing] /\ rd \in [Readers -> Reading] BY DEF TypeInv, AtWork
  <1>t. /\ row \in [Media -> {"none", "DELETED"} \cup Kept]
        /\ users \in [Media -> SUBSET Users] /\ object \subseteq Media
        /\ up \in [Media -> {"new", "refused", "putting", "creating", "undoing", "committing",
                             "releasing", "done", "failed"}]
    BY DEF TypeInv, TypeOK
  <1> USE DEF UseInv, ReferencedIsKept, NotYetCreated, Kept
  <1>1. ASSUME NEW m \in Media, UploadReserve(m) \/ UploadPut(m) \/ UploadCommit(m) \/ UploadRelease(m)
        PROVE  UseInv'
    BY <1>1, <1>t DEF UploadReserve, UploadPut, UploadCommit, UploadRelease, others
  <1>2. ASSUME NEW m \in Media, UploadCreate(m) PROVE UseInv'
    <2>1. /\ row[m] = "none" /\ m \in object /\ up[m] = "creating"
          /\ UNCHANGED <<object, users, rm, rd>>
      BY <1>2 DEF UploadCreate
    <2>2. \A k \in Media : row'[k] = row[k] \/ (k = m /\ row'[k] = "ACTIVE")
      BY <1>2, <1>t DEF UploadCreate
    <2>3. \A k \in Media : k # m => up'[k] = up[k] BY <1>2, <1>t DEF UploadCreate
    <2>4. /\ \/ up'[m] = "committing"
             \/ up'[m] = "undoing" /\ (row' = row \/ m \in unanswered')
          /\ unanswered \subseteq unanswered'
      BY <1>2, <1>t DEF UploadCreate
    <2>5. \A d \in Deleters : rm[d].pc # "ready" => rm[d].media \in Media BY <1>r DEF Removing
    <2>6. \A r \in Readers : rd[r].pc # "ready" => rd[r].media \in Media BY <1>r DEF Reading
    <2> QED BY <2>1, <2>2, <2>3, <2>4, <2>5, <2>6
  <1>3. ASSUME NEW m \in Media, UploadUndo(m) PROVE UseInv'
    BY <1>3, <1>t DEF UploadUndo, others
  <1>4. ASSUME NEW d \in Deleters, NEW m \in Media, Delete(d, m) PROVE UseInv'
    BY <1>4, <1>t, <1>r DEF Delete, Busy, Removing, Reading
  <1>5. ASSUME NEW d \in Deleters, NEW m \in Media, PurgeList(d, m) PROVE UseInv'
    BY <1>5, <1>t, <1>r DEF PurgeList, Purgeable, Busy, Removing
  <1>6. ASSUME NEW d \in Deleters, PurgeClaim(d) PROVE UseInv'
    <2> DEFINE m == rm[d].media
    <2>1. rm[d].pc = "listed" /\ m \in Media BY <1>6, <1>r DEF PurgeClaim, Removing
    <2>2. UNCHANGED <<users, object, up, rd, unanswered>> BY <1>6 DEF PurgeClaim
    <2>3. CASE Purgeable(m)
      <3>1. row[m] \in Kept /\ users[m] = {} BY <2>3 DEF Purgeable
      <3>2. row' = [row EXCEPT ![m] = "DELETED"] /\ rm' = [rm EXCEPT ![d].pc = "erasing"]
        BY <1>6, <2>3 DEF PurgeClaim
      <3>3. /\ \A e \in Deleters \ {d} : rm'[e] = rm[e]
            /\ rm'[d].pc = "erasing" /\ rm'[d].media = m
        <4>1. rm' = [rm EXCEPT ![d] = [rm[d] EXCEPT !.pc = "erasing"]] BY <3>2
        <4>2. rm[d] \in Removing BY <1>r
        <4> DEFINE q == [rm[d] EXCEPT !.pc = "erasing"]
        <4>3. q.pc = "erasing" /\ q.media = m BY <4>2 DEF Removing
        <4>4. rm' = [rm EXCEPT ![d] = q] BY <4>1
        <4> HIDE DEF q, m
        <4> QED BY <4>3, <4>4, <1>r
      <3>4. \A k \in Media : row'[k] = IF k = m THEN "DELETED" ELSE row[k] BY <3>2, <1>t
      <3>5. \A e \in Deleters : rm[e].pc # "ready" => rm[e].media \in Media BY <1>r DEF Removing
      <3>6. \A r \in Readers : rd[r].pc # "ready" => rd[r].media \in Media BY <1>r DEF Reading
      <3> HIDE DEF m
      <3> QED BY <2>1, <2>2, <3>1, <3>3, <3>4, <3>5, <3>6
    <2>4. CASE ~Purgeable(m)
      <3>1. UNCHANGED row /\ rm' = [rm EXCEPT ![d] = Free] BY <1>6, <2>4 DEF PurgeClaim
      <3> QED BY <2>2, <3>1, <1>r DEF Free, Busy
    <2> QED BY <2>3, <2>4
  <1>7. ASSUME NEW d \in Deleters, Erase(d) PROVE UseInv'
    <2> DEFINE m == rm[d].media
    <2>1. rm[d].pc = "erasing" /\ m \in Media BY <1>7, <1>r DEF Erase, Removing
    <2>2. UNCHANGED <<row, users, up, rd, unanswered>> BY <1>7 DEF Erase
    <2>3. row[m] \notin {"none", "ACTIVE"} /\ users[m] = {} BY <2>1
    <2>4. object' = object \/ object' = object \ {m} BY <1>7 DEF Erase
    <2>5. \A e \in Deleters : rm'[e].pc \in {"listed", "erasing"} => rm'[e] = rm[e]
      BY <1>7, <1>r DEF Erase, Removing
    <2> HIDE DEF m
    <2>6. up[m] # "creating" BY <2>1, <2>3
    <2> QED BY <2>1, <2>2, <2>3, <2>4, <2>5, <2>6
  <1>8. ASSUME NEW d \in Deleters, GiveBack(d) PROVE UseInv'
    BY <1>8, <1>t, <1>r DEF GiveBack, Free, Busy
  <1>9. ASSUME NEW r \in Readers, NEW m \in Media, Read(r, m) PROVE UseInv'
    BY <1>9, <1>t, <1>r DEF Read, Busy
  <1>10. ASSUME NEW r \in Readers, Load(r) PROVE UseInv'
    BY <1>10, <1>t, <1>r DEF Load, Busy, Free, Reading
  <1>11. ASSUME NEW r \in Readers, Quarantine(r) PROVE UseInv'
    BY <1>11, <1>t, <1>r DEF Quarantine, Busy, Free, Reading, Removing
  <1>12. ASSUME NEW m \in Media, NEW u \in Users, Use(m, u) \/ EndUse(m, u) PROVE UseInv'
    <2>1. UNCHANGED <<row, object, up, rm, rd, unanswered>> BY <1>12 DEF Use, EndUse
    <2>2. \A k \in Media : users'[k] = users[k] \/ row[k] = "ACTIVE" \/ users'[k] \subseteq users[k]
      BY <1>12, <1>t DEF Use, EndUse
    <2>3. \A e \in Deleters : rm[e].pc # "ready" => rm[e].media \in Media BY <1>r DEF Removing
    <2> QED BY <2>1, <2>2, <2>3
  <1>13. ASSUME NEW m \in Media, Expire(m) \/ Decay(m) PROVE UseInv'
    BY <1>13 DEF Expire, Decay
  <1>14. CASE UNCHANGED vars BY <1>14 DEF vars
  <1> QED BY <1>1, <1>2, <1>3, <1>4, <1>5, <1>6, <1>7, <1>8, <1>9, <1>10, <1>11, <1>12, <1>13, <1>14
          DEF Next, Upload, Remove

(* Media that a workflow may still send is neither deleted nor erased, whatever
   fails, unless the answer of its creation was lost: the row is DELETED only while
   nobody uses it, and used only while it is ACTIVE, with its object. *)
THEOREM MediaInUseIsKept == Spec => []ReferencedIsKept
  <1>1. Init => TypeInv /\ UseInv
    <2> SUFFICES ASSUME Init PROVE TypeInv /\ UseInv OBVIOUS
    <2>1. TypeInv BY MediaTypeInit
    <2>2. UseInv
      BY DEF Init, UseInv, ReferencedIsKept, Free, Busy
    <2> QED BY <2>1, <2>2
  <1>2. TypeInv /\ UseInv /\ [Next]_vars => (TypeInv /\ UseInv)' BY TypeStep, UseStep
  <1>3. UseInv => ReferencedIsKept BY DEF UseInv
  <1> QED BY <1>1, <1>2, <1>3, PTL DEF Spec
-----------------------------------------------------------------------------
(***************************************************************************)
(* The books of the storage.                                               *)
(***************************************************************************)

(* A creation that takes effect is answered, a commit that is sent takes effect and is
   answered, and no reader condemns media behind the back of a deletion: what the
   books balance under. *)
Orderly == Faults \cap {"lost row", "lost", "commit"} = {} /\ Readers = {}

Started == {m \in Media : up[m] \notin {"new", "refused"}}
InUpload == {"putting", "creating", "undoing", "committing", "releasing"}

(* Whose bytes the counter still has to hold. *)
Charged == {m \in Media : up[m] \notin {"new", "refused", "failed"} /\ givenBack[m] = 0}

Erasing(d) == rm[d].pc \in {"erasing", "giving back"}

(* The ledger says of every upload how far it is. *)
LedgerInv ==
  /\ \A m \in Media : /\ HasRow(usage, "RESERVE", m) <=> m \in Started
                      /\ HasRow(usage, "COMMIT", m) <=> up[m] = "done"
                      /\ HasRow(usage, "RELEASE", m) <=> up[m] = "failed"
  /\ \A e \in usage.ledger : e.op = "RESERVE" => e.amount = Size[e.key]
  /\ IsFiniteSet(Started)

(* One deleter at a time removes a media, after its row is DELETED, and gives its
   bytes back once. *)
RemovalInv ==
  /\ \A m \in Media : /\ row[m] # "none" => up[m] \in {"committing", "done"}
                      /\ row[m] # "QUARANTINED"
                      /\ givenBack[m] = 0 \/ (givenBack[m] = 1 /\ row[m] = "DELETED")
  /\ \A d \in Deleters : Erasing(d) => row[rm[d].media] = "DELETED" /\ givenBack[rm[d].media] = 0
  /\ \A d, e \in Deleters : Erasing(d) /\ Erasing(e) /\ rm[d].media = rm[e].media => d = e

(* The counter holds what is being uploaded and what is charged, within the limit. *)
CounterInv ==
  /\ usage.reserved[Lifetime] = SumOver(Size, Uploading)
  /\ SumOver(Size, Charged) <= usage.consumed[Lifetime] + usage.reserved[Lifetime]
  /\ Limit = Unlimited \/ usage.consumed[Lifetime] + usage.reserved[Lifetime] <= Limit

BooksInv == TypeInv /\ LedgerInv /\ RemovalInv /\ CounterInv

(* The sets that are summed up are finite. *)
LEMMA SumsAreFinite ==
  ASSUME BooksInv, NEW S, S \subseteq Started
  PROVE  /\ IsFiniteSet(S) /\ \A m \in S : Size[m] \in Nat /\ Size[m] \in Int
         /\ SumOver(Size, S) \in Nat
  <1>1. IsFiniteSet(S) BY FS_Subset DEF BooksInv, LedgerInv
  <1>2. \A m \in S : Size[m] \in Nat /\ Size[m] \in Int BY SizeAssumption DEF Started
  <1>3. SumOver(Size, S) \in Nat BY <1>1, <1>2, SumIsNat
  <1> QED BY <1>1, <1>2, <1>3

(* An upload in progress can settle its reservation, which is of its own size: the
   counter holds at least its bytes, whatever the others do. *)
LEMMA UploadCanSettle ==
  ASSUME BooksInv, NEW m \in Uploading, NEW op \in {"COMMIT", "RELEASE"}
  PROVE  CanSettle(usage, op, m) /\ ~HasRow(usage, op, m) /\ Row(usage, "RESERVE", m).amount = Size[m]
  <1> DEFINE r == Row(usage, "RESERVE", m)
  <1>1. m \in Media /\ up[m] \in InUpload BY DEF Uploading, InUpload
  <1>2. HasRow(usage, "RESERVE", m) /\ ~HasRow(usage, op, m)
    BY <1>1 DEF BooksInv, LedgerInv, Started, InUpload
  <1>3. r \in usage.ledger /\ r.op = "RESERVE" /\ r.key = m BY <1>2 DEF HasRow, Row
  <1>4. r.amount = Size[m] BY <1>3 DEF BooksInv, LedgerInv
  <1>5. r.period = Lifetime BY <1>3 DEF BooksInv, TypeInv, MediaUsage, MediaRow
  <1>6. Uploading \subseteq Started BY DEF Uploading, Started
  <1>7. SumOver(Size, {m}) <= SumOver(Size, Uploading)
    BY <1>6, SumsAreFinite, SumOfPart
  <1>8. SumOver(Size, {m}) = Size[m] /\ Size[m] \in Nat
    <2>1. Size[m] \in Nat BY <1>1, SizeAssumption
    <2>2. IsFiniteSet({m}) /\ {m} \ {m} = {} BY FS_Singleton
    <2>3. SumOver(Size, {m}) = Size[m] + SumOver(Size, {m} \ {m}) BY <2>1, <2>2, SumLoses
    <2> QED BY <2>1, <2>2, <2>3, SumOfNone
  <1>9. usage.reserved[Lifetime] >= Size[m]
    <2>1. SumOver(Size, Uploading) \in Nat BY <1>6, SumsAreFinite
    <2> QED BY <1>7, <1>8, <2>1 DEF BooksInv, CounterInv
  <1> HIDE DEF r
  <1> QED BY <1>2, <1>4, <1>5, <1>9 DEF CanSettle, r

(* What an upload does to the books: it is refused; it reserves its bytes; it goes on;
   it commits them; or it releases them, and then it has no row. *)
Refused(m) == up[m] = "new" /\ up' = [up EXCEPT ![m] = "refused"] /\ UNCHANGED <<usage, row>>
Holds(m) ==
  /\ up[m] = "new" /\ up' = [up EXCEPT ![m] = "putting"] /\ UNCHANGED row
  /\ Limit = Unlimited \/ usage.consumed[Lifetime] + usage.reserved[Lifetime] + Size[m] <= Limit
  /\ usage'.consumed = usage.consumed
  /\ usage'.reserved[Lifetime] = usage.reserved[Lifetime] + Size[m]
  /\ usage'.ledger = AddRow(usage, "RESERVE", m, Size[m], Lifetime)
GoesOn(m) ==
  /\ up[m] \in InUpload \ {"committing"} /\ (\E pc \in InUpload : up' = [up EXCEPT ![m] = pc]) /\ UNCHANGED usage
  /\ UNCHANGED row \/ (up'[m] = "committing" /\ row[m] = "none" /\ row' = [row EXCEPT ![m] = "ACTIVE"])
Settles(m, from, op, to, taken) ==
  /\ up[m] = from /\ up' = [up EXCEPT ![m] = to] /\ UNCHANGED row
  /\ usage'.consumed[Lifetime] = usage.consumed[Lifetime] + taken
  /\ usage'.reserved[Lifetime] = usage.reserved[Lifetime] - Size[m]
  /\ usage'.ledger = AddRow(usage, op, m, Size[m], Lifetime)

(* Every step of an upload is one of these. *)
LEMMA UploadEffects ==
  ASSUME Orderly, BooksInv, NEW m \in Media, Upload(m)
  PROVE  /\ UNCHANGED <<rm, givenBack>>
         /\ \/ Refused(m) \/ Holds(m) \/ GoesOn(m)
            \/ Settles(m, "committing", "COMMIT", "done", Size[m])
            \/ Settles(m, "releasing", "RELEASE", "failed", 0)
  <1>0. usage \in MediaUsage /\ up \in [Media -> {"new", "refused", "putting", "creating", "undoing",
                                 "committing", "releasing", "done", "failed"}]
    BY DEF BooksInv, TypeInv, TypeOK
  <1>1. UNCHANGED <<rm, givenBack>>
    BY DEF Upload, UploadReserve, UploadPut, UploadCreate, UploadUndo, UploadCommit, UploadRelease, others
  <1>2. CASE UploadReserve(m)
    <2>1. ~HasRow(usage, "RESERVE", m) BY <1>2 DEF UploadReserve, BooksInv, LedgerInv, Started
    <2>2. CASE CanReserve(usage, Lifetime, m, Size[m], Limit)
      <3>1. Limit = Unlimited \/ usage.consumed[Lifetime] + usage.reserved[Lifetime] + Size[m] <= Limit
        BY <2>1, <2>2 DEF CanReserve, WithinLimit
      <3>2. usage' = Reserved(usage, Lifetime, m, Size[m]) BY <1>2, <2>2 DEF UploadReserve
      <3>3. /\ usage'.consumed = usage.consumed
            /\ usage'.reserved[Lifetime] = usage.reserved[Lifetime] + Size[m]
            /\ usage'.ledger = AddRow(usage, "RESERVE", m, Size[m], Lifetime)
        BY <1>0, <2>1, <3>2, ReservedMedia
      <3> QED BY <1>1, <1>2, <2>2, <3>1, <3>3 DEF UploadReserve, Holds
    <2>3. CASE ~CanReserve(usage, Lifetime, m, Size[m], Limit)
      BY <1>1, <1>2, <2>3 DEF UploadReserve, Refused
    <2> QED BY <2>2, <2>3
  <1>3. CASE UploadPut(m) \/ UploadUndo(m)
    BY <1>0, <1>1, <1>3 DEF UploadPut, UploadUndo, GoesOn, InUpload
  <1>4. CASE UploadCreate(m)
    <2>1. row[m] = "none" BY <1>4 DEF UploadCreate, BooksInv, RemovalInv
    <2>2. "lost row" \notin Faults BY DEF Orderly
    <2> QED BY <1>0, <1>1, <1>4, <2>1, <2>2 DEF UploadCreate, GoesOn, InUpload
  <1>5. CASE UploadCommit(m)
    <2>1. m \in Uploading BY <1>5 DEF UploadCommit, Uploading
    <2>2. /\ CanSettle(usage, "COMMIT", m) /\ ~HasRow(usage, "COMMIT", m)
          /\ Row(usage, "RESERVE", m).amount = Size[m]
      BY <2>1, UploadCanSettle
    <2>3. "lost" \notin Faults /\ "commit" \notin Faults BY DEF Orderly
    <2>4. usage' = Settled(usage, "COMMIT", m) /\ up' = [up EXCEPT ![m] = "done"]
      BY <1>5, <2>2, <2>3 DEF UploadCommit
    <2>5. /\ usage'.consumed[Lifetime] = usage.consumed[Lifetime] + Size[m]
          /\ usage'.reserved[Lifetime] = usage.reserved[Lifetime] - Size[m]
          /\ usage'.ledger = AddRow(usage, "COMMIT", m, Size[m], Lifetime)
      BY <1>0, <2>2, <2>4, SettledMedia
    <2> QED BY <1>1, <1>5, <2>4, <2>5 DEF UploadCommit, Settles
  <1>6. CASE UploadRelease(m)
    <2>1. m \in Uploading BY <1>6 DEF UploadRelease, Uploading
    <2>2. /\ CanSettle(usage, "RELEASE", m) /\ ~HasRow(usage, "RELEASE", m)
          /\ Row(usage, "RESERVE", m).amount = Size[m]
      BY <2>1, UploadCanSettle
    <2>3. usage' = Settled(usage, "RELEASE", m) BY <1>6, <2>2 DEF UploadRelease
    <2>4. /\ usage'.consumed[Lifetime] = usage.consumed[Lifetime] + 0
          /\ usage'.reserved[Lifetime] = usage.reserved[Lifetime] - Size[m]
          /\ usage'.ledger = AddRow(usage, "RELEASE", m, Size[m], Lifetime)
      BY <1>0, <2>2, <2>3, SettledMedia
    <2> QED BY <1>1, <1>6, <2>4 DEF UploadRelease, Settles
  <1> QED BY <1>2, <1>3, <1>4, <1>5, <1>6 DEF Upload

(* What the deleters do to the books: one marks the row of a media that was kept;
   takes or drops a candidate; erases the object; or gives the bytes back. *)
Marks(d, m) ==
  /\ row[m] \in Kept /\ row' = [row EXCEPT ![m] = "DELETED"]
  /\ ~Erasing(d) /\ rm' = [rm EXCEPT ![d] = Busy("erasing", m)] /\ UNCHANGED <<usage, givenBack>>
Considers(d) ==
  /\ ~Erasing(d) /\ (\E p \in Removing : p.pc \in {"ready", "listed"} /\ rm' = [rm EXCEPT ![d] = p])
  /\ UNCHANGED <<row, usage, givenBack>>
Erases(d) ==
  /\ rm[d].pc = "erasing" /\ rm' = [rm EXCEPT ![d] = Busy("giving back", rm[d].media)]
  /\ UNCHANGED <<row, usage, givenBack>>
GivesBack(d) ==
  LET m == rm[d].media
  IN  /\ rm[d].pc = "giving back" /\ rm' = [rm EXCEPT ![d] = Free] /\ UNCHANGED row
      /\ givenBack' = [givenBack EXCEPT ![m] = @ + 1]
      /\ usage'.reserved = usage.reserved /\ usage'.ledger = usage.ledger
      /\ usage'.consumed[Lifetime] <= usage.consumed[Lifetime]
      /\ \/ usage'.consumed[Lifetime] = usage.consumed[Lifetime] - Size[m]
         \/ usage.consumed[Lifetime] < Size[m] /\ usage'.consumed[Lifetime] = 0

(* Every step of a deleter is one of these. *)
LEMMA RemovalEffects ==
  ASSUME BooksInv, NEW d \in Deleters, Remove(d)
  PROVE  /\ UNCHANGED up
         /\ (\E m \in Media : Marks(d, m)) \/ Considers(d) \/ Erases(d) \/ GivesBack(d)
  <1>0. rm[d] \in Removing BY DEF BooksInv, TypeInv, AtWork
  <1>f. Free \in Removing /\ Free.pc = "ready" BY DEF Free, Busy, Removing
  <1>u. UNCHANGED up BY DEF Remove, Delete, PurgeList, PurgeClaim, Erase, GiveBack
  <1>m. ASSUME NEW pc, NEW to, rm[d].pc = pc, pc # "ready"
        PROVE  rm[d].media \in Media /\ [rm[d] EXCEPT !.pc = to] = Busy(to, rm[d].media)
    <2>1. ASSUME NEW p \in Removing
          PROVE  [p EXCEPT !.pc = to] = [pc |-> to, media |-> p.media]
      <3>1. p \in [pc : {"ready", "listed", "erasing", "giving back"}, media : Media \cup {NoMedia}]
        BY DEF Removing
      <3>2. p = [pc |-> p.pc, media |-> p.media] BY <3>1
      <3>3. ASSUME NEW x, NEW y, p = [pc |-> y, media |-> x]
            PROVE  [p EXCEPT !.pc = to] = [pc |-> to, media |-> x]
        BY <3>3
      <3> QED BY <3>2, <3>3
    <2> QED BY <1>0, <1>m, <2>1 DEF Busy, Removing
  <1>1. ASSUME NEW m \in Media, Delete(d, m) PROVE Marks(d, m)
    BY <1>1, <1>f DEF Delete, Marks, Kept, Erasing
  <1>2. ASSUME NEW m \in Media, PurgeList(d, m) PROVE Considers(d)
    <2>1. Busy("listed", m) \in Removing /\ Busy("listed", m).pc = "listed" BY DEF Busy, Removing
    <2> QED BY <1>2, <1>f, <2>1 DEF PurgeList, Considers, Erasing
  <1>3. CASE PurgeClaim(d)
    <2>1. rm[d].pc = "listed" BY <1>3 DEF PurgeClaim
    <2>2. CASE Purgeable(rm[d].media)
      <3>1. rm' = [rm EXCEPT ![d] = [rm[d] EXCEPT !.pc = "erasing"]] BY <1>3, <2>2 DEF PurgeClaim
      <3>2. rm' = [rm EXCEPT ![d] = Busy("erasing", rm[d].media)] /\ rm[d].media \in Media
        <4>1. [rm[d] EXCEPT !.pc = "erasing"] = Busy("erasing", rm[d].media) /\ rm[d].media \in Media
          BY <1>m, <2>1
        <4> QED BY <3>1, <4>1
      <3>3. Marks(d, rm[d].media)
        BY <1>3, <2>1, <2>2, <3>2 DEF PurgeClaim, Purgeable, Marks, Erasing
      <3> QED BY <1>u, <3>2, <3>3
    <2>3. CASE ~Purgeable(rm[d].media)
      BY <1>3, <1>f, <1>u, <2>1, <2>3 DEF PurgeClaim, Considers, Erasing
    <2> QED BY <2>2, <2>3
  <1>4. CASE Erase(d)
    <2>1. rm' = [rm EXCEPT ![d] = [rm[d] EXCEPT !.pc = "giving back"]] /\ rm[d].pc = "erasing"
      BY <1>4 DEF Erase
    <2>2. [rm[d] EXCEPT !.pc = "giving back"] = Busy("giving back", rm[d].media) BY <1>m, <2>1
    <2>3. rm' = [rm EXCEPT ![d] = Busy("giving back", rm[d].media)] BY <2>1, <2>2
    <2>4. UNCHANGED <<row, usage, givenBack>> BY <1>4 DEF Erase
    <2> QED BY <1>u, <2>1, <2>3, <2>4 DEF Erases
  <1>5. CASE GiveBack(d)
    <2>1. rm[d].media \in Media /\ Size[rm[d].media] \in Nat
      BY <1>0, <1>5, SizeAssumption DEF GiveBack, Removing
    <2>2. usage \in MediaUsage /\ usage' = AfterGiveBack(usage, Lifetime, Size[rm[d].media])
      BY <1>5 DEF GiveBack, BooksInv, TypeInv
    <2>3. /\ usage'.reserved = usage.reserved /\ usage'.ledger = usage.ledger
          /\ usage'.consumed[Lifetime] <= usage.consumed[Lifetime]
          /\ \/ usage'.consumed[Lifetime] = usage.consumed[Lifetime] - Size[rm[d].media]
             \/ usage.consumed[Lifetime] < Size[rm[d].media] /\ usage'.consumed[Lifetime] = 0
      BY <2>1, <2>2, GivenBackMedia
    <2> QED BY <1>5, <1>u, <2>3 DEF GiveBack, GivesBack
  <1> QED BY <1>u, <1>1, <1>2, <1>3, <1>4, <1>5 DEF Remove

(* Nothing else touches the books. *)
LEMMA BookSteps ==
  ASSUME Orderly, BooksInv, [Next]_vars
  PROVE  \/ \E m \in Media : Upload(m)
         \/ \E d \in Deleters : Remove(d)
         \/ UNCHANGED <<row, usage, up, rm, givenBack>>
  <1>1. Readers = {} BY DEF Orderly
  <1> QED BY <1>1 DEF Next, vars, Expire, Decay, Use, EndUse

(* The ledger keeps telling how far every upload is. *)
LEMMA LedgerStep == ASSUME Orderly, BooksInv, [Next]_vars PROVE LedgerInv'
  <1>t. up \in [Media -> {"new", "refused", "putting", "creating", "undoing", "committing",
                          "releasing", "done", "failed"}]
    BY DEF BooksInv, TypeInv, TypeOK
  <1>i. LedgerInv BY DEF BooksInv
  <1>1. ASSUME UNCHANGED up, usage'.ledger = usage.ledger PROVE LedgerInv'
    <2>1. \A o, j : HasRow(usage', o, j) <=> HasRow(usage, o, j) BY <1>1 DEF HasRow
    <2>2. Started' = Started BY <1>1 DEF Started
    <2> QED BY <1>1, <1>i, <2>1, <2>2 DEF LedgerInv
  <1>2. ASSUME NEW m \in Media, NEW op, NEW pc, up[m] \notin {"done", "failed", "refused"},
               usage'.ledger = AddRow(usage, op, m, Size[m], Lifetime),
               up' = [up EXCEPT ![m] = pc],
               \/ op = "RESERVE" /\ pc = "putting"
               \/ op = "COMMIT" /\ pc = "done" /\ up[m] # "new"
               \/ op = "RELEASE" /\ pc = "failed" /\ up[m] # "new"
        PROVE  LedgerInv'
    <2>1. \A o, j : HasRow(usage', o, j) <=> (HasRow(usage, o, j) \/ (o = op /\ j = m))
      BY <1>2, FoundAfterAdd
    <2>2. \A k \in Media : up'[k] = IF k = m THEN pc ELSE up[k] BY <1>2, <1>t
    <2>3. Started' = Started \cup {m} BY <1>2, <2>2 DEF Started
    <2>4. IsFiniteSet(Started') BY <1>i, <2>3, FS_AddElement DEF LedgerInv
    <2>5. \A e \in usage'.ledger : e.op = "RESERVE" => e.amount = Size[e.key]
      BY <1>2, <1>i DEF AddRow, LedgerInv
    <2>6. ASSUME NEW k \in Media
          PROVE  /\ HasRow(usage', "RESERVE", k) <=> k \in Started'
                 /\ HasRow(usage', "COMMIT", k) <=> up'[k] = "done"
                 /\ HasRow(usage', "RELEASE", k) <=> up'[k] = "failed"
      <3>1. /\ HasRow(usage, "RESERVE", k) <=> k \in Started
            /\ HasRow(usage, "COMMIT", k) <=> up[k] = "done"
            /\ HasRow(usage, "RELEASE", k) <=> up[k] = "failed"
        BY <1>i DEF LedgerInv
      <3>2. /\ HasRow(usage', "RESERVE", k) <=> HasRow(usage, "RESERVE", k) \/ (op = "RESERVE" /\ k = m)
            /\ HasRow(usage', "COMMIT", k) <=> HasRow(usage, "COMMIT", k) \/ (op = "COMMIT" /\ k = m)
            /\ HasRow(usage', "RELEASE", k) <=> HasRow(usage, "RELEASE", k) \/ (op = "RELEASE" /\ k = m)
        BY <2>1
      <3>3. op # "RESERVE" => m \in Started BY <1>2 DEF Started
      <3> QED BY <1>2, <2>2, <2>3, <3>1, <3>2, <3>3
    <2> QED BY <2>4, <2>5, <2>6 DEF LedgerInv
  <1>3. ASSUME NEW m \in Media, NEW pc, up' = [up EXCEPT ![m] = pc], UNCHANGED usage,
               \/ up[m] = "new" /\ pc = "refused"
               \/ up[m] \in InUpload /\ pc \in InUpload
        PROVE  LedgerInv'
    <2>1. \A k \in Media : up'[k] = IF k = m THEN pc ELSE up[k] BY <1>3, <1>t
    <2>2. Started' = Started BY <1>3, <2>1 DEF Started, InUpload
    <2>3. \A k \in Media : /\ up'[k] = "done" <=> up[k] = "done"
                           /\ up'[k] = "failed" <=> up[k] = "failed"
      BY <1>3, <2>1 DEF InUpload
    <2> QED BY <1>3, <1>i, <2>2, <2>3 DEF LedgerInv
  <1>4. ASSUME NEW m \in Media, Upload(m) PROVE LedgerInv'
    <2>1. CASE Refused(m) BY <1>3, <2>1 DEF Refused
    <2>2. CASE Holds(m) BY <1>2, <2>2 DEF Holds
    <2>3. CASE GoesOn(m) BY <1>3, <2>3 DEF GoesOn
    <2>4. CASE Settles(m, "committing", "COMMIT", "done", Size[m]) BY <1>2, <2>4 DEF Settles
    <2>5. CASE Settles(m, "releasing", "RELEASE", "failed", 0) BY <1>2, <2>5 DEF Settles
    <2> QED BY <1>4, <2>1, <2>2, <2>3, <2>4, <2>5, UploadEffects
  <1>5. ASSUME NEW d \in Deleters, Remove(d) PROVE LedgerInv'
    <2>1. UNCHANGED up BY <1>5, RemovalEffects
    <2>2. usage'.ledger = usage.ledger
      BY <1>5, RemovalEffects DEF Marks, Considers, Erases, GivesBack
    <2> QED BY <1>1, <2>1, <2>2
  <1> QED BY <1>1, <1>4, <1>5, BookSteps

(* One deleter at a time goes on removing a media. *)
LEMMA RemovalStep == ASSUME Orderly, BooksInv, [Next]_vars PROVE RemovalInv'
  <1>t. /\ up \in [Media -> {"new", "refused", "putting", "creating", "undoing", "committing",
                             "releasing", "done", "failed"}]
        /\ row \in [Media -> {"none", "DELETED"} \cup Kept] /\ givenBack \in [Media -> Nat]
    BY DEF BooksInv, TypeInv, TypeOK
  <1>r. rm \in [Deleters -> Removing] BY DEF BooksInv, TypeInv, AtWork
  <1>m. \A d \in Deleters : Erasing(d) => rm[d].media \in Media BY <1>r DEF Removing, Erasing
  <1>i. RemovalInv BY DEF BooksInv
  <1>1. ASSUME NEW m \in Media, Upload(m) PROVE RemovalInv'
    <2>1. UNCHANGED <<rm, givenBack>> BY <1>1, UploadEffects
    <2>2. \A k \in Media : k # m => row'[k] = row[k] /\ up'[k] = up[k]
      BY <1>1, <1>t, UploadEffects DEF Refused, Holds, GoesOn, Settles
    <2>3. \/ row'[m] = row[m] /\ (row[m] # "none" => up'[m] \in {"committing", "done"})
          \/ row[m] = "none" /\ row'[m] = "ACTIVE" /\ up'[m] = "committing"
      BY <1>1, <1>t, <1>i, UploadEffects DEF Refused, Holds, GoesOn, Settles, InUpload, RemovalInv
    <2>4. \A k \in Media : /\ row'[k] # "none" => up'[k] \in {"committing", "done"}
                           /\ row'[k] # "QUARANTINED"
                           /\ row[k] = "DELETED" => row'[k] = "DELETED"
      BY <1>i, <2>2, <2>3 DEF RemovalInv
    <2> QED BY <1>i, <1>m, <2>1, <2>4 DEF RemovalInv, Erasing
  <1>2. ASSUME NEW d \in Deleters, NEW m \in Media, Marks(d, m), UNCHANGED up PROVE RemovalInv'
    <2>1. row[m] # "DELETED" /\ row[m] # "none" BY <1>2 DEF Marks, Kept
    <2>2. \A k \in Media : row'[k] = IF k = m THEN "DELETED" ELSE row[k] BY <1>2, <1>t DEF Marks
    <2>3. \A e \in Deleters : rm'[e] = IF e = d THEN Busy("erasing", m) ELSE rm[e]
      BY <1>2, <1>r DEF Marks
    <2>4. Busy("erasing", m).media = m /\ Busy("erasing", m).pc = "erasing" BY DEF Busy
    <2>5. \A e \in Deleters : Erasing(e) => rm[e].media # m BY <1>i, <2>1 DEF RemovalInv
    <2>6. givenBack[m] = 0 BY <1>i, <2>1 DEF RemovalInv
    <2>7. UNCHANGED <<up, givenBack>> BY <1>2 DEF Marks
    <2>8. \A e \in Deleters : Erasing(e)' <=> e = d \/ Erasing(e) BY <2>3, <2>4 DEF Erasing
    <2>9. \A e \in Deleters : e # d /\ Erasing(e)' => rm'[e].media = rm[e].media /\ rm[e].media # m
      BY <2>3, <2>5, <2>8
    <2>10. rm'[d].media = m BY <2>3, <2>4
    <2>11. \A k \in Media : /\ row'[k] # "none" => up'[k] \in {"committing", "done"}
                            /\ row'[k] # "QUARANTINED"
                            /\ givenBack'[k] = 0 \/ (givenBack'[k] = 1 /\ row'[k] = "DELETED")
      BY <1>i, <2>1, <2>2, <2>6, <2>7 DEF RemovalInv
    <2>12. \A e \in Deleters : Erasing(e)' => row'[rm'[e].media] = "DELETED" /\ givenBack'[rm'[e].media] = 0
      BY <1>i, <1>m, <2>2, <2>6, <2>7, <2>8, <2>9, <2>10 DEF RemovalInv
    <2>13. \A e, f \in Deleters : Erasing(e)' /\ Erasing(f)' /\ rm'[e].media = rm'[f].media => e = f
      BY <1>i, <2>8, <2>9, <2>10 DEF RemovalInv
    <2> QED BY <2>11, <2>12, <2>13 DEF RemovalInv
  <1>3. ASSUME NEW d \in Deleters, Considers(d), UNCHANGED up PROVE RemovalInv'
    <2>1. PICK p \in Removing : p.pc \in {"ready", "listed"} /\ rm' = [rm EXCEPT ![d] = p]
      BY <1>3 DEF Considers
    <2>2. \A e \in Deleters : Erasing(e)' => e # d /\ Erasing(e) /\ rm'[e] = rm[e]
      BY <1>r, <2>1 DEF Erasing
    <2>3. UNCHANGED <<row, up, givenBack>> BY <1>3 DEF Considers
    <2> QED BY <1>i, <2>2, <2>3 DEF RemovalInv
  <1>4. ASSUME NEW d \in Deleters, Erases(d), UNCHANGED up PROVE RemovalInv'
    <2>1. \A e \in Deleters : rm'[e] = IF e = d THEN Busy("giving back", rm[d].media) ELSE rm[e]
      BY <1>4, <1>r DEF Erases
    <2>2. Busy("giving back", rm[d].media).media = rm[d].media BY DEF Busy
    <2>3. Erasing(d) BY <1>4 DEF Erases, Erasing
    <2>4. \A e \in Deleters : (Erasing(e)' => Erasing(e)) /\ rm'[e].media = rm[e].media
      BY <2>1, <2>2, <2>3 DEF Erasing
    <2>5. UNCHANGED <<row, up, givenBack>> BY <1>4 DEF Erases
    <2> QED BY <1>i, <2>4, <2>5 DEF RemovalInv
  <1>5. ASSUME NEW d \in Deleters, GivesBack(d), UNCHANGED up PROVE RemovalInv'
    <2> DEFINE m == rm[d].media
    <2>1. Erasing(d) /\ m \in Media BY <1>5, <1>m DEF GivesBack, Erasing
    <2>2. row[m] = "DELETED" /\ givenBack[m] = 0 BY <1>i, <2>1 DEF RemovalInv
    <2>3. \A k \in Media : givenBack'[k] = IF k = m THEN 1 ELSE givenBack[k]
      <3>1. givenBack' = [givenBack EXCEPT ![m] = @ + 1] BY <1>5 DEF GivesBack
      <3> HIDE DEF m
      <3> QED BY <1>t, <2>1, <2>2, <3>1
    <2>4. \A e \in Deleters : Erasing(e)' => e # d /\ Erasing(e) /\ rm'[e] = rm[e]
      BY <1>5, <1>r DEF GivesBack, Erasing, Free, Busy
    <2>5. \A e \in Deleters : Erasing(e)' => rm[e].media # m BY <1>i, <2>1, <2>4 DEF RemovalInv
    <2>6. UNCHANGED <<row, up>> BY <1>5 DEF GivesBack
    <2>7. \A k \in Media : givenBack'[k] = 0 \/ (givenBack'[k] = 1 /\ row'[k] = "DELETED")
      BY <1>i, <2>2, <2>3, <2>6 DEF RemovalInv
    <2>8. \A e \in Deleters : Erasing(e)' => givenBack'[rm'[e].media] = 0 /\ row'[rm'[e].media] = "DELETED"
      BY <1>i, <1>m, <2>3, <2>4, <2>5, <2>6 DEF RemovalInv
    <2>9. \A e, f \in Deleters : Erasing(e)' /\ Erasing(f)' /\ rm'[e].media = rm'[f].media => e = f
      BY <1>i, <2>4 DEF RemovalInv
    <2> HIDE DEF m
    <2> QED BY <1>i, <2>6, <2>7, <2>8, <2>9 DEF RemovalInv
  <1>6. ASSUME NEW d \in Deleters, Remove(d) PROVE RemovalInv'
    BY <1>2, <1>3, <1>4, <1>5, <1>6, RemovalEffects
  <1>7. CASE UNCHANGED <<row, usage, up, rm, givenBack>>
    BY <1>7, <1>i DEF RemovalInv, Erasing
  <1> QED BY <1>1, <1>6, <1>7, BookSteps

(* What the counter holds and what it has to hold move together. *)
LEMMA CounterStep == ASSUME Orderly, BooksInv, [Next]_vars PROVE CounterInv'
  <1>t. /\ up \in [Media -> {"new", "refused", "putting", "creating", "undoing", "committing",
                             "releasing", "done", "failed"}]
        /\ givenBack \in [Media -> Nat] /\ Limit \in Nat \cup {Unlimited}
    BY LimitAssumption DEF BooksInv, TypeInv, TypeOK
  <1>u. /\ usage.consumed[Lifetime] \in Nat /\ usage.reserved[Lifetime] \in Nat
        /\ usage'.consumed[Lifetime] \in Nat /\ usage'.reserved[Lifetime] \in Nat
    BY UsageStep DEF BooksInv, TypeInv, MediaUsage
  <1>i. CounterInv BY DEF BooksInv
  <1>p. Uploading \subseteq Started /\ Charged \subseteq Started BY DEF Uploading, Charged, Started
  <1>s. SumOver(Size, Uploading) \in Nat /\ SumOver(Size, Charged) \in Nat BY <1>p, SumsAreFinite
  <1>a. ASSUME NEW S, S \subseteq Started, NEW m \in Media \ S
        PROVE  SumOver(Size, S \cup {m}) = Size[m] + SumOver(Size, S)
    <2>1. IsFiniteSet(S) /\ \A k \in S : Size[k] \in Int BY <1>a, SumsAreFinite
    <2>2. Size[m] \in Int BY SizeAssumption
    <2> QED BY <2>1, <2>2, SumGains
  <1>b. ASSUME NEW S, S \subseteq Started, NEW m \in S
        PROVE  SumOver(Size, S \ {m}) = SumOver(Size, S) - Size[m]
    <2>1. IsFiniteSet(S) /\ (\A k \in S : Size[k] \in Int) /\ SumOver(Size, S) \in Nat
      BY <1>b, SumsAreFinite
    <2>2. SumOver(Size, S) = Size[m] + SumOver(Size, S \ {m}) BY <2>1, SumLoses
    <2>3. SumOver(Size, S \ {m}) \in Nat
      <3>1. S \ {m} \subseteq Started BY <1>b
      <3> QED BY <3>1, SumsAreFinite
    <2>4. Size[m] \in Int BY <2>1
    <2> QED BY <2>1, <2>2, <2>3, <2>4
  <1>1. ASSUME NEW m \in Media, Upload(m) PROVE CounterInv'
    <2>1. UNCHANGED givenBack BY <1>1, UploadEffects
    <2>2. Size[m] \in Nat BY SizeAssumption
    <2>3. ASSUME NEW pc, up' = [up EXCEPT ![m] = pc]
          PROVE  /\ Uploading' = IF pc \in InUpload THEN Uploading \cup {m} ELSE Uploading \ {m}
                 /\ Charged' = IF pc \notin {"new", "refused", "failed"} /\ givenBack[m] = 0
                               THEN Charged \cup {m} ELSE Charged \ {m}
      BY <1>t, <2>1, <2>3 DEF Uploading, Charged, InUpload
    <2>4. CASE Refused(m)
      <3>1. /\ Uploading' = Uploading \ {m} /\ Charged' = Charged \ {m}
            /\ m \notin Uploading /\ m \notin Charged
        BY <2>3, <2>4 DEF Refused, InUpload, Uploading, Charged
      <3>2. Uploading' = Uploading /\ Charged' = Charged BY <3>1
      <3> QED BY <1>i, <2>4, <3>2 DEF CounterInv, Refused
    <2>5. CASE Holds(m)
      <3>1. m \notin Uploading /\ m \notin Charged BY <2>5 DEF Holds, Uploading, Charged
      <3>2. givenBack[m] = 0
        BY <2>5 DEF Holds, BooksInv, RemovalInv
      <3>3. Uploading' = Uploading \cup {m} /\ Charged' = Charged \cup {m}
        BY <2>3, <2>5, <3>2 DEF Holds, InUpload
      <3>4. /\ SumOver(Size, Uploading') = Size[m] + SumOver(Size, Uploading)
            /\ SumOver(Size, Charged') = Size[m] + SumOver(Size, Charged)
        BY <1>a, <1>p, <3>1, <3>3
      <3>5. /\ usage'.consumed[Lifetime] = usage.consumed[Lifetime]
            /\ usage'.reserved[Lifetime] = usage.reserved[Lifetime] + Size[m]
            /\ Limit = Unlimited \/ usage.consumed[Lifetime] + usage.reserved[Lifetime] + Size[m] <= Limit
        BY <2>5 DEF Holds
      <3> QED BY <1>i, <1>s, <1>u, <1>t, <2>2, <3>4, <3>5 DEF CounterInv
    <2>6. CASE GoesOn(m)
      <3>1. PICK pc \in InUpload : up' = [up EXCEPT ![m] = pc] BY <2>6 DEF GoesOn
      <3>2. m \in Uploading /\ (givenBack[m] = 0 => m \in Charged) /\ (m \in Charged => givenBack[m] = 0)
        BY <2>6 DEF GoesOn, Uploading, Charged, InUpload
      <3>3. Uploading' = Uploading /\ Charged' = Charged
        BY <2>3, <3>1, <3>2 DEF InUpload
      <3> QED BY <1>i, <2>6, <3>3 DEF CounterInv, GoesOn
    <2>7. CASE Settles(m, "committing", "COMMIT", "done", Size[m])
      <3>1. m \in Uploading BY <2>7 DEF Settles, Uploading
      <3>2. Uploading' = Uploading \ {m}
        <4>1. up' = [up EXCEPT ![m] = "done"] BY <2>7 DEF Settles
        <4>2. "done" \notin InUpload BY DEF InUpload
        <4> QED BY <2>3, <4>1, <4>2
      <3>3. Charged' = Charged BY <1>t, <2>1, <2>7 DEF Settles, Charged
      <3>4. SumOver(Size, Uploading') = SumOver(Size, Uploading) - Size[m] BY <1>b, <1>p, <3>1, <3>2
      <3>5. /\ usage'.consumed[Lifetime] = usage.consumed[Lifetime] + Size[m]
            /\ usage'.reserved[Lifetime] = usage.reserved[Lifetime] - Size[m]
        BY <2>7 DEF Settles
      <3> QED BY <1>i, <1>s, <1>u, <1>t, <2>2, <3>3, <3>4, <3>5 DEF CounterInv
    <2>8. CASE Settles(m, "releasing", "RELEASE", "failed", 0)
      <3>1. m \in Uploading BY <2>8 DEF Settles, Uploading
      <3>2. givenBack[m] = 0 BY <2>8 DEF Settles, BooksInv, RemovalInv
      <3>3. m \in Charged BY <2>8, <3>2 DEF Settles, Charged
      <3>4. Uploading' = Uploading \ {m} /\ Charged' = Charged \ {m}
        <4>1. up' = [up EXCEPT ![m] = "failed"] BY <2>8 DEF Settles
        <4>2. "failed" \notin InUpload BY DEF InUpload
        <4> QED BY <2>3, <4>1, <4>2
      <3>5. /\ SumOver(Size, Uploading') = SumOver(Size, Uploading) - Size[m]
            /\ SumOver(Size, Charged') = SumOver(Size, Charged) - Size[m]
        BY <1>b, <1>p, <3>1, <3>3, <3>4
      <3>6. /\ usage'.consumed[Lifetime] = usage.consumed[Lifetime] + 0
            /\ usage'.reserved[Lifetime] = usage.reserved[Lifetime] - Size[m]
        BY <2>8 DEF Settles
      <3> QED BY <1>i, <1>s, <1>u, <1>t, <2>2, <3>5, <3>6 DEF CounterInv
    <2> QED BY <1>1, <2>4, <2>5, <2>6, <2>7, <2>8, UploadEffects
  <1>2. ASSUME NEW d \in Deleters, GivesBack(d), UNCHANGED up PROVE CounterInv'
    <2> DEFINE m == rm[d].media
    <2>1. Erasing(d) /\ m \in Media
      BY <1>2 DEF GivesBack, Erasing, BooksInv, TypeInv, AtWork, Removing
    <2>2. givenBack[m] = 0 /\ up[m] \in {"committing", "done"}
      BY <2>1 DEF BooksInv, RemovalInv
    <2>3. \A k \in Media : givenBack'[k] = IF k = m THEN 1 ELSE givenBack[k]
      <3>1. givenBack' = [givenBack EXCEPT ![m] = @ + 1] BY <1>2 DEF GivesBack
      <3> HIDE DEF m
      <3> QED BY <1>t, <2>1, <2>2, <3>1
    <2>4. /\ usage'.reserved[Lifetime] = usage.reserved[Lifetime]
          /\ usage'.consumed[Lifetime] <= usage.consumed[Lifetime]
          /\ \/ usage'.consumed[Lifetime] = usage.consumed[Lifetime] - Size[m]
             \/ usage.consumed[Lifetime] < Size[m] /\ usage'.consumed[Lifetime] = 0
      BY <1>2 DEF GivesBack
    <2> HIDE DEF m
    <2>5. m \in Charged /\ Charged' = Charged \ {m} BY <1>2, <2>1, <2>2, <2>3 DEF Charged
    <2>6. SumOver(Size, Charged') = SumOver(Size, Charged) - Size[m] BY <1>b, <1>p, <2>5
    <2>7. Uploading' = Uploading BY <1>2 DEF Uploading
    <2>8. Size[m] \in Nat BY <2>1, SizeAssumption
    <2> QED BY <1>i, <1>s, <1>u, <1>t, <2>4, <2>6, <2>7, <2>8 DEF CounterInv
  <1>3. CASE UNCHANGED <<usage, up, givenBack>>
    BY <1>3, <1>i DEF CounterInv, Uploading, Charged
  <1>4. ASSUME NEW d \in Deleters, Remove(d) PROVE CounterInv'
    BY <1>2, <1>3, <1>4, RemovalEffects DEF Marks, Considers, Erases
  <1> QED BY <1>1, <1>3, <1>4, BookSteps

(* Nothing is uploaded, kept or charged at first. *)
LEMMA BooksInit == Init => BooksInv
  <1> SUFFICES ASSUME Init PROVE BooksInv OBVIOUS
  <1>1. TypeInv BY MediaTypeInit
  <1>2. Started = {} /\ Uploading = {} /\ Charged = {} BY DEF Init, Started, Uploading, Charged
  <1>3. usage.ledger = {} /\ usage.consumed[Lifetime] = 0 /\ usage.reserved[Lifetime] = 0
    BY DEF Init, NoUsage
  <1>4. LedgerInv
    <2>1. IsFiniteSet(Started) BY <1>2, FS_EmptySet
    <2>2. \A m \in Media : up[m] = "new" BY DEF Init
    <2> QED BY <1>2, <1>3, <2>1, <2>2 DEF LedgerInv, HasRow
  <1>5. RemovalInv
    BY DEF Init, RemovalInv, Erasing, Free, Busy
  <1>6. CounterInv
    <2>1. SumOver(Size, {}) = 0 BY SumOfNone
    <2>2. Limit = Unlimited \/ 0 <= Limit BY LimitAssumption
    <2> QED BY <1>2, <1>3, <2>1, <2>2 DEF CounterInv
  <1> QED BY <1>1, <1>4, <1>5, <1>6 DEF BooksInv

(* The books balance: only uploads in progress hold a reservation and the counter
   reserves just their bytes; what is kept is accounted for and within the limit;
   no media gives its bytes back twice, although a user and the purge may remove it
   at the same time.  It takes that no answer of a creation is lost, that a commit neither
   fails nor loses its answer, and that no reader quarantines a row deleted since it
   was read: each of the four breaks the balance (private-media.ts:97-99,
   storage-quota.ts:18-40, private-media.ts:114). *)
THEOREM StorageBalances == ASSUME Orderly PROVE Spec => []StorageBooksBalance
  <1>1. Init => BooksInv BY BooksInit
  <1>2. BooksInv /\ [Next]_vars => BooksInv'
    <2> SUFFICES ASSUME BooksInv, [Next]_vars PROVE BooksInv' OBVIOUS
    <2>1. TypeInv' BY TypeStep DEF BooksInv
    <2> QED BY <2>1, LedgerStep, RemovalStep, CounterStep DEF BooksInv
  <1>3. BooksInv => StorageBooksBalance
    <2> SUFFICES ASSUME BooksInv PROVE StorageBooksBalance OBVIOUS
    <2>b. \A S : Bytes(S) = SumOver(Size, S) BY DEF Bytes, SumOver
    <2>t. /\ up \in [Media -> {"new", "refused", "putting", "creating", "undoing", "committing",
                               "releasing", "done", "failed"}]
      BY DEF BooksInv, TypeInv, TypeOK
    <2>1. ReservedIsUploading
      <3>1. {m \in Media : OpenReservation(usage, m)} = Uploading
        BY <2>t DEF BooksInv, LedgerInv, OpenReservation, Uploading, Started
      <3> QED BY <2>b, <3>1 DEF ReservedIsUploading, BooksInv, CounterInv
    <2>2. KeptIsAccounted
      <3> DEFINE kept == {m \in Media : row[m] \in Kept}
      <3>1. kept \subseteq Charged
        BY DEF BooksInv, RemovalInv, Charged, Kept
      <3>2. Charged \subseteq Started BY DEF Charged, Started
      <3>3. SumOver(Size, kept) <= SumOver(Size, Charged)
        <4> HIDE DEF kept
        <4>1. IsFiniteSet(Charged) /\ \A m \in Charged : Size[m] \in Nat BY <3>2, SumsAreFinite
        <4> QED BY <3>1, <4>1, SumOfPart
      <3>4. SumOver(Size, kept) \in Nat /\ SumOver(Size, Charged) \in Nat
        <4> HIDE DEF kept
        <4>1. kept \subseteq Started BY <3>1, <3>2
        <4> QED BY <3>2, <4>1, SumsAreFinite
      <3>5. /\ usage.consumed[Lifetime] \in Nat /\ usage.reserved[Lifetime] \in Nat
        BY DEF BooksInv, TypeInv, MediaUsage
      <3>6. Bytes(kept) = SumOver(Size, kept) BY <2>b
      <3>7. /\ SumOver(Size, Charged) <= usage.consumed[Lifetime] + usage.reserved[Lifetime]
            /\ Limit = Unlimited \/ usage.consumed[Lifetime] + usage.reserved[Lifetime] <= Limit
        BY DEF BooksInv, CounterInv
      <3>8. Bytes(kept) <= usage.consumed[Lifetime] + usage.reserved[Lifetime]
        <4> HIDE DEF kept
        <4> QED BY <3>3, <3>4, <3>5, <3>6, <3>7
      <3> QED BY <3>7, <3>8 DEF KeptIsAccounted
    <2>3. GivenBackOnce BY DEF BooksInv, RemovalInv, GivenBackOnce
    <2> QED BY <2>1, <2>2, <2>3 DEF StorageBooksBalance
  <1> QED BY <1>1, <1>2, <1>3, PTL DEF Spec
=============================================================================
