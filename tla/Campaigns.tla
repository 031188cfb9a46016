----------------------------- MODULE Campaigns -----------------------------
(***************************************************************************)
(* Campaigns: drafts in versions, activated against the quota, paused,     *)
(* resumed and cancelled (src/lib/campaign-service.ts), handed off as a    *)
(* broadcast and reconciled with it (src/lib/campaign-queue.ts,            *)
(* src/campaign/campaign-worker.ts).  The broadcast of a campaign is the   *)
(* one of its name in Broadcasts; its own steps go on beside.              *)
(***************************************************************************)
EXTENDS Broadcasts

CONSTANTS
  MaxDrafts,            \* bound on the versions of a draft
  MaxLaunches           \* MAX_CAMPAIGN_MATERIALIZE_ATTEMPTS

ASSUME CampaignAssumption == MaxDrafts \in Nat \ {0} /\ MaxLaunches \in Nat \ {0}

VARIABLES
  campaigns,  \* Campaign rows
  reserved,   \* the usage reservation of a campaign and version
  planner,    \* per request: what it has read and is about to write
  launcher    \* per worker: its loop, its claim and what it has read

campaignVars == <<campaigns, reserved, planner, launcher>>

NoCampaign == [status |-> "none", version |-> 1, launches |-> 0, lock |-> Nobody, lease |-> "none"]
PlannerAt(pc) == [pc |-> pc, campaign |-> "no campaign", status |-> "none", version |-> 0, handed |-> 0, target |-> "none"]
LauncherAt(pc) == [pc |-> pc, campaign |-> "no campaign", launches |-> 0, target |-> "none"]

CampaignInit ==
  /\ campaigns = [k \in Campaigns |-> NoCampaign]
  /\ reserved = [k \in Campaigns |-> [v \in 1..MaxDrafts |-> "none"]]
  /\ planner = [c \in Callers |-> PlannerAt("idle")]
  /\ launcher = [w \in Workers |-> LauncherAt("idle")]

HandedOff(k) == ~BroadcastIs(k, {"none"})

(* The broadcast of a campaign as a relation: the id of its row, 0 for none. *)
BroadcastOf(k) == IF HandedOff(k) THEN RowId(k) ELSE 0
CampaignIs(k, statuses) == campaigns[k].status \in statuses
PlannerGoes(c, pc) == planner' = [planner EXCEPT ![c].pc = pc]
PlannerRests(c) == planner' = [planner EXCEPT ![c] = PlannerAt("idle")]
-----------------------------------------------------------------------------
(* createCampaign; the createKey is unique. *)
CreateCampaign(k) ==
  /\ CampaignIs(k, {"none"})
  /\ campaigns' = [campaigns EXCEPT ![k].status = "DRAFT"]
  /\ UNCHANGED <<reserved, planner, launcher, broadcastVars>>

(* findCampaign, at the head of every operation: what it returns decides, and
   meets the row again only in the transaction.  (The target of a resumption is
   SCHEDULED when nothing has been handed off and the time has not come.) *)
Allowed(target) ==
  CASE target \in {"edited", "activated"} -> {"DRAFT"}
    [] target = "PAUSED" -> {"SCHEDULED", "QUEUED", "RUNNING"}
    [] target \in {"QUEUED", "SCHEDULED"} -> {"PAUSED", "FAILED"}
    [] target = "CANCELLED" -> {"DRAFT", "SCHEDULED", "QUEUED", "RUNNING", "PAUSED", "FAILED"}

ReadCampaign(c, k) ==
  /\ planner[c].pc = "idle"
  /\ \E target \in {"edited", "activated", "PAUSED", "QUEUED", "SCHEDULED", "CANCELLED"} :
       /\ CampaignIs(k, Allowed(target))
       /\ target = "SCHEDULED" => ~HandedOff(k)
       /\ planner' = [planner EXCEPT ![c] =
            [pc |-> "read", campaign |-> k, target |-> target, status |-> campaigns[k].status,
             version |-> IF target \in {"edited", "activated"} THEN campaigns[k].version ELSE 0,
             handed |-> BroadcastOf(k)]]
  /\ UNCHANGED <<campaigns, reserved, launcher, broadcastVars>>

(* updateCampaignDraft: the version read must still be the current one. *)
EditDraft(c) ==
  LET k == planner[c].campaign
  IN /\ planner[c].pc = "read" /\ planner[c].target = "edited"
     /\ \/ /\ CampaignIs(k, {"DRAFT"}) /\ campaigns[k].version = planner[c].version
           /\ campaigns[k].version < MaxDrafts
           /\ campaigns' = [campaigns EXCEPT ![k].version = @ + 1]
        \/ ~(CampaignIs(k, {"DRAFT"}) /\ campaigns[k].version = planner[c].version) /\ UNCHANGED campaigns
     /\ PlannerRests(c)
     /\ UNCHANGED <<reserved, launcher, broadcastVars>>

(* activateCampaign: the quota of the version read is reserved, *)
ReserveCampaign(c) ==
  LET p == planner[c]
  IN /\ p.pc = "read" /\ p.target = "activated"
     /\ reserved' = [reserved EXCEPT ![p.campaign][p.version] = ReservedKey(@)]
     /\ PlannerGoes(c, "activating")
     /\ UNCHANGED <<campaigns, launcher, broadcastVars>>

Activatable(c) ==
  /\ CampaignIs(planner[c].campaign, {"DRAFT"})
  /\ campaigns[planner[c].campaign].version = planner[c].version

(* the campaign becomes active, unless it was edited or another request did it, or
   the call throws; *)
ActivateCampaign(c) ==
  LET p == planner[c]
  IN /\ p.pc = "activating"
     /\ \/ /\ Activatable(c)
           /\ \E status \in {"SCHEDULED", "QUEUED"} : campaigns' = [campaigns EXCEPT ![p.campaign].status = status]
           /\ PlannerGoes(c, "settling")
        \/ ~Activatable(c) /\ PlannerGoes(c, "raced") /\ UNCHANGED campaigns
        \/ PlannerGoes(c, "releasing") /\ UNCHANGED campaigns
     /\ UNCHANGED <<reserved, launcher, broadcastVars>>

(* who lost the race looks whether the campaign is active, *)
LookAtRace(c) ==
  LET p == planner[c]
      active == CampaignIs(p.campaign, {"SCHEDULED", "QUEUED", "RUNNING", "PAUSED", "COMPLETED"})
  IN /\ p.pc = "raced"
     /\ PlannerGoes(c, IF active THEN "settling" ELSE "releasing")
     /\ UNCHANGED <<campaigns, reserved, launcher, broadcastVars>>

(* and the quota is committed, or given back. *)
SettleCampaign(c) ==
  LET p == planner[c]
      as == IF p.pc = "settling" THEN "committed" ELSE "released"
  IN /\ p.pc \in {"settling", "releasing"}
     /\ reserved' \in {reserved, [reserved EXCEPT ![p.campaign][p.version] = SettledKey(@, as)]}
     /\ PlannerRests(c)
     /\ UNCHANGED <<campaigns, launcher, broadcastVars>>

(* updateCampaignState: pause, resumption and cancellation of the campaign in the
   state that was read, and of the broadcast that was read. *)
MoveBroadcast(k, target) ==
  CASE target = "PAUSED" /\ BroadcastIs(k, {"QUEUED", "RUNNING"}) -> broadcasts' = Becomes(k, "PAUSED") /\ UNCHANGED recipients
    [] target = "QUEUED" /\ BroadcastIs(k, {"PAUSED", "FAILED"}) -> broadcasts' = Becomes(k, "QUEUED") /\ UNCHANGED recipients
    [] target = "CANCELLED" /\ BroadcastIs(k, Stoppable) -> Stopped(k)
    [] OTHER -> UNCHANGED <<broadcasts, recipients>>

UpdateCampaign(c) ==
  LET p == planner[c]  k == p.campaign
  IN /\ p.pc = "read" /\ p.target \notin {"edited", "activated"}
     /\ IF campaigns[k].status = p.status
        THEN /\ campaigns' = [campaigns EXCEPT ![k] =
                  [Released(campaigns[k]) EXCEPT !.status = p.target,
                    !.launches = IF p.target \in {"QUEUED", "SCHEDULED"} THEN 0 ELSE campaigns[k].launches]]
             /\ MoveBroadcast(k, IF p.handed = RowId(k) THEN p.target ELSE "nothing")
        ELSE UNCHANGED <<campaigns, broadcasts, recipients>>
     /\ PlannerRests(c)
     /\ UNCHANGED <<reserved, launcher, handed, broadcaster, reported, quota, creator, refused, deletions, ended>>
-----------------------------------------------------------------------------
LauncherGoes(w, pc) == launcher' = [launcher EXCEPT ![w].pc = pc]
LauncherRests(w) == launcher' = [launcher EXCEPT ![w] = LauncherAt("idle")]
CampaignOf(w) == campaigns[launcher[w].campaign]

(* claimNextDueCampaign. *)
ClaimCampaign(w) ==
  /\ launcher[w].pc = "idle"
  /\ \E k \in Campaigns :
       /\ CampaignIs(k, {"SCHEDULED", "QUEUED"})
       /\ campaigns[k].lock = Nobody \/ campaigns[k].lease = "expired"
       /\ LET n == IF campaigns[k].launches < MaxLaunches THEN campaigns[k].launches + 1 ELSE MaxLaunches
          IN /\ campaigns' = [campaigns EXCEPT ![k] = [Claimed(campaigns[k], w) EXCEPT !.status = "QUEUED", !.launches = n]]
             /\ launcher' = [launcher EXCEPT ![w] =
                  [LauncherAt("claimed") EXCEPT !.campaign = k, !.launches = n]]
  /\ UNCHANGED <<reserved, planner, broadcastVars>>

(* recoverExistingHandoff: a broadcast that exists is not created again; its status,
   as it was read, becomes that of the campaign, under the token alone.  When the
   creation has met one that is gone again, the error goes on. *)
Mirrored(k) == IF BroadcastIs(k, {"COMPLETED", "PAUSED", "CANCELLED", "FAILED"}) THEN broadcasts[k].status ELSE "RUNNING"

LookForHandoff(w) ==
  LET k == launcher[w].campaign
  IN /\ launcher[w].pc \in {"claimed", "raced"}
     /\ launcher' = [launcher EXCEPT
          ![w].pc = IF HandedOff(k) THEN "recovering" ELSE IF @ = "claimed" THEN "preparing" ELSE "failing",
          ![w].target = IF HandedOff(k) THEN Mirrored(k) ELSE "none"]
     /\ UNCHANGED <<campaigns, reserved, planner, broadcastVars>>

RecoverHandoff(w) ==
  LET k == launcher[w].campaign
  IN /\ launcher[w].pc = "recovering"
     /\ campaigns' = IF CampaignOf(w).lock = w
                     THEN [campaigns EXCEPT ![k] = [Released(campaigns[k]) EXCEPT !.status = launcher[w].target]]
                     ELSE campaigns
     /\ LauncherRests(w)
     /\ UNCHANGED <<reserved, planner, broadcastVars>>

(* Faulty variant of OwnsCampaign: the claim is not looked at again. *)
OwnsAnyCampaign(w) == TRUE
OwnsCampaign(w) == CampaignOf(w).status = "QUEUED" /\ CampaignOf(w).lock = w

(* materializeClaimedCampaign: the heartbeat, the entitlement, the device, the media. *)
PrepareHandoff(w) ==
  /\ launcher[w].pc = "preparing"
  /\ IF OwnsCampaign(w)
     THEN /\ campaigns' = [campaigns EXCEPT ![launcher[w].campaign].lease = "live"]
          /\ \E pc \in {"launching", "failing", "denied"} : LauncherGoes(w, pc)
     ELSE LauncherRests(w) /\ UNCHANGED campaigns
  /\ UNCHANGED <<reserved, planner, broadcastVars>>

(* One serializable transaction: the claim, the broadcast (P2002 when there is one,
   which nobody else can have made under this claim), and the campaign RUNNING, or
   COMPLETED when everybody is suppressed. *)
HandOff(w) ==
  LET k == launcher[w].campaign
  IN /\ launcher[w].pc = "launching"
     /\ \/ ~OwnsCampaign(w) /\ LauncherRests(w) /\ UNCHANGED <<campaigns, broadcasts, recipients>>
        \/ /\ OwnsCampaign(w) /\ ~HandedOff(k) /\ NewBroadcast(k)
           /\ campaigns' = [campaigns EXCEPT ![k] =
                [Released(campaigns[k]) EXCEPT
                   !.status = IF broadcasts'[k].status = "COMPLETED" THEN "COMPLETED" ELSE "RUNNING"]]
           /\ LauncherRests(w)
        \/ OwnsCampaign(w) /\ HandedOff(k) /\ LauncherGoes(w, "raced") /\ UNCHANGED <<campaigns, broadcasts, recipients>>
        \/ LauncherGoes(w, "failing") /\ UNCHANGED <<campaigns, broadcasts, recipients>>
     /\ UNCHANGED <<reserved, planner, handed, broadcaster, reported, quota, creator, refused, deletions, ended>>

FailCampaign(w) ==
  LET terminal == launcher[w].pc = "denied" \/ launcher[w].launches >= MaxLaunches
  IN /\ launcher[w].pc \in {"failing", "denied"}
     /\ \/ /\ OwnsCampaign(w)
           /\ campaigns' = [campaigns EXCEPT ![launcher[w].campaign] =
                [Released(CampaignOf(w)) EXCEPT !.status = IF terminal THEN "FAILED" ELSE "QUEUED"]]
        \/ UNCHANGED campaigns
     /\ LauncherRests(w)
     /\ UNCHANGED <<reserved, planner, broadcastVars>>

(* reconcileActiveCampaigns lists the campaigns that run or are paused, *)
ListActive(w) ==
  /\ launcher[w].pc = "idle"
  /\ \E k \in Campaigns :
       /\ CampaignIs(k, {"RUNNING", "PAUSED"}) /\ HandedOff(k)
       /\ launcher' = [launcher EXCEPT ![w] = [LauncherAt("listed") EXCEPT !.campaign = k]]
  /\ UNCHANGED <<campaigns, reserved, planner, broadcastVars>>

(* reconcileCampaign reads each with its broadcast, *)
ReadActive(w) ==
  LET k == launcher[w].campaign
  IN /\ launcher[w].pc = "listed"
     /\ IF CampaignIs(k, {"CANCELLED"}) \/ ~HandedOff(k) THEN LauncherRests(w)
        ELSE launcher' = [launcher EXCEPT ![w].pc = "reconciling",
                            ![w].target = IF CampaignIs(k, {"PAUSED"}) THEN "PAUSED" ELSE Mirrored(k)]
     /\ UNCHANGED <<campaigns, reserved, planner, broadcastVars>>

(* Faulty variant of Reconciled: a broadcast that has ended ends the campaign. *)
ReconciledDone(w) == IF launcher[w].target = "RUNNING" THEN "RUNNING" ELSE "COMPLETED"
Reconciled(w) == launcher[w].target

(* and writes the status by the id alone. *)
WriteActive(w) ==
  /\ launcher[w].pc = "reconciling"
  /\ campaigns' = [campaigns EXCEPT ![launcher[w].campaign].status = Reconciled(w)]
  /\ LauncherRests(w)
  /\ UNCHANGED <<reserved, planner, broadcastVars>>

HeartbeatCampaign(w) ==
  /\ launcher[w].pc \in {"claimed", "raced", "recovering", "preparing", "launching", "failing", "denied"}
  /\ OwnsCampaign(w) /\ CampaignOf(w).lease = "expired"
  /\ campaigns' = [campaigns EXCEPT ![launcher[w].campaign].lease = "live"]
  /\ UNCHANGED <<reserved, planner, launcher, broadcastVars>>

(* recoverCampaignsForWorker. *)
StopLauncher(w) ==
  /\ w \in Mortal /\ launcher[w].pc = "idle"
  /\ campaigns' = [k \in Campaigns |->
       IF CampaignIs(k, {"QUEUED"}) /\ campaigns[k].lock = w THEN Released(campaigns[k]) ELSE campaigns[k]]
  /\ launcher' = [launcher EXCEPT ![w] = LauncherAt("stopped")]
  /\ UNCHANGED <<reserved, planner, broadcastVars>>

KillLauncher(w) ==
  /\ w \in Mortal /\ launcher[w].pc \notin Gone
  /\ launcher' = [launcher EXCEPT ![w] = LauncherAt("dead")]
  /\ UNCHANGED <<campaigns, reserved, planner, broadcastVars>>

CampaignLeaseExpires(k) ==
  /\ campaigns[k].lease = "live"
  /\ campaigns' = [campaigns EXCEPT ![k].lease = "expired"]
  /\ UNCHANGED <<reserved, planner, launcher, broadcastVars>>

LauncherStep(w) ==
  \/ ClaimCampaign(w) \/ LookForHandoff(w) \/ RecoverHandoff(w) \/ PrepareHandoff(w) \/ HandOff(w)
  \/ FailCampaign(w) \/ ListActive(w) \/ ReadActive(w) \/ WriteActive(w)

CampaignStep ==
  \/ \E w \in Workers : LauncherStep(w) \/ HeartbeatCampaign(w) \/ StopLauncher(w) \/ KillLauncher(w)
  \/ \E c \in Callers :
       \/ EditDraft(c) \/ ReserveCampaign(c) \/ ActivateCampaign(c) \/ LookAtRace(c)
       \/ SettleCampaign(c) \/ UpdateCampaign(c)
       \/ \E k \in Campaigns : ReadCampaign(c, k)
  \/ \E k \in Campaigns : CreateCampaign(k) \/ CampaignLeaseExpires(k)

CampaignNext == CampaignStep \/ (BroadcastNext /\ UNCHANGED campaignVars)

CampaignSpec == CampaignInit /\ BroadcastInit /\ [][CampaignNext]_<<campaignVars, broadcastVars>>
-----------------------------------------------------------------------------
CampaignTypeOK ==
  /\ \A k \in Campaigns :
       /\ campaigns[k].status \in {"none", "DRAFT", "SCHEDULED", "QUEUED", "RUNNING", "PAUSED", "COMPLETED", "CANCELLED", "FAILED"}
       /\ campaigns[k].version \in 1..MaxDrafts /\ campaigns[k].launches \in 0..MaxLaunches
       /\ (campaigns[k].lock = Nobody) <=> (campaigns[k].lease = "none")
  /\ BroadcastTypeOK

(* A campaign is what its broadcast is: RUNNING means handed off, and COMPLETED that
   every recipient was handed over, however stale what a worker reconciles.  But a
   user may delete the broadcast, like any other that has ended (broadcast-service.ts:
   427-447): a campaign that was not yet reconciled is RUNNING for ever without one,
   and one that was paused is handed off again, to everyone, when it is resumed. *)
CampaignFollowsBroadcast ==
  \A k \in Campaigns :
    /\ CampaignIs(k, {"RUNNING", "COMPLETED"}) => HandedOff(k) \/ deletions[k] > 0
    /\ CampaignIs(k, {"COMPLETED"}) => BroadcastIs(k, {"COMPLETED"}) \/ k \in ended

(* A draft sends nothing, and a campaign that has left the draft is in the version
   whose quota was reserved when it was activated, however many requests edited and
   activated it at once.  (As for a broadcast, an activation that threw has given that
   quota back for good.) *)
CampaignHoldsQuota ==
  \A k \in Campaigns :
    /\ CampaignIs(k, {"none", "DRAFT"}) => ~HandedOff(k)
    /\ CampaignIs(k, {"SCHEDULED", "QUEUED", "RUNNING", "PAUSED", "COMPLETED", "FAILED"}) \/ HandedOff(k)
         => reserved[k][campaigns[k].version] # "none"

(* What broadcasts and campaigns send is on a quota they hold. *)
QuotaIsHeld == BroadcastHoldsQuota /\ CampaignHoldsQuota
=============================================================================
