----------------------------- MODULE MCServices -----------------------------
(***************************************************************************)
(* Instances for TLC of what users call: campaigns with their broadcasts,  *)
(* signing in, and the rate limit.  A behaviour is one of the scene chosen *)
(* in its initial state.  The scenes of broadcasts and campaigns say who   *)
(* takes part, as all actors at once are too many:                         *)
(*   "create"    requests that create one broadcast at the same time;      *)
(*   "send"      two workers that send one broadcast to two recipients,    *)
(*               while it is paused, resumed, cancelled and deleted;       *)
(*   "renew"     the same with one recipient, and the key used again;      *)
(*   "activate"  requests that edit and activate one campaign at once;     *)
(*   "launch"    two workers that hand off one campaign at once;           *)
(*   "campaign"  a campaign from its draft to its last recipient, with one *)
(*               request, one worker that hands off and one that sends.    *)
(* When its broadcast is deleted, "send" ends, while "renew" and           *)
(* "campaign" go on with the next row of the same key.                     *)
(***************************************************************************)
EXTENDS Campaigns, SignIn, RateLimits

CONSTANTS
  Scenes,          \* what a run takes: some of the scenes, "signin", "limits"
  w1, c1, r1, b1, k1

VARIABLE scene  \* the scene of this behaviour

serviceVars == <<scene, broadcastVars, campaignVars, signInVars, limitVars>>
-----------------------------------------------------------------------------
ServicesInit ==
  /\ scene \in Scenes
  /\ BroadcastInit /\ CampaignInit /\ SignInInit /\ LimitInit

(* Nobody but these changes its state, and nothing else is created. *)
OnScene(creators, broadcasters, planners, launchers, reached) ==
  /\ \A c \in Callers \ creators : creator'[c] = creator[c]
  /\ \A w \in Workers \ broadcasters : broadcaster'[w] = broadcaster[w]
  /\ \A c \in Callers \ planners : planner'[c] = planner[c]
  /\ \A w \in Workers \ launchers : launcher'[w] = launcher[w]
  /\ \A r \in Recipients \ reached, b \in Broadcasts : recipients'[b][r] \in {"none", "SKIPPED"}

(* Bounds: what one scene shows is left out of the others; outside the scenes about
   quotas the workers begin when the quota is committed. *)
SceneBounds(s) ==
  /\ s \in {"send", "renew"} => refused' = {}
  /\ s = "send" => \A b \in Broadcasts : deletions[b] = 0 \/ creator' = creator
  /\ s = "campaign" =>
       /\ \A c \in Callers : planner'[c].pc \notin {"raced", "releasing"}
       /\ \A w \in Workers : launcher'[w].pc \notin {"failing", "denied"}
  /\ s \in {"create", "activate"} \/ "committed" \in {quota[b1], reserved[k1][1]}
       \/ UNCHANGED <<broadcaster, launcher>>
  /\ s # "activate" => \A k \in Campaigns : campaigns'[k].version = 1

Play(s, creators, broadcasters, planners, launchers, reached, kinds) ==
  /\ scene = s /\ CampaignNext
  /\ OnScene(creators, broadcasters, planners, launchers, reached)
  /\ kinds = "broadcast" => campaigns' = campaigns
  /\ kinds = "campaign" => quota' = quota
  /\ SceneBounds(s)
  /\ UNCHANGED <<scene, signInVars, limitVars>>

PlayBroadcasts ==
  \/ Play("create", Callers, {}, {}, {}, {r1}, "broadcast")
  \/ Play("send", {c1}, Workers, {}, {}, Recipients, "broadcast")
  \/ Play("renew", {c1}, Workers, {}, {}, {r1}, "broadcast")
  \/ Play("activate", {}, {}, Callers, {}, {r1}, "campaign")
  \/ Play("launch", {}, {}, {c1}, Workers, {r1}, "campaign")
  \/ Play("campaign", {}, Workers \ Mortal, {c1}, Workers \ Mortal, {r1}, "campaign")

(* Bound: two codes and reset tokens together. *)
PlaySignIn ==
  /\ scene = "signin" /\ SignInNext
  /\ Len(codes') + Len(tokens') <= 2
  /\ UNCHANGED <<scene, broadcastVars, campaignVars, limitVars>>

PlayLimits ==
  /\ scene = "limits" /\ LimitNext
  /\ UNCHANGED <<scene, broadcastVars, campaignVars, signInVars>>

ServicesNext == PlayBroadcasts \/ PlaySignIn \/ PlayLimits

ServicesSpec == ServicesInit /\ [][ServicesNext]_serviceVars
-----------------------------------------------------------------------------
(* Every row is of its table's type. *)
ServicesTypeOK == CampaignTypeOK /\ SignInTypeOK /\ LimitTypeOK
=============================================================================
