---------------------------- MODULE MCMediaPlane ----------------------------
(***************************************************************************)
(* Instances of MediaPlane: three participants announced one after the     *)
(* other over two shards, so that the first and the third share a shard.   *)
(* A behaviour either has its members change their minds, or traffic, or   *)
(* speakers in plenty; the budgets say how much of which.                  *)
(***************************************************************************)
EXTENDS MediaPlane

CONSTANTS p1, p2, p3, mic, cam

MCKind == mic :> "audio" @@ cam :> "video"
MCLineKind == 0 :> "audio" @@ 1 :> "video"
MCRefs == {<<p1, mic>>, <<p1, cam>>}
MCRoster == <<p1, p2, p3>>
MCBatches == {<<mic, cam>>}
MCWantSets == {{}, {<<p1, cam>>}}
MCOffers == {{0, 1}, {0}}
MCLoudness == p1 :> 1 @@ p2 :> 3 @@ p3 :> 2

Events == {"Joined", "PublisherOffer", "SubscriberAnswer", "TracksPublished",
           "SubscriptionsChanged", "Left"}
Budget(start, types, e, n, d, v, l) ==
  [settled |-> start, types |-> types, events |-> e, posts |-> n, drops |-> d, voices |-> v,
   talk |-> v > 0, lag |-> l]
MCBudgets == {Budget(FALSE, Events, 4, 0, 0, 0, 0), Budget(TRUE, Events, 2, 0, 0, 0, 2),
              Budget(TRUE, Events, 1, 1, 0, 0, 0), Budget(TRUE, {}, 0, 2, 1, 0, 0),
              Budget(TRUE, {"Left"}, 1, 0, 0, 1, 0), Budget(TRUE, {}, 0, 0, 0, 2, 0),
              Budget(FALSE, {"Joined", "PublisherOffer"}, 3, 1, 0, 0, 8)}
=============================================================================
