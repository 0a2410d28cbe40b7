---------------------------- MODULE DeliveryDrain ----------------------------
(***************************************************************************)
(* What the delivery queue promises to the shutdown, without its slots and *)
(* jobs: work is under way or it is not, and a drain is over exactly when  *)
(* nothing is under way (drainWebhookDeliveries of                         *)
(* src/modules/webhooks/webhooks.service.ts).                              *)
(***************************************************************************)
CONSTANTS Tips,   \* the tips handed to enqueueWebhookDispatch
          Pings   \* the calls of POST /:id/ping

VARIABLES begun,  \* the work that was ever taken on
          busy,   \* the part of it that is under way
          phase   \* "up", "draining", "closed" or "dead"

drainVars == <<begun, busy, phase>>

DrainInit == begun = {} /\ busy = {} /\ phase = "up"

(* A tip comes before the drain, a ping at any time.                       *)
BeginWork(w) ==
  /\ phase # "dead"
  /\ w \in Tips => phase = "up"
  /\ w \notin begun
  /\ begun' = begun \cup {w}
  /\ busy' = busy \cup {w}
  /\ UNCHANGED phase

(* The last to end is what a drain waits for.                              *)
EndWork(w) ==
  /\ phase # "dead"
  /\ w \in busy
  /\ busy' = busy \ {w}
  /\ phase' = IF phase = "draining" /\ busy' = {} THEN "closed" ELSE phase
  /\ UNCHANGED begun

StartDrain ==
  /\ phase = "up"
  /\ phase' = IF busy = {} THEN "closed" ELSE "draining"
  /\ UNCHANGED <<begun, busy>>

Die ==
  /\ phase # "dead"
  /\ phase' = "dead"
  /\ UNCHANGED <<begun, busy>>

DrainNext == \/ \E w \in Tips \cup Pings : BeginWork(w) \/ EndWork(w)
             \/ StartDrain
             \/ Die

DrainSpec == DrainInit /\ [][DrainNext]_drainVars
=============================================================================
