--------------------------- MODULE WebhookRegistry ---------------------------
(***************************************************************************)
(* The webhooks of a creator (src/modules/webhooks/webhooks.service.ts):   *)
(* registration under the cap, the enabled flag, rotation, deletion, the   *)
(* migration of secrets at startup, and the deliveries that use them, from *)
(* the dispatch that reads a webhook to the row of its attempt, which      *)
(* RetentionPruner deletes.  Every query names the creator: one creator.   *)
(* A webhook has the name of the request that registers it.                *)
(***************************************************************************)
EXTENDS Integers, FiniteSets

CONSTANTS Legacy,       \* webhooks registered before secrets were encrypted
          Creates,      \* the requests to register one
          Rotations,    \* the requests to rotate a secret
          Processes,    \* they overlap while a deployment replaces one
          Tips,
          WebhookLimit  \* maxPerCreator, 0 for none

Hooks == Legacy \cup Creates

(* The attempt at a webhook for a tip.                                     *)
Rows == Tips \X Hooks

ASSUME RegistryAssumption ==
  /\ IsFiniteSet(Hooks)
  /\ Legacy \cap Creates = {} /\ Hooks \cap Rotations = {}
  /\ WebhookLimit \in Nat

VARIABLES
  webhooks,   \* the rows of the creator
  enabled,    \* those with the flag
  secret,     \* the column: who minted the secret, and whether it is sealed
  create,     \* how far a registration got
  overlap,    \* history: the most registrations that were counted for at once
  rotated,    \* the rotations done
  minted,     \* who minted the secret shown last for a webhook
  process,    \* how far a process got
  legacyRows, \* what its migration has still to do, with the secret it read
  job,        \* how far a delivery got
  signing,    \* the secret a queued delivery carries
  attempts,   \* the WebhookDelivery rows
  refused     \* the webhooks whose deletion was answered by an error

hookVars == <<webhooks, enabled, secret, minted>>
callVars == <<create, overlap, rotated, refused>>
jobVars == <<job, signing, attempts>>
startVars == <<process, legacyRows>>
vars == <<hookVars, callVars, jobVars, startVars>>

Secrets == [by : Hooks \cup Rotations, sealed : BOOLEAN]

(* The server listens once its migration is over.                          *)
Serving == \E p \in Processes : process[p] = "up"

Init ==
  /\ webhooks = Legacy /\ enabled = Legacy
  /\ secret = [h \in Hooks |-> [by |-> h, sealed |-> FALSE]]
  /\ create = [c \in Creates |-> "none"]
  /\ overlap = 0 /\ rotated = {} /\ refused = {}
  /\ minted = [h \in Hooks |-> h]
  /\ process = [p \in Processes |-> "down"]
  /\ legacyRows = [p \in Processes |-> {}]
  /\ job = [r \in Rows |-> "none"]
  /\ signing = [r \in Rows |-> secret[r[2]]]
  /\ attempts = {}

-----------------------------------------------------------------------------
(* Startup.                                                                *)

LegacyHooks == {h \in webhooks : ~secret[h].sealed}

ReadLegacyRows(p) ==
  /\ process[p] = "down"
  /\ legacyRows' = [legacyRows EXCEPT ![p] = {<<h, secret[h]>> : h \in LegacyHooks}]
  /\ process' = [process EXCEPT ![p] = "migrating"]
  /\ UNCHANGED <<hookVars, callVars, jobVars>>

\* Faulty variant: the update names the webhook only.
MigrateRow_NoCompare(p) ==
  /\ process[p] = "migrating"
  /\ \E row \in legacyRows[p] :
       /\ legacyRows' = [legacyRows EXCEPT ![p] = @ \ {row}]
       /\ secret' = IF row[1] \in webhooks
                    THEN [secret EXCEPT ![row[1]] = [row[2] EXCEPT !.sealed = TRUE]] ELSE secret
  /\ UNCHANGED <<webhooks, enabled, minted, callVars, jobVars, process>>

(* The update finds the row only while it holds the secret that was read.  *)
MigrateRow(p) ==
  /\ process[p] = "migrating"
  /\ \E row \in legacyRows[p] :
       /\ legacyRows' = [legacyRows EXCEPT ![p] = @ \ {row}]
       /\ secret' = IF row[1] \in webhooks /\ secret[row[1]] = row[2]
                    THEN [secret EXCEPT ![row[1]].sealed = TRUE] ELSE secret
  /\ UNCHANGED <<webhooks, enabled, minted, callVars, jobVars, process>>

\* Faulty variant: the server does not wait for the migration.
Listen_Early(p) ==
  /\ process[p] = "migrating"
  /\ process' = [process EXCEPT ![p] = "up"]
  /\ UNCHANGED <<hookVars, callVars, jobVars, legacyRows>>

Listen(p) ==
  /\ process[p] = "migrating" /\ legacyRows[p] = {}
  /\ process' = [process EXCEPT ![p] = "up"]
  /\ UNCHANGED <<hookVars, callVars, jobVars, legacyRows>>

(* An error of the migration ends the process before it serves.            *)
MigrationFails(p) ==
  /\ process[p] = "migrating"
  /\ process' = [process EXCEPT ![p] = "down"]
  /\ legacyRows' = [legacyRows EXCEPT ![p] = {}]
  /\ UNCHANGED <<hookVars, callVars, jobVars>>

-----------------------------------------------------------------------------
(* The requests of the creator.                                            *)

\* Faulty variant: off by one at the cap.
UnderLimit_OffByOne == WebhookLimit = 0 \/ Cardinality(webhooks) <= WebhookLimit

UnderLimit == WebhookLimit = 0 \/ Cardinality(webhooks) < WebhookLimit

Counted == {c \in Creates : create[c] = "counted"}

(* createWebhook counts and inserts in one transaction, which at READ      *)
(* COMMITTED does not see a row that another inserts in between.           *)
CountWebhooks(c) ==
  /\ Serving
  /\ create[c] = "none"
  /\ create' = [create EXCEPT ![c] = IF UnderLimit THEN "counted" ELSE "over"]
  /\ overlap' = IF Cardinality(Counted') > overlap THEN Cardinality(Counted') ELSE overlap
  /\ UNCHANGED <<hookVars, rotated, refused, jobVars, startVars>>

InsertWebhook(c) ==
  /\ Serving
  /\ create[c] = "counted"
  /\ create' = [create EXCEPT ![c] = "over"]
  /\ \/ /\ webhooks' = webhooks \cup {c} /\ enabled' = enabled \cup {c}
        /\ secret' = [secret EXCEPT ![c] = [by |-> c, sealed |-> TRUE]]
        /\ UNCHANGED minted
     \/ UNCHANGED hookVars
  /\ UNCHANGED <<overlap, rotated, refused, jobVars, startVars>>

SetWebhookEnabled(h) ==
  /\ Serving
  /\ h \in webhooks
  /\ enabled' \in {enabled \cup {h}, enabled \ {h}}
  /\ UNCHANGED <<webhooks, secret, minted, callVars, jobVars, startVars>>

RotateWebhookSecret(r, h) ==
  /\ Serving
  /\ h \in webhooks /\ r \notin rotated
  /\ rotated' = rotated \cup {r}
  /\ secret' = [secret EXCEPT ![h] = [by |-> r, sealed |-> TRUE]]
  /\ minted' = [minted EXCEPT ![h] = r]
  /\ UNCHANGED <<webhooks, enabled, create, overlap, refused, jobVars, startVars>>

(* The foreign key of WebhookDelivery restricts the deletion.              *)
DeleteWebhook(h) ==
  /\ Serving
  /\ h \in webhooks
  /\ \/ /\ attempts \cap (Tips \X {h}) = {}
        /\ webhooks' = webhooks \ {h} /\ enabled' = enabled \ {h}
        /\ UNCHANGED refused
     \/ /\ attempts \cap (Tips \X {h}) # {}
        /\ refused' = refused \cup {h}
        /\ UNCHANGED <<webhooks, enabled>>
  /\ UNCHANGED <<secret, minted, create, overlap, rotated, jobVars, startVars>>

-----------------------------------------------------------------------------
(* The deliveries; WebhookDispatch has their queue.                        *)

(* The enabled webhooks are read with their secrets.                       *)
DispatchWebhooks(t) ==
  /\ Serving
  /\ \A h \in Hooks : job[<<t, h>>] = "none"
  /\ job' = [r \in Rows |-> IF r \in {t} \X enabled THEN "queued" ELSE job[r]]
  /\ signing' = [r \in Rows |-> IF r \in {t} \X enabled THEN secret[r[2]] ELSE signing[r]]
  /\ UNCHANGED <<hookVars, callVars, attempts, startVars>>

(* The POST is over.  Its row is written unless the webhook is gone or the *)
(* write fails.                                                            *)
Deliver(r) ==
  /\ job[r] = "queued"
  /\ job' = [job EXCEPT ![r] = "over"]
  /\ \/ r[2] \in webhooks /\ attempts' = attempts \cup {r}
     \/ attempts' = attempts
  /\ UNCHANGED <<hookVars, callVars, signing, startVars>>

(* RetentionPruner deletes a row.                                          *)
PruneAttempt(r) ==
  /\ r \in attempts
  /\ attempts' = attempts \ {r}
  /\ UNCHANGED <<hookVars, callVars, job, signing, startVars>>

-----------------------------------------------------------------------------

Next ==
  \/ \E p \in Processes : ReadLegacyRows(p) \/ MigrateRow(p) \/ Listen(p) \/ MigrationFails(p)
  \/ \E c \in Creates : CountWebhooks(c) \/ InsertWebhook(c)
  \/ \E h \in Hooks : SetWebhookEnabled(h) \/ DeleteWebhook(h)
  \/ \E r \in Rotations, h \in Hooks : RotateWebhookSecret(r, h)
  \/ \E t \in Tips : DispatchWebhooks(t)
  \/ \E r \in Rows : Deliver(r) \/ PruneAttempt(r)

Spec == Init /\ [][Next]_vars

-----------------------------------------------------------------------------
(* Properties.                                                             *)

(* Every variable has its type.                                            *)
TypeOK ==
  /\ enabled \subseteq webhooks /\ webhooks \subseteq Hooks
  /\ secret \in [Hooks -> Secrets]
  /\ create \in [Creates -> {"none", "counted", "over"}]
  /\ overlap \in Nat
  /\ rotated \subseteq Rotations /\ refused \subseteq Hooks
  /\ minted \in [Hooks -> Hooks \cup Rotations]
  /\ process \in [Processes -> {"down", "migrating", "up"}]
  /\ legacyRows \in [Processes -> SUBSET (Hooks \X Secrets)]
  /\ job \in [Rows -> {"none", "queued", "over"}]
  /\ signing \in [Rows -> Secrets]
  /\ attempts \subseteq Rows

(* Registrations that overlap may all have counted the same rows, but they *)
(* exceed the cap by no more than that: however registrations overlap in a *)
(* row, with deletions in between, a creator has fewer webhooks than the   *)
(* sum of the cap and the most registrations that ever ran at once (lines  *)
(* 646-651).                                                               *)
ExcessByOverlap ==
  WebhookLimit > 0 =>
    webhooks \subseteq Legacy \/ Cardinality(webhooks) < WebhookLimit + overlap

(* README.md, lines 490-491: "The count and the insert run in one          *)
(* transaction, so two concurrent registrations cannot both pass the       *)
(* check": the creator never has more webhooks than the cap.               *)
WebhooksCapped ==
  WebhookLimit > 0 =>
    webhooks \subseteq Legacy \/ Cardinality(webhooks) <= WebhookLimit

(* No migration of a process that starts beside others brings back a       *)
(* secret that was rotated since it read it (webhooks.service.ts, lines    *)
(* 562-587): the secret stored is the one shown last.                      *)
RotationSticks == \A h \in webhooks : secret[h].by = minted[h]

(* No delivery is queued with a secret that cannot be decrypted, which     *)
(* would fail it unsent, though processes migrate, fail and restart in any *)
(* order and webhooks come and go meanwhile (lines 293-296).               *)
JobsCanSign == \A r \in Rows : job[r] = "queued" => signing[r].sealed

(* limit.test.ts, line 134: "The error tells the creator to delete one to  *)
(* make room, so that has to actually work".                               *)
DeletionMakesRoom == refused = {}
=============================================================================
