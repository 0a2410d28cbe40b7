------------------------ MODULE WebhookRegistryProofs ------------------------
(***************************************************************************)
(* Proofs about WebhookRegistry: its types; that no rotation is undone;    *)
(* that no delivery is queued with a secret that cannot be decrypted; and  *)
(* how far registrations that overlap exceed the cap.  Then about the      *)
(* pruner of deliveries, RetentionPruner: its types, and that a pass which *)
(* reports nothing outstanding was thorough.                               *)
(***************************************************************************)
EXTENDS WebhookRegistry, RetentionPruner, FiniteSetTheorems, TLAPS

(* A process that migrates still has every row that is not sealed before   *)
(* it, as it is; once one serves, there are none.                          *)
StartInv ==
  /\ \A p \in Processes : process[p] = "migrating" =>
       \A h \in LegacyHooks : <<h, secret[h]>> \in legacyRows[p]
  /\ Serving => LegacyHooks = {}

(* A webhook that is not registered yet was not rotated.                   *)
RotationInv ==
  /\ RotationSticks
  /\ \A c \in Creates : create[c] # "over" => c \notin webhooks /\ minted[c] = c

(* A registration that has counted is as good as done: with all of them    *)
(* the creator still has fewer than the cap and the overlap.               *)
CapInv ==
  WebhookLimit > 0 =>
    \/ webhooks \subseteq Legacy /\ Counted = {}
    \/ Cardinality(webhooks) + Cardinality(Counted) < WebhookLimit + overlap

-----------------------------------------------------------------------------
(* Types.                                                                  *)

LEMMA InitType == Init => TypeOK
BY DEF Init, TypeOK, Secrets, Hooks, Rows

LEMMA TypeInductive == TypeOK /\ [Next]_vars => TypeOK'
<1> SUFFICES ASSUME TypeOK, [Next]_vars PROVE TypeOK'
  OBVIOUS
<1> USE DEF TypeOK
<1>1. ASSUME NEW p \in Processes, ReadLegacyRows(p) PROVE TypeOK'
  <2>1. {<<h, secret[h]>> : h \in LegacyHooks} \subseteq Hooks \X Secrets
    BY DEF LegacyHooks
  <2>2. QED
    BY <1>1, <2>1 DEF ReadLegacyRows, hookVars, callVars, jobVars
<1>2. ASSUME NEW p \in Processes, MigrateRow(p) PROVE TypeOK'
  <2>1. PICK row \in legacyRows[p] :
          /\ legacyRows' = [legacyRows EXCEPT ![p] = @ \ {row}]
          /\ secret' = IF row[1] \in webhooks /\ secret[row[1]] = row[2]
                       THEN [secret EXCEPT ![row[1]].sealed = TRUE] ELSE secret
    BY <1>2 DEF MigrateRow
  <2>2. secret' \in [Hooks -> Secrets]
    <3>1. row[1] \in Hooks
      BY <2>1
    <3>2. [secret[row[1]] EXCEPT !.sealed = TRUE] \in Secrets
      <4>1. \A s \in Secrets : [s EXCEPT !.sealed = TRUE] \in Secrets
        <5> HIDE DEF TypeOK
        <5>1. QED
          BY DEF Secrets
      <4>2. secret[row[1]] \in Secrets
        BY <3>1
      <4>3. QED
        BY <4>1, <4>2, Zenon
    <3>3. \/ secret' = secret
          \/ secret' = [secret EXCEPT ![row[1]] = [secret[row[1]] EXCEPT !.sealed = TRUE]]
      BY <2>1, Zenon
    <3>4. QED
      BY <3>1, <3>2, <3>3
  <2>3. QED
    BY <1>2, <2>1, <2>2 DEF MigrateRow, callVars, jobVars
<1>3. ASSUME NEW p \in Processes, Listen(p) PROVE TypeOK'
  BY <1>3 DEF Listen, hookVars, callVars, jobVars
<1>4. ASSUME NEW p \in Processes, MigrationFails(p) PROVE TypeOK'
  BY <1>4 DEF MigrationFails, hookVars, callVars, jobVars
<1>5. ASSUME NEW c \in Creates, CountWebhooks(c) PROVE TypeOK'
  <2>1. Cardinality(Counted') \in Nat
    BY FS_Subset, FS_CardinalityType, RegistryAssumption DEF Counted, Hooks
  <2>2. overlap' \in Nat
    BY <1>5, <2>1 DEF CountWebhooks
  <2>3. QED
    BY <1>5, <2>2 DEF CountWebhooks, hookVars, startVars, jobVars
<1>6. ASSUME NEW c \in Creates, InsertWebhook(c) PROVE TypeOK'
  <2>1. c \in Hooks /\ [by |-> c, sealed |-> TRUE] \in Secrets
    BY DEF Hooks, Secrets
  <2>2. /\ secret' \in [Hooks -> Secrets]
        /\ enabled' \subseteq webhooks' /\ webhooks' \subseteq Hooks
        /\ minted' = minted
    BY <1>6, <2>1 DEF InsertWebhook, hookVars
  <2>3. QED
    BY <1>6, <2>2 DEF InsertWebhook, startVars, jobVars
<1>7. ASSUME NEW h \in Hooks, SetWebhookEnabled(h) PROVE TypeOK'
  BY <1>7 DEF SetWebhookEnabled, callVars, startVars, jobVars
<1>8. ASSUME NEW h \in Hooks, DeleteWebhook(h) PROVE TypeOK'
  BY <1>8 DEF DeleteWebhook, startVars, jobVars
<1>9. ASSUME NEW r \in Rotations, NEW h \in Hooks, RotateWebhookSecret(r, h) PROVE TypeOK'
  BY <1>9 DEF RotateWebhookSecret, startVars, jobVars, Secrets
<1>10. ASSUME NEW t \in Tips, DispatchWebhooks(t) PROVE TypeOK'
  BY <1>10 DEF DispatchWebhooks, hookVars, callVars, startVars, Rows
<1>11. ASSUME NEW r \in Rows, Deliver(r) PROVE TypeOK'
  BY <1>11 DEF Deliver, hookVars, callVars, startVars
<1>12. ASSUME NEW r \in Rows, PruneAttempt(r) PROVE TypeOK'
  BY <1>12 DEF PruneAttempt, hookVars, callVars, startVars
<1>13. CASE UNCHANGED vars
  BY <1>13 DEF vars, hookVars, callVars, jobVars, startVars
<1>14. QED
  BY <1>1, <1>2, <1>3, <1>4, <1>5, <1>6, <1>7, <1>8, <1>9, <1>10, <1>11, <1>12, <1>13 DEF Next

(* Every variable keeps its type: a flag belongs to a registered webhook.  *)
THEOREM WebhookTypeCorrect == Spec => []TypeOK
<1>1. QED
  BY InitType, TypeInductive, PTL DEF Spec

-----------------------------------------------------------------------------
(* The migration.                                                          *)

LEMMA InitStart == Init => StartInv
BY DEF Init, StartInv, Serving

(* Whatever the step, a row that is not sealed was not sealed before it,   *)
(* and has the secret it had.                                              *)
LEMMA LegacyShrinks ==
  ASSUME TypeOK, [Next]_vars
  PROVE  LegacyHooks' \subseteq LegacyHooks /\ \A h \in LegacyHooks' : secret'[h] = secret[h]
<1> USE DEF TypeOK, LegacyHooks
<1>1. ASSUME UNCHANGED <<webhooks, secret>>
      PROVE  LegacyHooks' \subseteq LegacyHooks /\ \A h \in LegacyHooks' : secret'[h] = secret[h]
  BY <1>1
<1>2. ASSUME NEW p \in Processes, MigrateRow(p)
      PROVE  LegacyHooks' \subseteq LegacyHooks /\ \A h \in LegacyHooks' : secret'[h] = secret[h]
  <2>1. PICK row \in legacyRows[p] :
          secret' = IF row[1] \in webhooks /\ secret[row[1]] = row[2]
                    THEN [secret EXCEPT ![row[1]].sealed = TRUE] ELSE secret
    BY <1>2 DEF MigrateRow
  <2>2. webhooks' = webhooks
    BY <1>2 DEF MigrateRow
  <2>3. ASSUME NEW h \in webhooks, ~secret'[h].sealed
        PROVE  secret'[h] = secret[h]
    BY <2>1, <2>3 DEF Secrets
  <2>4. QED
    BY <2>2, <2>3
<1>3. ASSUME NEW c \in Creates, InsertWebhook(c)
      PROVE  LegacyHooks' \subseteq LegacyHooks /\ \A h \in LegacyHooks' : secret'[h] = secret[h]
  BY <1>3 DEF InsertWebhook, hookVars, Hooks, Secrets
<1>4. ASSUME NEW r \in Rotations, NEW h \in Hooks, RotateWebhookSecret(r, h)
      PROVE  LegacyHooks' \subseteq LegacyHooks /\ \A g \in LegacyHooks' : secret'[g] = secret[g]
  BY <1>4 DEF RotateWebhookSecret, Secrets
<1>5. ASSUME NEW h \in Hooks, DeleteWebhook(h)
      PROVE  LegacyHooks' \subseteq LegacyHooks /\ \A g \in LegacyHooks' : secret'[g] = secret[g]
  BY <1>5 DEF DeleteWebhook
<1>6. QED
  BY <1>1, <1>2, <1>3, <1>4, <1>5
  DEF Next, ReadLegacyRows, Listen, MigrationFails, CountWebhooks, SetWebhookEnabled,
      DispatchWebhooks, Deliver, PruneAttempt, vars, hookVars

LEMMA StartInductive == TypeOK /\ StartInv /\ [Next]_vars => StartInv'
<1> SUFFICES ASSUME TypeOK, StartInv, [Next]_vars PROVE StartInv'
  OBVIOUS
<1> DEFINE Ready(p) == process[p] = "migrating" =>
                         \A h \in LegacyHooks : <<h, secret[h]>> \in legacyRows[p]
<1>1. LegacyHooks' \subseteq LegacyHooks /\ \A h \in LegacyHooks' : secret'[h] = secret[h]
  BY LegacyShrinks
<1>2. ASSUME UNCHANGED startVars PROVE StartInv'
  BY <1>1, <1>2 DEF StartInv, Serving, startVars
<1>3. ASSUME NEW p \in Processes, ReadLegacyRows(p) PROVE StartInv'
  <2>1. UNCHANGED <<webhooks, secret>> /\ LegacyHooks' = LegacyHooks
    BY <1>3 DEF ReadLegacyRows, hookVars, LegacyHooks
  <2>2. ASSUME NEW q \in Processes, process'[q] = "migrating", NEW h \in LegacyHooks'
        PROVE  <<h, secret'[h]>> \in legacyRows'[q]
    BY <1>3, <2>1, <2>2 DEF ReadLegacyRows, StartInv, TypeOK
  <2>3. Serving' => Serving
    BY <1>3 DEF ReadLegacyRows, Serving, TypeOK
  <2>4. QED
    BY <2>1, <2>2, <2>3 DEF StartInv
<1>4. ASSUME NEW p \in Processes, MigrateRow(p) PROVE StartInv'
  <2>1. PICK row \in legacyRows[p] :
          /\ legacyRows' = [legacyRows EXCEPT ![p] = @ \ {row}]
          /\ secret' = IF row[1] \in webhooks /\ secret[row[1]] = row[2]
                       THEN [secret EXCEPT ![row[1]].sealed = TRUE] ELSE secret
    BY <1>4 DEF MigrateRow
  <2>2. UNCHANGED <<webhooks, process>>
    BY <1>4 DEF MigrateRow
  <2>3. ASSUME NEW h \in LegacyHooks', <<h, secret[h]>> = row
        PROVE  FALSE
    <3>1. h \in webhooks /\ h \in Hooks /\ row[1] = h /\ row[2] = secret[h]
      BY <2>2, <2>3 DEF LegacyHooks, TypeOK
    <3>2. secret'[h].sealed
      BY <2>1, <3>1 DEF TypeOK, Secrets
    <3>3. QED
      BY <3>2, <2>3 DEF LegacyHooks
  <2>4. ASSUME NEW q \in Processes, process'[q] = "migrating", NEW h \in LegacyHooks'
        PROVE  <<h, secret'[h]>> \in legacyRows'[q]
    <3>1. <<h, secret[h]>> \in legacyRows[q]
      BY <1>1, <2>2, <2>4 DEF StartInv
    <3>2. secret'[h] = secret[h]
      BY <1>1
    <3>3. QED
      BY <3>1, <3>2, <2>1, <2>3 DEF TypeOK
  <2>5. QED
    BY <1>1, <2>2, <2>4 DEF StartInv, Serving
<1>5. ASSUME NEW p \in Processes, Listen(p) PROVE StartInv'
  <2>1. LegacyHooks = {}
    BY <1>5 DEF Listen, StartInv
  <2>2. LegacyHooks' = {}
    BY <1>1, <2>1
  <2>3. QED
    BY <2>2 DEF StartInv
<1>6. ASSUME NEW p \in Processes, MigrationFails(p) PROVE StartInv'
  <2>1. UNCHANGED <<webhooks, secret>> /\ LegacyHooks' = LegacyHooks
    BY <1>6 DEF MigrationFails, hookVars, LegacyHooks
  <2>2. Serving' => Serving
    BY <1>6 DEF MigrationFails, Serving, TypeOK
  <2>3. ASSUME NEW q \in Processes, process'[q] = "migrating", NEW h \in LegacyHooks'
        PROVE  <<h, secret'[h]>> \in legacyRows'[q]
    BY <1>6, <2>1, <2>3 DEF MigrationFails, StartInv, TypeOK
  <2>4. QED
    BY <2>1, <2>2, <2>3 DEF StartInv
<1>7. QED
  BY <1>2, <1>3, <1>4, <1>5, <1>6
  DEF Next, CountWebhooks, InsertWebhook, SetWebhookEnabled, DeleteWebhook,
      RotateWebhookSecret, DispatchWebhooks, Deliver, PruneAttempt, vars, startVars

LEMMA JobInductive == TypeOK /\ StartInv /\ JobsCanSign /\ [Next]_vars => JobsCanSign'
<1> SUFFICES ASSUME TypeOK, StartInv, JobsCanSign, [Next]_vars PROVE JobsCanSign'
  OBVIOUS
<1>1. ASSUME NEW t \in Tips, DispatchWebhooks(t) PROVE JobsCanSign'
  <2>1. \A h \in enabled : secret[h].sealed
    BY <1>1 DEF DispatchWebhooks, StartInv, LegacyHooks, TypeOK
  <2>2. ASSUME NEW r \in Rows, job'[r] = "queued" PROVE signing'[r].sealed
    <3>1. CASE r \in {t} \X enabled
      BY <1>1, <2>1, <3>1 DEF DispatchWebhooks
    <3>2. CASE r \notin {t} \X enabled
      BY <1>1, <2>2, <3>2 DEF DispatchWebhooks, JobsCanSign
    <3>3. QED
      BY <3>1, <3>2
  <2>3. QED
    BY <2>2 DEF JobsCanSign
<1>2. ASSUME NEW r \in Rows, Deliver(r) PROVE JobsCanSign'
  BY <1>2 DEF Deliver, JobsCanSign, TypeOK
<1>3. CASE UNCHANGED <<job, signing>>
  BY <1>3 DEF JobsCanSign
<1>4. QED
  BY <1>1, <1>2, <1>3
  DEF Next, ReadLegacyRows, MigrateRow, Listen, MigrationFails, CountWebhooks, InsertWebhook,
      SetWebhookEnabled, DeleteWebhook, RotateWebhookSecret, PruneAttempt, vars, jobVars

(* A webhook that can be dispatched to has a secret that can be decrypted, *)
(* whatever processes start, migrate and fail beside each other, for any   *)
(* number of them and of webhooks: a process serves only once no row is    *)
(* left to migrate, and none comes back.                                   *)
THEOREM DeliveriesCanSign == Spec => []JobsCanSign
<1>1. Init => JobsCanSign
  BY DEF Init, JobsCanSign
<1>2. QED
  BY <1>1, InitStart, StartInductive, JobInductive, WebhookTypeCorrect, PTL DEF Spec

-----------------------------------------------------------------------------
(* Rotation.                                                               *)

LEMMA InitRotation == Init => RotationInv
BY RegistryAssumption DEF Init, RotationInv, RotationSticks, Hooks

LEMMA RotationInductive == TypeOK /\ RotationInv /\ [Next]_vars => RotationInv'
<1> SUFFICES ASSUME TypeOK, RotationInv, [Next]_vars PROVE RotationInv'
  OBVIOUS
<1> USE DEF TypeOK, RotationInv, RotationSticks
<1>1. ASSUME NEW p \in Processes, MigrateRow(p) PROVE RotationInv'
  <2>1. \A h \in Hooks : secret'[h].by = secret[h].by
    BY <1>1 DEF MigrateRow, Secrets
  <2>2. QED
    BY <1>1, <2>1 DEF MigrateRow, callVars
<1>2. ASSUME NEW c \in Creates, CountWebhooks(c) PROVE RotationInv'
  BY <1>2 DEF CountWebhooks, hookVars
<1>3. ASSUME NEW c \in Creates, InsertWebhook(c) PROVE RotationInv'
  <2>1. minted' = minted /\ webhooks' \subseteq webhooks \cup {c}
    BY <1>3 DEF InsertWebhook, hookVars
  <2>2. \A h \in webhooks' : secret'[h].by = minted'[h]
    BY <1>3, <2>1 DEF InsertWebhook, hookVars, Hooks
  <2>3. \A d \in Creates : create'[d] # "over" => d \notin webhooks' /\ minted'[d] = d
    BY <1>3, <2>1 DEF InsertWebhook
  <2>4. QED
    BY <2>2, <2>3
<1>4. ASSUME NEW h \in Hooks, DeleteWebhook(h) PROVE RotationInv'
  BY <1>4 DEF DeleteWebhook
<1>5. ASSUME NEW r \in Rotations, NEW h \in Hooks, RotateWebhookSecret(r, h) PROVE RotationInv'
  BY <1>5 DEF RotateWebhookSecret
<1>6. CASE UNCHANGED <<webhooks, secret, minted, create>>
  BY <1>6
<1>7. QED
  BY <1>1, <1>2, <1>3, <1>4, <1>5, <1>6
  DEF Next, ReadLegacyRows, Listen, MigrationFails, SetWebhookEnabled, DispatchWebhooks,
      Deliver, PruneAttempt, vars, hookVars, callVars

(* No migration brings back a secret that was rotated since it read it,    *)
(* for any number of processes, webhooks and rotations.                    *)
THEOREM RotationsStay == Spec => []RotationSticks
<1>1. RotationInv => RotationSticks
  BY DEF RotationInv
<1>2. QED
  BY <1>1, InitRotation, RotationInductive, WebhookTypeCorrect, PTL DEF Spec

-----------------------------------------------------------------------------
(* The cap.                                                                *)

LEMMA InitCap == Init => CapInv
BY DEF Init, CapInv, Counted

LEMMA HooksFinite ==
  ASSUME TypeOK
  PROVE  /\ IsFiniteSet(webhooks) /\ Cardinality(webhooks) \in Nat
         /\ IsFiniteSet(Counted) /\ Cardinality(Counted) \in Nat
<1>1. webhooks \subseteq Hooks /\ Counted \subseteq Hooks
  BY DEF TypeOK, Counted, Hooks
<1>2. IsFiniteSet(webhooks) /\ IsFiniteSet(Counted)
  BY <1>1, FS_Subset, RegistryAssumption
<1>3. QED
  BY <1>2, FS_CardinalityType

(* Fewer webhooks and registrations under way are still within the bound.  *)
LEMMA CapDown ==
  ASSUME TypeOK, CapInv, TypeOK', webhooks' \subseteq webhooks, Counted' \subseteq Counted,
         overlap' = overlap
  PROVE  CapInv'
<1>1. /\ IsFiniteSet(webhooks) /\ IsFiniteSet(Counted)
      /\ Cardinality(webhooks) \in Nat /\ Cardinality(Counted) \in Nat
  BY HooksFinite
<1>2. /\ Cardinality(webhooks') <= Cardinality(webhooks)
      /\ Cardinality(Counted') <= Cardinality(Counted)
      /\ IsFiniteSet(webhooks') /\ IsFiniteSet(Counted')
  BY <1>1, FS_Subset
<1>3. Cardinality(webhooks') \in Nat /\ Cardinality(Counted') \in Nat
  BY <1>2, FS_CardinalityType
<1>4. overlap \in Nat /\ WebhookLimit \in Nat
  BY RegistryAssumption DEF TypeOK
<1>5. QED
  BY <1>1, <1>2, <1>3, <1>4 DEF CapInv

(* A registration that counts finds room, whatever else is under way.      *)
LEMMA CapCount ==
  ASSUME TypeOK, CapInv, TypeOK', NEW c \in Creates, CountWebhooks(c)
  PROVE  CapInv'
<1>1. webhooks' = webhooks
  BY DEF CountWebhooks, hookVars
<1>2. CASE UnderLimit
  <2>1. /\ Cardinality(webhooks) \in Nat /\ Cardinality(Counted) \in Nat
        /\ IsFiniteSet(Counted)
    BY HooksFinite
  <2>2. Counted' = Counted \cup {c}
    BY <1>2 DEF CountWebhooks, Counted, TypeOK
  <2>3. IsFiniteSet(Counted \cup {c})
    BY <2>1, FS_AddElement
  <2>4. Cardinality(Counted') \in Nat
    BY <2>2, <2>3, FS_CardinalityType
  <2>5. overlap \in Nat /\ overlap' \in Nat /\ WebhookLimit \in Nat
    BY RegistryAssumption DEF TypeOK
  <2>6. Cardinality(Counted') <= overlap'
    BY <2>4, <2>5 DEF CountWebhooks
  <2>7. WebhookLimit > 0 => Cardinality(webhooks) < WebhookLimit
    BY <1>2, RegistryAssumption DEF UnderLimit
  <2>8. QED
    BY <1>1, <2>1, <2>4, <2>5, <2>6, <2>7 DEF CapInv
<1>3. CASE ~UnderLimit
  <2>1. Counted' = Counted
    BY <1>3 DEF CountWebhooks, Counted, TypeOK
  <2>2. /\ Cardinality(webhooks) \in Nat /\ Cardinality(Counted) \in Nat
        /\ overlap \in Nat /\ overlap' \in Nat /\ WebhookLimit \in Nat
    BY HooksFinite, RegistryAssumption DEF TypeOK
  <2>3. overlap' >= overlap
    BY <2>1, <2>2 DEF CountWebhooks
  <2>4. QED
    BY <1>1, <2>1, <2>2, <2>3 DEF CapInv
<1>4. QED
  BY <1>2, <1>3

(* One that inserts is under way no longer.                                *)
LEMMA CapInsert ==
  ASSUME TypeOK, CapInv, TypeOK', NEW c \in Creates, InsertWebhook(c)
  PROVE  CapInv'
<1>1. Counted' = Counted \ {c} /\ c \in Counted /\ overlap' = overlap
  BY DEF InsertWebhook, Counted, TypeOK
<1>2. CASE webhooks' = webhooks
  BY <1>1, <1>2, CapDown
<1>3. CASE webhooks' = webhooks \cup {c}
  <2>1. /\ IsFiniteSet(webhooks) /\ Cardinality(webhooks) \in Nat
        /\ IsFiniteSet(Counted) /\ Cardinality(Counted) \in Nat
    BY HooksFinite
  <2>2. /\ IsFiniteSet(webhooks \cup {c})
        /\ Cardinality(webhooks \cup {c}) \in {Cardinality(webhooks), Cardinality(webhooks) + 1}
    BY <2>1, FS_AddElement
  <2>3. Cardinality(webhooks') \in Nat /\ Cardinality(webhooks') <= Cardinality(webhooks) + 1
    BY <1>3, <2>1, <2>2
  <2>4. Cardinality(Counted') = Cardinality(Counted) - 1
    BY <1>1, <2>1, FS_RemoveElement
  <2>5. overlap \in Nat /\ WebhookLimit \in Nat
    BY RegistryAssumption DEF TypeOK
  <2>6. WebhookLimit > 0 =>
          Cardinality(webhooks) + Cardinality(Counted) < WebhookLimit + overlap
    BY <1>1 DEF CapInv
  <2>7. QED
    BY <1>1, <2>1, <2>3, <2>4, <2>5, <2>6 DEF CapInv
<1>4. QED
  BY <1>2, <1>3 DEF InsertWebhook, hookVars

LEMMA CapInductive ==
  ASSUME TypeOK, TypeOK', CapInv, [Next]_vars
  PROVE  CapInv'
<1>1. ASSUME NEW c \in Creates, CountWebhooks(c) \/ InsertWebhook(c) PROVE CapInv'
  BY <1>1, CapCount, CapInsert
<1>2. ASSUME NEW h \in Hooks, DeleteWebhook(h) PROVE CapInv'
  <2>1. webhooks' \subseteq webhooks /\ Counted' = Counted /\ overlap' = overlap
    BY <1>2 DEF DeleteWebhook, Counted
  <2>2. QED
    BY <2>1, CapDown
<1>3. CASE UNCHANGED <<webhooks, create, overlap>>
  BY <1>3 DEF CapInv, Counted
<1>4. QED
  BY <1>1, <1>2, <1>3
  DEF Next, ReadLegacyRows, MigrateRow, Listen, MigrationFails, SetWebhookEnabled,
      RotateWebhookSecret, DispatchWebhooks, Deliver, PruneAttempt, vars, hookVars, callVars

(* A creator exceeds the cap by no more than the registrations that ever   *)
(* overlapped, for any cap and any number of them, however it deletes and  *)
(* registers again: one at a time, it never does (webhooks.service.ts,     *)
(* lines 645-651).                                                         *)
THEOREM ExcessBounded == Spec => []ExcessByOverlap
<1>1. TypeOK /\ CapInv => ExcessByOverlap
  <2> SUFFICES ASSUME TypeOK, CapInv PROVE ExcessByOverlap
    OBVIOUS
  <2>1. /\ Cardinality(webhooks) \in Nat /\ Cardinality(Counted) \in Nat
        /\ overlap \in Nat /\ WebhookLimit \in Nat
    BY HooksFinite, RegistryAssumption DEF TypeOK
  <2>2. QED
    BY <2>1 DEF CapInv, ExcessByOverlap
<1>2. TypeOK /\ TypeOK' /\ CapInv /\ [Next]_vars => CapInv'
  BY CapInductive
<1>3. QED
  BY <1>1, <1>2, InitCap, WebhookTypeCorrect, PTL DEF Spec

-----------------------------------------------------------------------------
(* The pass over the rows past their window (RetentionPruner).             *)

(* The batch in hand is of the kind in hand, and all there is of it if it  *)
(* is a short page.                                                        *)
BatchInv ==
  ids # {} => /\ stage \in Kinds
              /\ ids \subseteq due[stage]
              /\ ShortPage => ids = due[stage]

(* The kinds a pass is done with when it is at a stage.                    *)
Behind(s) == Kinds \ (After(s) \cup {s})

(* What a kind that is done with may have left if nothing is outstanding.  *)
Done(k) == due[k] = {} \/ (k = "failure" /\ budget["deliveries"] = 0)

PassInv ==
  stage \in Kinds \cup {"report"} =>
    /\ \A k \in Kinds \ Windows : due[k] = {}
    /\ stage \in Kinds => stage \in Windows /\ budget[Budget(stage)] > 0
    /\ stage \in {"success", "failure"} => budget["notifications"] = MaxBatches
    /\ ~truncated => \A k \in Behind(stage) : Done(k)

RetentionInv == RetentionTypeOK /\ BatchInv /\ PassInv

-----------------------------------------------------------------------------
(* The order of the stages.                                                *)

LEMMA AfterStages ==
  /\ After("timer") = Kinds
  /\ After("success") = {"failure", "notification"}
  /\ After("failure") = {"notification"}
  /\ After("notification") = {} /\ After("report") = {}
BY DEF After

LEMMA BudgetOf ==
  /\ Budget("success") = "deliveries" /\ Budget("failure") = "deliveries"
  /\ Budget("notification") = "notifications"
BY DEF Budget

(* The next stage is a later one with a window and budget left; every kind *)
(* it passes over lacks one of the two.                                    *)
LEMMA NextStageFound ==
  ASSUME NEW k \in Kinds \cup {"timer"}, NEW left \in [Budgets -> 0 .. MaxBatches],
         NEW n, n = NextStage(k, left)
  PROVE  /\ n \in Kinds \cup {"report"}
         /\ n \in Kinds => n \in After(k) \cap Windows /\ left[Budget(n)] > 0
         /\ \A m \in Kinds \cap After(k) \cap Behind(n) : m \notin Windows \/ left[Budget(m)] = 0
<1> DEFINE ready == {m \in After(k) \cap Windows : left[Budget(m)] > 0}
<1>1. n = IF "success" \in ready THEN "success"
          ELSE IF "failure" \in ready THEN "failure"
          ELSE IF "notification" \in ready THEN "notification" ELSE "report"
  BY DEF NextStage
<1>2. \A m \in Kinds : left[Budget(m)] \in Nat
  BY RetentionAssumption DEF Budget, Budgets, Kinds
<1>3. \A m \in Kinds \cap After(k) : m \in ready \/ m \notin Windows \/ left[Budget(m)] = 0
  BY <1>2
<1>4. After(k) \subseteq Kinds
  BY AfterStages DEF Kinds
<1> HIDE DEF ready
<1>5. n \in ready \/ (n = "report" /\ ready \cap Kinds = {})
  BY <1>1 DEF Kinds
<1>6. \A m \in Kinds \cap Behind(n) : m \notin ready
  BY <1>1, AfterStages DEF Kinds, Behind
<1>7. ready \subseteq After(k) \cap Windows /\ \A m \in ready : left[Budget(m)] > 0
  BY DEF ready
<1>8. QED
  BY <1>3, <1>4, <1>5, <1>6, <1>7 DEF Kinds

-----------------------------------------------------------------------------
(* Types.                                                                  *)

LEMMA RetentionInitInv == RetentionInit => RetentionInv
<1> SUFFICES ASSUME RetentionInit PROVE RetentionInv
  OBVIOUS
<1>1. RetentionTypeOK
  <2>1. budget \in [Budgets -> 0 .. MaxBatches] /\ faults \in 0 .. MaxFaults
    BY RetentionAssumption DEF RetentionInit
  <2>2. RowsOK
    BY DEF RetentionInit, RowsOK
  <2>3. QED
    BY <2>1, <2>2 DEF RetentionInit, RetentionTypeOK
<1>2. BatchInv /\ PassInv
  BY DEF RetentionInit, BatchInv, PassInv, Kinds
<1>3. QED
  BY <1>1, <1>2 DEF RetentionInv

LEMMA RetentionTypeInductive ==
  ASSUME RetentionTypeOK, BatchInv, PassInv, [RetentionNext]_retentionVars
  PROVE  RetentionTypeOK'
<1> USE RetentionAssumption DEF RetentionTypeOK, RowsOK
<1>1. ASSUME NEW k \in Kinds, NEW r \in Records, InsertRow(k, r) PROVE RetentionTypeOK'
  BY <1>1 DEF InsertRow, passVars
<1>2. ASSUME NEW k \in Kinds, NEW r \in Records, RowExpires(k, r) PROVE RetentionTypeOK'
  BY <1>2 DEF RowExpires, passVars
<1>3. CASE StartPass
  <2>1. [b \in Budgets |-> MaxBatches] \in [Budgets -> 0 .. MaxBatches]
    OBVIOUS
  <2>2. stage' \in Kinds \cup {"report"}
    BY <1>3, <2>1, NextStageFound DEF StartPass
  <2>3. due' \in [Kinds -> SUBSET Records]
    BY <1>3 DEF StartPass
  <2>4. QED
    BY <1>3, <2>1, <2>2, <2>3 DEF StartPass, tableVars, Kinds
<1>4. CASE FindBatch
  BY <1>4 DEF FindBatch, tableVars
<1>5. CASE FindNothing
  <2>1. stage' \in Kinds \cup {"report"}
    BY <1>5, NextStageFound DEF FindNothing
  <2>2. QED
    BY <1>5, <2>1 DEF FindNothing, tableVars, Kinds
<1>6. CASE DeleteBatch
  <2> DEFINE left == [budget EXCEPT ![Budget(stage)] = @ - 1]
  <2>1. stage \in Kinds /\ Budget(stage) \in Budgets
    BY <1>6 DEF DeleteBatch, Budget, Budgets
  <2>2. budget[Budget(stage)] > 0
    BY <2>1 DEF PassInv
  <2>3. left \in [Budgets -> 0 .. MaxBatches]
    BY <2>1, <2>2
  <2>4. /\ budget' = left /\ stage' \in {stage, NextStage(stage, left)}
        /\ old' = [old EXCEPT ![stage] = @ \ ids] /\ due' = [due EXCEPT ![stage] = @ \ ids]
        /\ ids' = {} /\ truncated' \in BOOLEAN
        /\ UNCHANGED <<written, fresh, pruneActive, faults>>
    BY <1>6 DEF DeleteBatch
  <2>5. stage' \in Kinds \cup {"report"}
    BY <2>1, <2>3, <2>4, NextStageFound
  <2>6. old' \in [Kinds -> SUBSET Records] /\ due' \in [Kinds -> SUBSET Records]
    BY <2>1, <2>4
  <2>7. QED
    BY <2>3, <2>4, <2>5, <2>6 DEF Kinds
<1>7. CASE EndPass
  BY <1>7 DEF EndPass, ScheduleNext, tableVars
<1>8. CASE PassFails
  BY <1>8 DEF PassFails, Fault, ScheduleNext, tableVars
<1>9. CASE StartDeliveryPruner
  BY <1>9 DEF StartDeliveryPruner, tableVars
<1>10. CASE StopDeliveryPruner
  <2>1. /\ stage' \in Kinds \cup {"off", "report"} /\ pruneActive' = FALSE
        /\ faults' \in 0 .. MaxFaults
        /\ UNCHANGED <<written, fresh, old, due, ids, budget, truncated>>
    BY <1>10 DEF StopDeliveryPruner, Fault, tableVars
  <2>2. QED
    BY <2>1 DEF Kinds
<1>11. CASE ExitDuringPass
  <2>1. /\ stage' = "off" /\ pruneActive' = FALSE /\ ids' = {}
        /\ faults' \in 0 .. MaxFaults
        /\ UNCHANGED <<written, fresh, old, due, budget, truncated>>
    BY <1>11 DEF ExitDuringPass, Fault, tableVars
  <2>2. QED
    BY <2>1 DEF Kinds
<1>12. CASE UNCHANGED retentionVars
  BY <1>12 DEF retentionVars, tableVars, passVars
<1>13. QED
  BY <1>1, <1>2, <1>3, <1>4, <1>5, <1>6, <1>7, <1>8, <1>9, <1>10, <1>11, <1>12
  DEF RetentionNext, PruneRetainedRows

-----------------------------------------------------------------------------
(* The batch.                                                              *)

LEMMA BatchInductive == RetentionTypeOK /\ BatchInv /\ [RetentionNext]_retentionVars => BatchInv'
<1> SUFFICES ASSUME RetentionTypeOK, BatchInv, [RetentionNext]_retentionVars PROVE BatchInv'
  OBVIOUS
<1>1. CASE UNCHANGED <<ids, due, stage>>
  BY <1>1 DEF BatchInv, ShortPage
<1>2. CASE ids' = {}
  BY <1>2 DEF BatchInv
<1>3. CASE FindBatch
  <2>1. PICK S \in SUBSET due[stage] :
          /\ \/ Cardinality(S) = BatchSize
             \/ S = due[stage] /\ Cardinality(S) < BatchSize
          /\ ids' = S
    BY <1>3 DEF FindBatch
  <2>2. ShortPage' => S = due[stage]
    BY <2>1, RetentionAssumption DEF ShortPage
  <2>3. QED
    BY <1>3, <2>1, <2>2 DEF FindBatch, BatchInv
<1>4. CASE FindNothing \/ EndPass \/ StartDeliveryPruner \/ StopDeliveryPruner
  <2>1. ids' = ids /\ due' = due
    BY <1>4 DEF FindNothing, EndPass, StartDeliveryPruner, StopDeliveryPruner
  <2>2. ids = {} \/ stage' = stage
    BY <1>4 DEF FindNothing, EndPass, StartDeliveryPruner, StopDeliveryPruner, BatchInv, Kinds
  <2>3. QED
    BY <1>1, <1>2, <2>1, <2>2
<1>5. QED
  BY <1>1, <1>2, <1>3, <1>4
  DEF RetentionNext, PruneRetainedRows, InsertRow, RowExpires, StartPass, DeleteBatch, PassFails,
      ExitDuringPass, retentionVars, passVars

-----------------------------------------------------------------------------
(* The pass.                                                               *)

(* A pass that goes on to the next stage with all done of the kind in hand *)
(* has all done of the kinds it passes over, too.                          *)
LEMMA Advance ==
  ASSUME RetentionTypeOK, RetentionTypeOK', PassInv, stage \in Kinds,
         stage' = NextStage(stage, budget'),
         \A k \in Kinds : due'[k] \subseteq due[k],
         \A c \in Budgets : budget'[c] <= budget[c],
         stage # "notification" => budget'["notifications"] = budget["notifications"],
         ~truncated' => ~truncated /\ due'[stage] = {}
  PROVE  PassInv'
<1> USE RetentionAssumption DEF RetentionTypeOK, RowsOK
<1>1. /\ stage' \in Kinds \cup {"report"}
      /\ stage' \in Kinds => stage' \in After(stage) \cap Windows /\ budget'[Budget(stage')] > 0
      /\ \A m \in Kinds \cap After(stage) \cap Behind(stage') : m \notin Windows \/ budget'[Budget(m)] = 0
  BY NextStageFound
<1>2. \A k \in Kinds \ Windows : due'[k] = {}
  BY DEF PassInv
<1>3. stage' \in {"success", "failure"} => budget'["notifications"] = MaxBatches
  BY <1>1, AfterStages DEF PassInv, Kinds
<1>4. ASSUME ~truncated', NEW k \in Behind(stage') PROVE Done(k)'
  <2>1. k \in Kinds /\ ~truncated /\ due'[stage] = {}
    BY <1>4 DEF Behind
  <2>2. CASE k = stage
    BY <2>1, <2>2 DEF Done
  <2>3. CASE k \in After(stage)
    <3>1. k \notin Windows \/ budget'[Budget(k)] = 0
      BY <1>1, <1>4, <2>1, <2>3
    <3>2. k = "failure" \/ k = "notification"
      BY <2>1, <2>3, AfterStages DEF Kinds
    <3>3. k = "notification" => budget'["notifications"] = MaxBatches
      BY <2>3, AfterStages DEF PassInv, Kinds
    <3>4. QED
      BY <3>1, <3>2, <3>3, <1>2, <2>1, BudgetOf DEF Done
  <2>4. CASE k \in Behind(stage)
    <3>1. Done(k)
      BY <2>1, <2>4 DEF PassInv
    <3>2. budget'["deliveries"] \in Nat /\ budget["deliveries"] \in Nat
          /\ budget'["deliveries"] <= budget["deliveries"]
      BY DEF Budgets
    <3>3. QED
      BY <2>1, <3>1, <3>2 DEF Done
  <2>5. QED
    BY <2>1, <2>2, <2>3, <2>4 DEF Behind
<1>5. QED
  BY <1>1, <1>2, <1>3, <1>4 DEF PassInv

LEMMA PassInductive ==
  ASSUME RetentionTypeOK, RetentionTypeOK', BatchInv, PassInv, [RetentionNext]_retentionVars
  PROVE  PassInv'
<1>1. CASE UNCHANGED <<due, stage, budget, truncated>>
  BY <1>1 DEF PassInv, Done
<1>2. CASE stage' \in {"off", "timer"}
  BY <1>2 DEF PassInv, Kinds
<1>3. CASE StartPass
  <2> DEFINE full == [c \in Budgets |-> MaxBatches]
  <2>1. full \in [Budgets -> 0 .. MaxBatches] /\ \A k \in Kinds : full[Budget(k)] > 0
    BY RetentionAssumption DEF Budget, Budgets, Kinds
  <2>2. stage = "timer" /\ stage' = NextStage("timer", full) /\ budget' = full
    BY <1>3 DEF StartPass
  <2>3. due' = [k \in Kinds |-> IF k \in Windows THEN old[k] ELSE {}]
    BY <1>3 DEF StartPass
  <2>4. /\ stage' \in Kinds => stage' \in Windows
        /\ \A m \in Behind(stage') : m \notin Windows
    BY <2>1, <2>2, NextStageFound, AfterStages DEF Behind
  <2>5. budget'["notifications"] = MaxBatches
    BY <2>2 DEF Budgets
  <2>6. QED
    BY <2>1, <2>2, <2>3, <2>4, <2>5 DEF PassInv, Done, Behind
<1>4. CASE FindNothing
  <2>1. /\ stage \in Kinds /\ stage' = NextStage(stage, budget') /\ due[stage] = {}
        /\ UNCHANGED <<due, budget, truncated>>
    BY <1>4 DEF FindNothing
  <2>2. \A c \in Budgets : budget'[c] <= budget[c]
    BY <2>1 DEF RetentionTypeOK
  <2>3. QED
    BY <2>1, <2>2, Advance
<1>5. CASE DeleteBatch
  <2> DEFINE left == [budget EXCEPT ![Budget(stage)] = @ - 1]
             spent == left[Budget(stage)] = 0
  <2>1. /\ stage \in Kinds /\ ids # {} /\ budget' = left
        /\ due' = [due EXCEPT ![stage] = @ \ ids]
        /\ truncated' = (truncated \/ (spent /\ ~ShortPage))
        /\ stage' = IF ShortPage \/ spent THEN NextStage(stage, left) ELSE stage
    BY <1>5 DEF DeleteBatch
  <2>2. Budget(stage) \in Budgets
    BY DEF Budget, Budgets
  <2>3. \A c \in Budgets : budget'[c] <= budget[c]
    BY <2>1, <2>2 DEF RetentionTypeOK
  <2>4. stage # "notification" => budget'["notifications"] = budget["notifications"]
    BY <2>1 DEF Budget, Budgets, RetentionTypeOK
  <2>5. \A k \in Kinds : due'[k] \subseteq due[k]
    BY <2>1 DEF RetentionTypeOK, RowsOK
  <2>6. CASE ShortPage \/ spent
    <3>1. ~truncated' => ~truncated /\ due'[stage] = {}
      BY <2>1, <2>6 DEF BatchInv, RetentionTypeOK, RowsOK
    <3>2. QED
      BY <2>1, <2>3, <2>4, <2>5, <2>6, <3>1, Advance
  <2>7. CASE ~(ShortPage \/ spent)
    <3>1. stage' = stage /\ (truncated => truncated')
      BY <2>1, <2>7
    <3>2. budget'[Budget(stage)] > 0
      BY <2>1, <2>2, <2>7 DEF RetentionTypeOK, PassInv
    <3>3. stage # "notification" => budget'["notifications"] = budget["notifications"]
      BY <2>4
    <3>4. ASSUME ~truncated', NEW k \in Behind(stage') PROVE Done(k)'
      <4>1. Done(k) /\ k \in Kinds
        BY <3>1, <3>4, <2>1 DEF PassInv, Behind
      <4>2. k = "failure" => stage = "notification"
        BY <3>1, <3>4, <2>1, AfterStages DEF Behind, Kinds
      <4>3. stage = "notification" => budget'["deliveries"] = budget["deliveries"]
        BY <2>1 DEF Budget, Budgets, RetentionTypeOK
      <4>4. QED
        BY <4>1, <4>2, <4>3, <2>5 DEF Done
    <3>5. QED
      BY <2>1, <2>5, <3>1, <3>2, <3>3, <3>4 DEF PassInv, Kinds
  <2>8. QED
    BY <2>6, <2>7
<1>6. CASE EndPass \/ PassFails \/ StartDeliveryPruner \/ ExitDuringPass
  BY <1>2, <1>6 DEF EndPass, PassFails, ScheduleNext, StartDeliveryPruner, ExitDuringPass
<1>7. CASE StopDeliveryPruner
  BY <1>1, <1>2, <1>7 DEF StopDeliveryPruner
<1>8. QED
  BY <1>1, <1>3, <1>4, <1>5, <1>6, <1>7
  DEF RetentionNext, PruneRetainedRows, InsertRow, RowExpires, FindBatch, retentionVars, passVars

(* The types hold, with what is known of the batch and of the pass.        *)
LEMMA RetentionInductive == RetentionSpec => []RetentionInv
<1>1. RetentionInv /\ [RetentionNext]_retentionVars => RetentionInv'
  BY RetentionTypeInductive, BatchInductive, PassInductive DEF RetentionInv
<1>2. QED
  BY <1>1, RetentionInitInv, PTL DEF RetentionSpec

(* Every variable keeps its type: no pass takes more than its budget, and  *)
(* a timer is set only while the pruner is active.                         *)
THEOREM PrunerTypeCorrect == RetentionSpec => []RetentionTypeOK
<1>1. RetentionInv => RetentionTypeOK
  BY DEF RetentionInv
<1>2. QED
  BY <1>1, RetentionInductive, PTL

(* A pass that reports nothing outstanding left nothing of what was past   *)
(* its window when it began, unless successes took the budget, for any     *)
(* number of rows, any size of a batch and any budget, whatever rows       *)
(* arrive and expire during the pass.                                      *)
THEOREM ReportIsThorough == RetentionSpec => []PassIsThorough
<1>1. RetentionInv => PassIsThorough
  BY AfterStages DEF RetentionInv, PassInv, PassIsThorough, Behind, Done, Kinds
<1>2. QED
  BY <1>1, RetentionInductive, PTL
=============================================================================
