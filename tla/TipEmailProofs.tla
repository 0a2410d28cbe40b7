--------------------------- MODULE TipEmailProofs ---------------------------
(***************************************************************************)
(* Proofs about TipEmail: its types; that a row is only marked as sent     *)
(* when its tip was mailed; that digests do not repeat a tip and take up   *)
(* none that was mailed; that tip mail reaches only addresses whose owner  *)
(* opened a link; and that mail keeps to the cap.                          *)
(***************************************************************************)
EXTENDS TipEmail, FiniteSetTheorems, TLAPS

(* Where tip mail may go: proved, or written by an update that had not     *)
(* read the address it replaced.                                           *)
Excused == proved \cup OvertakenTo

(* What is known of the contact address besides its types: only an update  *)
(* that was overtaken compares with another address than the stored one.   *)
ContactInv ==
  /\ ContactTypeOK
  /\ \A u \in Updates \ overtaken : update[u].pc = "write" => update[u].read = email
  /\ \A u \in overtaken : update[u].pc # "new"
  /\ verified => email \in Excused

(* So is every address that tip mail is about to go to.                    *)
RecipientInv ==
  /\ reached \subseteq Excused
  /\ note.to \in Excused \cup {NoEmail}
  /\ note.pc \in {"window", "count", "send", "mark"} => note.to \in Excused
  /\ mailing \in {"send", "mark"} => recipient \in Excused

(* The rows a digest has in hand are complete hours: what else was         *)
(* recorded in one of these hours has been mailed, or was late.            *)
HoursComplete(S) ==
  \A g \in S :
    /\ created[g] < hour
    /\ \A t \in Tips : created[t] = created[g] => t \in S \/ Mailed(t) \/ t \in late

SentInv ==
  /\ MarkedWereMailed
  /\ \A t \in Tips \ handed : created[t] = NoHour
  /\ note.tip \subseteq handed
  /\ note.pc = "record" => \A t \in note.tip : created[t] = NoHour
  /\ note.pc = "mark" => \A t \in note.tip : mailedIn[t] # NoHour
  /\ note.hour <= hour
  /\ HoursComplete(pending) /\ HoursComplete(group)
  /\ mailing = "mark" => \A t \in group : digested[t] > 0

(* A tip still to be told of was told of before only through a failure.    *)
RepeatInv ==
  /\ DigestRepeatsNothing
  /\ pending \cap group = {}
  /\ mailing = "none" => group = {}
  /\ \A t \in Tips : digested[t] > faults =>
       /\ t \notin pending
       /\ IF t \in group THEN mailing = "mark" ELSE sent[t]

(* When the tip in hand was recorded, all mail so far was of an earlier    *)
(* window or of that hour: two tips cannot both be late for one window.    *)
LateInv ==
  /\ note.hour <= hour
  /\ \A t \in Tips : mailedIn[t] = NoHour \/ mailedIn[t] <= hour
  /\ \A t \in Tips \ handed : mailedIn[t] = NoHour
  /\ note.tip \subseteq handed
  /\ note.pc \in {"record", "window", "count", "send", "mark"} => \E t \in Tips : note.tip = {t}
  /\ \A t \in note.tip :
       /\ note.pc \in {"record", "window", "count", "send"} => mailedIn[t] = NoHour
       /\ note.pc \in {"window", "count", "send"} =>
            /\ created[t] <= (IF note.pc = "window" THEN hour ELSE note.hour)
            /\ \A u \in Tips : mailedIn[u] = NoHour \/ mailedIn[u] <= created[t]
  /\ note.pc = "record" => \A u \in Tips : mailedIn[u] = NoHour \/ mailedIn[u] <= note.hour
  /\ \A t, u \in Tips :
       /\ mailedIn[t] # NoHour /\ mailedIn[t] = mailedIn[u]
       /\ created[t] # mailedIn[t] /\ created[u] # mailedIn[u]
       => t = u

Own(h) == {t \in Tips : mailedIn[t] = h /\ created[t] = h}

(* Mail whose mark was lost; each loss was a failure.                      *)
Unmarked(h) == {t \in Own(h) : ~sent[t] /\ ~(note.pc = "mark" /\ t \in note.tip)}

CapAt(h) ==
  /\ Cardinality(Own(h)) <= MailCap + faults
  /\ note.pc = "send" /\ note.hour = h => Cardinality(Own(h)) < MailCap + faults
  /\ Cardinality(Unmarked(h)) <= faults

CapInv == \A h \in 0 .. MaxHour : CapAt(h)

(* Until something fails, a tip that was mailed by itself is marked, or    *)
(* about to be.                                                            *)
MarkInv ==
  faults = 0 => \A t \in Tips : mailedIn[t] # NoHour
                   => sent[t] \/ (note.pc = "mark" /\ t \in note.tip)

-----------------------------------------------------------------------------
(* Types.                                                                  *)

LEMMA InitType == Init => TypeOK
<1> SUFFICES ASSUME Init PROVE TypeOK
  OBVIOUS
<1> USE ContactAssumption, TipEmailAssumption DEF Init
<1>1. ContactTypeOK
  BY DEF ContactInit, ContactTypeOK
<1>2. /\ hour \in 0 .. MaxHour /\ faults \in 0 .. MaxFaults
      /\ created \in [Tips -> 0 .. NoHour] /\ mailedIn \in [Tips -> 0 .. NoHour]
  BY DEF NoHour
<1>3. sent \in [Tips -> BOOLEAN] /\ digested \in [Tips -> Nat]
  OBVIOUS
<1>4. /\ note \in [pc : {"idle", "record", "window", "count", "send", "mark"},
                   tip : SUBSET Tips, to : Addresses \cup {NoEmail}, hour : 0 .. MaxHour]
      /\ note.pc = "idle"
  BY DEF Idle
<1>5. QED
  BY <1>1, <1>2, <1>3, <1>4 DEF TypeOK, MailTypeOK

LEMMA ContactType == ContactTypeOK /\ [ContactNext]_contactVars => ContactTypeOK'
<1> SUFFICES ASSUME ContactTypeOK, [ContactNext]_contactVars PROVE ContactTypeOK'
  OBVIOUS
<1> USE DEF ContactTypeOK
<1>1. ASSUME NEW u \in Updates, ReadAddress(u) PROVE ContactTypeOK'
  BY <1>1 DEF ReadAddress
<1>2. ASSUME NEW u \in Updates, WriteAddress(u) PROVE ContactTypeOK'
  BY <1>2 DEF WriteAddress
<1>3. ASSUME NEW u \in Updates, SendLink(u) PROVE ContactTypeOK'
  <2>1. update[u].to \in Addresses
    BY <1>3 DEF SendLink
  <2>2. QED
    BY <1>3, <2>1 DEF SendLink
<1>4. ASSUME NEW u \in Updates, UpdateFails(u) PROVE ContactTypeOK'
  BY <1>4 DEF UpdateFails
<1>5. ASSUME NEW a \in Addresses, OpenLink(a) PROVE ContactTypeOK'
  BY <1>5 DEF OpenLink
<1>6. CASE UpdatePreferences
  BY <1>6 DEF UpdatePreferences
<1>7. CASE UNCHANGED contactVars
  BY <1>7 DEF contactVars
<1>8. QED
  BY <1>1, <1>2, <1>3, <1>4, <1>5, <1>6, <1>7 DEF ContactNext

LEMMA MailType ==
  ASSUME TypeOK, [Next]_vars
  PROVE  MailTypeOK'
<1> USE TipEmailAssumption DEF TypeOK, MailTypeOK, rows, digest, delivered, NoHour
<1>1. CASE Contact
  BY <1>1 DEF Contact, mailVars
<1>2. CASE Tick
  BY <1>2 DEF Tick
<1>3. ASSUME NEW t \in Tips, SendTipNotification(t) PROVE MailTypeOK'
  <2>1. (IF MailOn THEN email ELSE NoEmail) \in Addresses \cup {NoEmail}
    BY DEF ContactTypeOK
  <2>2. note' \in [pc : {"record"}, tip : SUBSET Tips, to : Addresses \cup {NoEmail},
                   hour : 0 .. MaxHour]
    BY <1>3, <2>1 DEF SendTipNotification
  <2>3. QED
    BY <1>3, <2>2 DEF SendTipNotification
<1>4. CASE CreateNotification
  <2>1. /\ note' \in [pc : {"idle", "window"}, tip : SUBSET Tips, to : Addresses \cup {NoEmail},
                      hour : 0 .. MaxHour]
        /\ note'.pc = "window" => note'.to # NoEmail
    BY <1>4 DEF CreateNotification, Idle
  <2>2. created' \in [Tips -> 0 .. MaxHour + 1]
    BY <1>4 DEF CreateNotification
  <2>3. QED
    BY <1>4, <2>1, <2>2 DEF CreateNotification
<1>5. CASE OpenWindow
  BY <1>5 DEF OpenWindow
<1>6. CASE CountSent
  <2>1. /\ note' \in [pc : {"idle", "send"}, tip : SUBSET Tips, to : Addresses \cup {NoEmail},
                      hour : 0 .. MaxHour]
        /\ note'.pc = "send" => note'.to # NoEmail
    BY <1>6 DEF CountSent, Idle
  <2>2. QED
    BY <1>6, <2>1 DEF CountSent
<1>7. CASE DeliverTip
  BY <1>7 DEF DeliverTip, MailTip
<1>8. CASE MarkTip
  <2>1. note' \in [pc : {"idle"}, tip : SUBSET Tips, to : Addresses \cup {NoEmail},
                   hour : 0 .. MaxHour]
    BY <1>8 DEF MarkTip, Idle
  <2>2. sent' \in [Tips -> BOOLEAN]
    BY <1>8 DEF MarkTip
  <2>3. QED
    BY <1>8, <2>1, <2>2 DEF MarkTip
<1>9. CASE NotificationFails
  <2>1. note' \in [pc : {"idle"}, tip : SUBSET Tips, to : Addresses \cup {NoEmail},
                   hour : 0 .. MaxHour]
    BY <1>9 DEF NotificationFails, Idle
  <2>2. CASE MailTip
    <3>1. mailedIn' \in [Tips -> 0 .. MaxHour + 1] /\ reached' \subseteq Addresses
      BY <1>9, <2>2 DEF MailTip, NotificationFails
    <3>2. QED
      BY <1>9, <2>1, <2>2, <3>1 DEF NotificationFails, Fault, MailTip
  <2>3. CASE UNCHANGED delivered
    BY <1>9, <2>1, <2>3 DEF NotificationFails, Fault
  <2>4. QED
    BY <1>9, <2>2, <2>3 DEF NotificationFails
<1>10. CASE ScanPending
  BY <1>10 DEF ScanPending, Pending
<1>11. CASE ReadRecipient
  BY <1>11 DEF ReadRecipient, ContactTypeOK, MailOn
<1>12. CASE DeliverDigest
  BY <1>12 DEF DeliverDigest, MailGroup
<1>13. CASE MarkDigest
  BY <1>13 DEF MarkDigest, MarkGroup, NextGroup
<1>14. CASE DigestFails
  <2>1. CASE mailing = "send" /\ MailGroup /\ UNCHANGED sent
    BY <1>14, <2>1 DEF DigestFails, Fault, MailGroup, NextGroup
  <2>2. CASE mailing = "send" /\ UNCHANGED delivered /\ UNCHANGED sent
    BY <1>14, <2>2 DEF DigestFails, Fault, NextGroup
  <2>3. CASE MarkGroup /\ UNCHANGED delivered
    BY <1>14, <2>3 DEF DigestFails, Fault, MarkGroup, NextGroup
  <2>4. CASE UNCHANGED sent /\ UNCHANGED delivered
    BY <1>14, <2>4 DEF DigestFails, Fault, NextGroup
  <2>5. QED
    BY <1>14, <2>1, <2>2, <2>3, <2>4 DEF DigestFails
<1>15. CASE Crash
  BY <1>15 DEF Crash, Fault, Idle, NextGroup
<1>16. CASE UNCHANGED vars
  BY <1>16 DEF vars, mailVars
<1>17. QED
  BY <1>1, <1>2, <1>3, <1>4, <1>5, <1>6, <1>7, <1>8, <1>9, <1>10, <1>11, <1>12, <1>13,
     <1>14, <1>15, <1>16 DEF Next, Notification, Digest

(* A step of the mail leaves the contact address alone.                    *)
LEMMA ContactStep == [Next]_vars => [ContactNext]_contactVars
BY DEF Next, vars, Contact, Tick, SendTipNotification, Notification, CreateNotification,
       OpenWindow, CountSent, DeliverTip, MarkTip, NotificationFails, Digest, ScanPending,
       ReadRecipient, DeliverDigest, MarkDigest, DigestFails, Crash

(* Types hold of every behaviour: no mail is on its way without an address,*)
(* however updates of the address, tips, digests and crashes interleave.   *)
THEOREM MailTypeCorrect == Spec => []TypeOK
<1>1. Init => TypeOK
  BY InitType
<1>2. TypeOK /\ [Next]_vars => TypeOK'
  BY ContactType, ContactStep, MailType DEF TypeOK
<1>3. QED
  BY <1>1, <1>2, PTL DEF Spec

-----------------------------------------------------------------------------
(* Addresses.                                                              *)

LEMMA ExcusedGrows ==
  ASSUME ContactInv, [ContactNext]_contactVars
  PROVE  Excused \subseteq Excused'
<1> USE DEF ContactInv, ContactTypeOK, Excused, OvertakenTo
<1>1. /\ proved \subseteq proved' /\ overtaken \subseteq overtaken'
      /\ \A u \in overtaken : update'[u].to = update[u].to
  BY DEF ContactNext, contactVars, ReadAddress, WriteAddress, SendLink, UpdateFails, OpenLink,
         UpdatePreferences
<1>2. QED
  BY <1>1

LEMMA ContactInductive ==
  ASSUME ContactInv, [ContactNext]_contactVars
  PROVE  ContactInv'
<1>0. Excused \subseteq Excused'
  BY ExcusedGrows
<1> USE ContactAssumption DEF ContactInv, ContactTypeOK
<1>1. ContactTypeOK'
  BY ContactType
<1>2. ASSUME NEW u \in Updates, ReadAddress(u) PROVE ContactInv'
  BY <1>0, <1>1, <1>2 DEF ReadAddress
<1>3. ASSUME NEW u \in Updates, WriteAddress(u) PROVE ContactInv'
  <2>1. /\ \A v \in Updates : v # u => update'[v] = update[v]
        /\ update'[u].pc \in {"done", "link"} /\ update'[u].to = update[u].to
        /\ overtaken' = overtaken \cup {v \in Updates \ {u} : update[v].pc = "write"}
        /\ email' = update[u].to /\ verified' = (verified /\ update[u].to = update[u].read)
        /\ update[u].pc = "write"
    BY <1>3 DEF WriteAddress
  <2>2. \A v \in Updates \ overtaken' : update'[v].pc # "write"
    BY <2>1
  <2>3. \A v \in overtaken' : update'[v].pc # "new"
    BY <2>1
  <2>4. ASSUME verified' PROVE email' \in Excused'
    <3>1. CASE u \in overtaken
      <4>1. update[u].to \in OvertakenTo
        BY <3>1 DEF OvertakenTo
      <4>2. QED
        BY <1>0, <2>1, <4>1 DEF Excused
    <3>2. CASE u \notin overtaken
      BY <1>0, <2>1, <2>4, <3>2
    <3>3. QED
      BY <3>1, <3>2
  <2>5. QED
    BY <1>1, <2>2, <2>3, <2>4
<1>4. ASSUME NEW u \in Updates, SendLink(u) PROVE ContactInv'
  BY <1>0, <1>1, <1>4 DEF SendLink
<1>5. ASSUME NEW u \in Updates, UpdateFails(u) PROVE ContactInv'
  BY <1>0, <1>1, <1>5 DEF UpdateFails
<1>6. ASSUME NEW a \in Addresses, OpenLink(a) PROVE ContactInv'
  BY <1>0, <1>1, <1>6 DEF OpenLink, Excused
<1>7. CASE UpdatePreferences
  BY <1>0, <1>1, <1>7 DEF UpdatePreferences
<1>8. CASE UNCHANGED contactVars
  BY <1>0, <1>1, <1>8 DEF contactVars
<1>9. QED
  BY <1>2, <1>3, <1>4, <1>5, <1>6, <1>7, <1>8 DEF ContactNext

LEMMA RecipientInductive ==
  ASSUME TypeOK, ContactInv, RecipientInv, [Next]_vars
  PROVE  RecipientInv'
<1>0. Excused \subseteq Excused'
  BY ContactStep, ExcusedGrows
<1> USE <1>0, ContactAssumption DEF RecipientInv, TypeOK, MailTypeOK, digest, delivered
<1>1. MailOn => email \in Excused
  BY DEF MailOn, ContactInv
<1>2. CASE Contact
  BY <1>2 DEF Contact, mailVars
<1>3. CASE Tick
  BY <1>3 DEF Tick
<1>4. ASSUME NEW t \in Tips, SendTipNotification(t) PROVE RecipientInv'
  BY <1>1, <1>4 DEF SendTipNotification
<1>5. CASE CreateNotification
  BY <1>5 DEF CreateNotification, Idle
<1>6. CASE OpenWindow
  BY <1>6 DEF OpenWindow
<1>7. CASE CountSent
  BY <1>7 DEF CountSent, Idle
<1>8. CASE DeliverTip
  BY <1>8 DEF DeliverTip, MailTip
<1>9. CASE MarkTip
  BY <1>9 DEF MarkTip, Idle
<1>10. CASE NotificationFails
  BY <1>10 DEF NotificationFails, MailTip, Idle
<1>11. CASE ScanPending
  BY <1>11 DEF ScanPending
<1>12. CASE ReadRecipient
  BY <1>1, <1>12 DEF ReadRecipient
<1>13. CASE DeliverDigest
  BY <1>13 DEF DeliverDigest, MailGroup
<1>14. CASE MarkDigest
  BY <1>14 DEF MarkDigest, NextGroup
<1>15. CASE DigestFails
  BY <1>15 DEF DigestFails, MailGroup, NextGroup
<1>16. CASE Crash
  BY <1>16 DEF Crash, NextGroup, Idle
<1>17. CASE UNCHANGED vars
  BY <1>17 DEF vars, mailVars, contactVars
<1>18. QED
  BY <1>2, <1>3, <1>4, <1>5, <1>6, <1>7, <1>8, <1>9, <1>10, <1>11, <1>12, <1>13, <1>14,
     <1>15, <1>16, <1>17 DEF Next, Notification, Digest

(* Tip mail goes only to addresses whose owner opened a link, or to those  *)
(* that an overtaken update wrote, whatever updates, links to former       *)
(* addresses and mails on their way interleave (creator.service.ts, lines  *)
(* 509-539).                                                               *)
THEOREM OnlyProvedAddresses == Spec => []MailOnlyToProved
<1> DEFINE I == TypeOK /\ ContactInv /\ RecipientInv
<1>1. Init => I
  <2> SUFFICES ASSUME Init PROVE I
    OBVIOUS
  <2>1. TypeOK
    BY InitType
  <2>2. ContactInv
    BY <2>1 DEF ContactInv, TypeOK, Init, ContactInit
  <2>3. RecipientInv
    BY DEF RecipientInv, Init, Idle
  <2>4. QED
    BY <2>1, <2>2, <2>3
<1>2. I /\ [Next]_vars => I'
  BY ContactType, ContactStep, MailType, ContactInductive, RecipientInductive DEF TypeOK
<1>3. I => MailOnlyToProved
  BY DEF RecipientInv, MailOnlyToProved, Excused
<1>4. QED
  BY <1>1, <1>2, <1>3, PTL DEF Spec

-----------------------------------------------------------------------------
(* Marks.                                                                  *)

LEMMA SentInductive ==
  ASSUME TypeOK, SentInv, [Next]_vars
  PROVE  SentInv'
<1> USE TipEmailAssumption
    DEF SentInv, MarkedWereMailed, HoursComplete, Mailed, TypeOK, MailTypeOK, NoHour,
        rows, digest, delivered
<1>1. CASE Contact
  BY <1>1 DEF Contact, mailVars
<1>2. CASE Tick
  BY <1>2 DEF Tick
<1>3. ASSUME NEW t \in Tips, SendTipNotification(t) PROVE SentInv'
  BY <1>3 DEF SendTipNotification
<1>4. CASE CreateNotification
  BY <1>4 DEF CreateNotification, InHand, Idle
<1>5. CASE OpenWindow
  BY <1>5 DEF OpenWindow
<1>6. CASE CountSent
  BY <1>6 DEF CountSent, Idle
<1>7. CASE DeliverTip
  BY <1>7 DEF DeliverTip, MailTip
<1>8. CASE MarkTip
  BY <1>8 DEF MarkTip, Idle
<1>9. CASE NotificationFails
  BY <1>9 DEF NotificationFails, Fault, MailTip, Idle
<1>10. CASE ScanPending
  BY <1>10 DEF ScanPending, Pending
<1>11. CASE ReadRecipient
  BY <1>11 DEF ReadRecipient
<1>12. CASE DeliverDigest
  BY <1>12 DEF DeliverDigest, MailGroup
<1>13. CASE MarkDigest
  BY <1>13 DEF MarkDigest, MarkGroup, HoursOfGroup, NextGroup
<1>14. CASE DigestFails
  BY <1>14 DEF DigestFails, Fault, MailGroup, MarkGroup, HoursOfGroup, NextGroup
<1>15. CASE Crash
  BY <1>15 DEF Crash, Fault, NextGroup, Idle
<1>16. CASE UNCHANGED vars
  BY <1>16 DEF vars, mailVars
<1>17. QED
  BY <1>1, <1>2, <1>3, <1>4, <1>5, <1>6, <1>7, <1>8, <1>9, <1>10, <1>11, <1>12, <1>13,
     <1>14, <1>15, <1>16 DEF Next, Notification, Digest

LEMMA RepeatInductive ==
  ASSUME TypeOK, RepeatInv, [Next]_vars
  PROVE  RepeatInv'
<1> USE TipEmailAssumption
    DEF RepeatInv, DigestRepeatsNothing, TypeOK, MailTypeOK, rows, digest, delivered
<1>1. CASE Contact
  BY <1>1 DEF Contact, mailVars
<1>2. CASE Tick
  BY <1>2 DEF Tick
<1>3. ASSUME NEW t \in Tips, SendTipNotification(t) PROVE RepeatInv'
  BY <1>3 DEF SendTipNotification
<1>4. CASE CreateNotification
  BY <1>4 DEF CreateNotification, Idle
<1>5. CASE OpenWindow
  BY <1>5 DEF OpenWindow
<1>6. CASE CountSent
  BY <1>6 DEF CountSent, Idle
<1>7. CASE DeliverTip
  BY <1>7 DEF DeliverTip, MailTip
<1>8. CASE MarkTip
  BY <1>8 DEF MarkTip, Idle
<1>9. CASE NotificationFails
  BY <1>9 DEF NotificationFails, Fault, MailTip, Idle
<1>10. CASE ScanPending
  BY <1>10 DEF ScanPending, Pending
<1>11. CASE ReadRecipient
  BY <1>11 DEF ReadRecipient
<1>12. CASE DeliverDigest
  BY <1>12 DEF DeliverDigest, MailGroup
<1>13. CASE MarkDigest
  BY <1>13 DEF MarkDigest, MarkGroup, HoursOfGroup, NextGroup
<1>14. CASE DigestFails
  BY <1>14 DEF DigestFails, Fault, MailGroup, MarkGroup, HoursOfGroup, NextGroup
<1>15. CASE Crash
  BY <1>15 DEF Crash, Fault, NextGroup, Idle
<1>16. CASE UNCHANGED vars
  BY <1>16 DEF vars, mailVars
<1>17. QED
  BY <1>1, <1>2, <1>3, <1>4, <1>5, <1>6, <1>7, <1>8, <1>9, <1>10, <1>11, <1>12, <1>13,
     <1>14, <1>15, <1>16 DEF Next, Notification, Digest

LEMMA MarkInductive ==
  ASSUME TypeOK, MarkInv, [Next]_vars
  PROVE  MarkInv'
<1> USE TipEmailAssumption
    DEF MarkInv, TypeOK, MailTypeOK, NoHour, rows, digest, delivered
<1>1. CASE Contact
  BY <1>1 DEF Contact, mailVars
<1>2. CASE Tick
  BY <1>2 DEF Tick
<1>3. ASSUME NEW t \in Tips, SendTipNotification(t) PROVE MarkInv'
  BY <1>3 DEF SendTipNotification, Idle
<1>4. CASE CreateNotification \/ OpenWindow \/ CountSent
  BY <1>4 DEF CreateNotification, OpenWindow, CountSent, Idle
<1>5. CASE DeliverTip
  BY <1>5 DEF DeliverTip, MailTip
<1>6. CASE MarkTip
  BY <1>6 DEF MarkTip, Idle
<1>7. CASE NotificationFails \/ DigestFails \/ Crash
  BY <1>7 DEF NotificationFails, DigestFails, Crash, Fault
<1>8. CASE ScanPending \/ ReadRecipient
  BY <1>8 DEF ScanPending, ReadRecipient
<1>9. CASE DeliverDigest
  BY <1>9 DEF DeliverDigest, MailGroup
<1>10. CASE MarkDigest
  BY <1>10 DEF MarkDigest, MarkGroup
<1>11. CASE UNCHANGED vars
  BY <1>11 DEF vars, mailVars
<1>12. QED
  BY <1>1, <1>2, <1>3, <1>4, <1>5, <1>6, <1>7, <1>8, <1>9, <1>10, <1>11
     DEF Next, Notification, Digest

(* Only a scan adds to what is pending, and only rows that are not marked. *)
LEMMA ScanFinds ==
  ASSUME TypeOK, RepeatInv, MarkInv, [Next]_vars,
         NEW t \in pending' \ pending, Mailed(t), faults = 0
  PROVE  t \in note.tip
<1>1. group = {} /\ t \in Tips /\ ~sent[t]
  BY DEF Next, Contact, mailVars, Tick, SendTipNotification, Notification, CreateNotification,
         OpenWindow, CountSent, DeliverTip, MarkTip, NotificationFails, Digest, ScanPending,
         ReadRecipient, DeliverDigest, MarkDigest, DigestFails, Crash, Pending, digest, vars
<1>2. ~(digested[t] > 0)
  BY <1>1 DEF RepeatInv
<1>3. mailedIn[t] # NoHour
  BY <1>2 DEF Mailed
<1>4. QED
  BY <1>1, <1>3 DEF MarkInv

-----------------------------------------------------------------------------
(* The cap.                                                                *)

LEMMA LateInductive ==
  ASSUME TypeOK, LateInv, [Next]_vars
  PROVE  LateInv'
<1> USE TipEmailAssumption
    DEF LateInv, TypeOK, MailTypeOK, NoHour, rows, digest, delivered
<1>1. CASE Contact
  BY <1>1 DEF Contact, mailVars
<1>2. CASE Tick
  BY <1>2 DEF Tick
<1>3. ASSUME NEW t \in Tips, SendTipNotification(t) PROVE LateInv'
  BY <1>3 DEF SendTipNotification
<1>4. CASE CreateNotification
  BY <1>4 DEF CreateNotification, Idle
<1>5. CASE OpenWindow
  BY <1>5 DEF OpenWindow
<1>6. CASE CountSent
  BY <1>6 DEF CountSent, Idle
<1>7. CASE DeliverTip
  BY <1>7 DEF DeliverTip, MailTip
<1>8. CASE MarkTip
  BY <1>8 DEF MarkTip, Idle
<1>9. CASE NotificationFails
  BY <1>9 DEF NotificationFails, Fault, MailTip, Idle
<1>10. CASE ScanPending
  BY <1>10 DEF ScanPending, Pending
<1>11. CASE ReadRecipient
  BY <1>11 DEF ReadRecipient
<1>12. CASE DeliverDigest
  BY <1>12 DEF DeliverDigest, MailGroup
<1>13. CASE MarkDigest
  BY <1>13 DEF MarkDigest, MarkGroup, HoursOfGroup, NextGroup
<1>14. CASE DigestFails
  BY <1>14 DEF DigestFails, Fault, MailGroup, MarkGroup, HoursOfGroup, NextGroup
<1>15. CASE Crash
  BY <1>15 DEF Crash, Fault, NextGroup, Idle
<1>16. CASE UNCHANGED vars
  BY <1>16 DEF vars, mailVars
<1>17. QED
  BY <1>1, <1>2, <1>3, <1>4, <1>5, <1>6, <1>7, <1>8, <1>9, <1>10, <1>11, <1>12, <1>13,
     <1>14, <1>15, <1>16 DEF Next, Notification, Digest

LEMMA SubsetCard ==
  ASSUME NEW S, IsFiniteSet(S), NEW R \in SUBSET S
  PROVE  IsFiniteSet(R) /\ Cardinality(R) \in Nat /\ Cardinality(R) <= Cardinality(S)
BY FS_Subset, FS_CardinalityType

LEMMA OneMoreCard ==
  ASSUME NEW S, IsFiniteSet(S), NEW x, NEW R \in SUBSET (S \cup {x})
  PROVE  Cardinality(R) \in Nat /\ Cardinality(R) <= Cardinality(S) + 1
<1>1. IsFiniteSet(S \cup {x}) /\ Cardinality(S \cup {x}) <= Cardinality(S) + 1
  <2>1. Cardinality(S) \in Nat
    BY FS_CardinalityType
  <2>2. /\ IsFiniteSet(S \cup {x})
        /\ Cardinality(S \cup {x})
             = IF x \in S THEN Cardinality(S) ELSE Cardinality(S) + 1
    BY FS_AddElement
  <2>3. QED
    BY <2>1, <2>2
<1>2. Cardinality(R) \in Nat /\ Cardinality(R) <= Cardinality(S \cup {x})
  BY <1>1, SubsetCard
<1>3. QED
  BY <1>1, <1>2, FS_CardinalityType

LEMMA OwnFinite ==
  ASSUME NEW h
  PROVE  /\ IsFiniteSet(Own(h)) /\ Cardinality(Own(h)) \in Nat
         /\ IsFiniteSet(Unmarked(h)) /\ Cardinality(Unmarked(h)) \in Nat
<1>1. Own(h) \subseteq Tips /\ Unmarked(h) \subseteq Tips
  BY DEF Own, Unmarked
<1>2. QED
  BY <1>1, TipEmailAssumption, SubsetCard

(* A step that mails and loses nothing in hour h keeps the cap of h.       *)
LEMMA CapKept ==
  ASSUME MailTypeOK, MailTypeOK', NEW h, CapAt(h), faults <= faults',
         Own(h)' \subseteq Own(h), Unmarked(h)' \subseteq Unmarked(h),
         note'.pc = "send" /\ note'.hour = h => note.pc = "send" /\ note.hour = h
  PROVE  CapAt(h)'
<1>1. /\ Cardinality(Own(h)') \in Nat /\ Cardinality(Own(h)') <= Cardinality(Own(h))
      /\ Cardinality(Unmarked(h)') \in Nat
      /\ Cardinality(Unmarked(h)') <= Cardinality(Unmarked(h))
  BY OwnFinite, SubsetCard
<1>2. QED
  BY <1>1, OwnFinite, TipEmailAssumption DEF CapAt, MailTypeOK

(* The mail of the tip in hand.                                            *)
LEMMA CapMail ==
  ASSUME MailTypeOK, MailTypeOK', LateInv, NEW h \in 0 .. MaxHour, CapAt(h),
         note.pc = "send", MailTip, UNCHANGED <<created, sent>>,
         note'.pc \in {"idle", "mark"},
         note'.pc = "mark" => note'.tip = note.tip /\ faults' = faults,
         note'.pc = "idle" => faults' = faults + 1
  PROVE  CapAt(h)'
<1>1. PICK t \in Tips : note.tip = {t}
  BY DEF LateInv
<1>2. /\ Own(h)' \subseteq Own(h) \cup {t}
      /\ h # note.hour => Own(h)' \subseteq Own(h)
      /\ note'.pc = "mark" => Unmarked(h)' \subseteq Unmarked(h)
      /\ Unmarked(h)' \subseteq Unmarked(h) \cup {t}
  BY <1>1 DEF Own, Unmarked, MailTip, MailTypeOK
<1>3. /\ Cardinality(Own(h)') \in Nat /\ Cardinality(Own(h)') <= Cardinality(Own(h)) + 1
      /\ h # note.hour => Cardinality(Own(h)') <= Cardinality(Own(h))
      /\ note'.pc = "mark" => Cardinality(Unmarked(h)') <= Cardinality(Unmarked(h))
      /\ Cardinality(Unmarked(h)') \in Nat
      /\ Cardinality(Unmarked(h)') <= Cardinality(Unmarked(h)) + 1
  BY <1>2, OwnFinite, SubsetCard, OneMoreCard
<1>4. QED
  BY <1>3, OwnFinite, TipEmailAssumption DEF CapAt, MailTypeOK

(* The count of an hour sees every mail of it but those that lost a mark.  *)
LEMMA CountSees ==
  ASSUME MailTypeOK, NEW h \in 0 .. MaxHour, CapAt(h), note.pc = "count", UnderCap(h)
  PROVE  Cardinality(Own(h)) < MailCap + faults
<1> DEFINE S == {t \in Tips : created[t] = h /\ sent[t]}
<1>1. IsFiniteSet(S) /\ Cardinality(S) \in Nat /\ Cardinality(S) < MailCap
  BY TipEmailAssumption, SubsetCard DEF UnderCap
<1>2. Own(h) \subseteq S \cup Unmarked(h)
  BY DEF Own, Unmarked
<1>3. /\ IsFiniteSet(S \cup Unmarked(h)) /\ Cardinality(S \cup Unmarked(h)) \in Nat
      /\ Cardinality(S \cup Unmarked(h)) <= Cardinality(S) + Cardinality(Unmarked(h))
  <2>1. IsFiniteSet(S \cap Unmarked(h)) /\ Cardinality(S \cap Unmarked(h)) \in Nat
    BY <1>1, SubsetCard
  <2>2. /\ IsFiniteSet(S \cup Unmarked(h))
        /\ Cardinality(S \cup Unmarked(h))
             = Cardinality(S) + Cardinality(Unmarked(h)) - Cardinality(S \cap Unmarked(h))
    BY <1>1, OwnFinite, FS_Union
  <2>3. Cardinality(S \cup Unmarked(h)) \in Nat
    BY <2>2, FS_CardinalityType
  <2>4. QED
    BY <1>1, <2>1, <2>2, <2>3, OwnFinite
<1>4. Cardinality(Own(h)) \in Nat /\ Cardinality(Own(h)) <= Cardinality(S \cup Unmarked(h))
  BY <1>2, <1>3, SubsetCard
<1>5. QED
  BY <1>1, <1>3, <1>4, OwnFinite, TipEmailAssumption DEF CapAt, MailTypeOK

LEMMA CapInductive ==
  ASSUME TypeOK, LateInv, CapInv, [Next]_vars
  PROVE  CapInv'
<1> SUFFICES ASSUME NEW h \in 0 .. MaxHour PROVE CapAt(h)'
  BY DEF CapInv
<1>0. /\ MailTypeOK /\ MailTypeOK' /\ CapAt(h)
      /\ faults \in Nat
  BY MailType, TipEmailAssumption DEF CapInv, TypeOK, MailTypeOK
<1> USE <1>0 DEF MailTypeOK, rows, digest, delivered
<1> DEFINE Kept == /\ Own(h)' \subseteq Own(h) /\ Unmarked(h)' \subseteq Unmarked(h)
                   /\ faults <= faults'
                   /\ note'.pc = "send" /\ note'.hour = h => note.pc = "send" /\ note.hour = h
<1>1. Kept => CapAt(h)'
  BY CapKept
<1> HIDE DEF Kept
<1>2. ASSUME UNCHANGED <<created, sent, mailedIn, note, faults>> PROVE Kept
  BY <1>2 DEF Own, Unmarked, Kept
<1>3. CASE Contact \/ Tick \/ UNCHANGED vars
  BY <1>1, <1>2, <1>3 DEF Contact, Tick, vars, mailVars
<1>4. ASSUME NEW t \in Tips, SendTipNotification(t) PROVE CapAt(h)'
  <2>1. Kept
    BY <1>4 DEF SendTipNotification, Idle, Own, Unmarked, Kept
  <2>2. QED
    BY <1>1, <2>1
<1>5. CASE CreateNotification
  <2>1. Own(h)' = Own(h)
    BY <1>5, TipEmailAssumption DEF CreateNotification, Own, LateInv, NoHour
  <2>2. Kept
    BY <1>5, <2>1 DEF CreateNotification, Idle, Unmarked, Kept
  <2>3. QED
    BY <1>1, <2>2
<1>6. CASE OpenWindow
  BY <1>1, <1>6 DEF OpenWindow, Own, Unmarked, Kept
<1>7. CASE CountSent
  <2>1. /\ Own(h)' = Own(h) /\ Unmarked(h)' = Unmarked(h) /\ faults' = faults
    BY <1>7 DEF CountSent, Idle, Own, Unmarked
  <2>2. CASE UnderCap(note.hour) /\ note.hour = h
    <3>1. Cardinality(Own(h)) < MailCap + faults
      BY <1>7, <2>2, CountSees DEF CountSent
    <3>2. QED
      BY <2>1, <3>1 DEF CapAt
  <2>3. CASE ~(UnderCap(note.hour) /\ note.hour = h)
    <3>1. ~(note'.pc = "send" /\ note'.hour = h)
      BY <1>7, <2>3 DEF CountSent, Idle
    <3>2. QED
      BY <2>1, <3>1 DEF CapAt
  <2>4. QED
    BY <2>2, <2>3
<1>8. CASE DeliverTip
  <2>1. note'.pc = "mark" /\ note'.tip = note.tip
    BY <1>8 DEF DeliverTip
  <2>2. QED
    BY <1>8, <2>1, CapMail DEF DeliverTip
<1>9. CASE MarkTip
  <2>1. /\ note'.pc = "idle" /\ faults' = faults /\ Own(h)' = Own(h)
        /\ sent' = [t \in Tips |-> sent[t] \/ t \in note.tip]
    BY <1>9 DEF MarkTip, Idle, Own
  <2>2. Unmarked(h)' \subseteq Unmarked(h)
    BY <2>1 DEF Unmarked, Own
  <2>3. Kept
    BY <2>1, <2>2 DEF Kept
  <2>4. QED
    BY <1>1, <2>3
<1>10. CASE ScanPending
  BY <1>1, <1>2, <1>10 DEF ScanPending
<1>11. CASE ReadRecipient
  BY <1>1, <1>2, <1>11 DEF ReadRecipient
<1>12. CASE DeliverDigest
  BY <1>1, <1>2, <1>12 DEF DeliverDigest, MailGroup
<1>13. ASSUME MarkGroup \/ UNCHANGED sent, UNCHANGED <<created, mailedIn, note>>,
              faults' \in {faults, faults + 1}
       PROVE  Kept
  BY <1>13 DEF MarkGroup, Own, Unmarked, Kept
<1>14. CASE MarkDigest
  BY <1>1, <1>13, <1>14 DEF MarkDigest
<1>15. CASE DigestFails
  BY <1>1, <1>13, <1>15 DEF DigestFails, Fault, MailGroup
<1>16. ASSUME note' = Idle, UNCHANGED <<created, sent, mailedIn>>, faults' = faults + 1
       PROVE  CapAt(h)'
  <2>1. Own(h)' = Own(h) /\ note'.pc = "idle"
    BY <1>16 DEF Own, Idle
  <2>2. \E t : Unmarked(h)' \subseteq Unmarked(h) \cup {t}
    BY <1>16 DEF Unmarked, Own, LateInv, Idle
  <2>3. Cardinality(Unmarked(h)') \in Nat /\ Cardinality(Unmarked(h)') <= Cardinality(Unmarked(h)) + 1
    BY <2>2, OwnFinite, OneMoreCard
  <2>4. QED
    BY <1>16, <2>1, <2>3, OwnFinite, TipEmailAssumption DEF CapAt
<1>17. CASE NotificationFails
  <2>1. CASE note.pc = "send" /\ MailTip
    BY <1>17, <2>1, CapMail DEF NotificationFails, Fault, Idle
  <2>2. CASE UNCHANGED delivered
    BY <1>16, <1>17, <2>2 DEF NotificationFails, Fault
  <2>3. QED
    BY <1>17, <2>1, <2>2 DEF NotificationFails
<1>18. CASE Crash
  BY <1>16, <1>18 DEF Crash, Fault
<1>19. QED
  BY <1>3, <1>4, <1>5, <1>6, <1>7, <1>8, <1>9, <1>10, <1>11, <1>12, <1>14, <1>15, <1>17,
     <1>18 DEF Next, Notification, Digest

-----------------------------------------------------------------------------
(* The theorems.                                                           *)

(* sentAt is only set on rows whose tip was mailed, although a digest      *)
(* marks whole hours, but for rows that joined an hour while a digest had  *)
(* it in hand (email.service.ts, lines 223 and 312-320).                   *)
THEOREM OnlyLateMarkedUnmailed == Spec => []MarkedWereMailed
<1>1. Init => SentInv
  BY TipEmailAssumption
     DEF Init, SentInv, MarkedWereMailed, HoursComplete, Idle
<1>2. TypeOK /\ SentInv /\ [Next]_vars => SentInv'
  BY SentInductive
<1>3. SentInv => MarkedWereMailed
  BY DEF SentInv
<1>4. QED
  BY <1>1, <1>2, <1>3, MailTypeCorrect, PTL DEF Spec

(* Without failures no tip is told of in two digests, and each failure     *)
(* repeats it at most once (lines 310-327).                                *)
THEOREM DigestsDoNotRepeat == Spec => []DigestRepeatsNothing
<1>1. Init => RepeatInv
  BY DEF Init, RepeatInv, DigestRepeatsNothing
<1>2. TypeOK /\ RepeatInv /\ [Next]_vars => RepeatInv'
  BY RepeatInductive
<1>3. RepeatInv => DigestRepeatsNothing
  BY DEF RepeatInv
<1>4. QED
  BY <1>1, <1>2, <1>3, MailTypeCorrect, PTL DEF Spec

(* A digest takes up a tip that was mailed only while the mark of its own  *)
(* mail is still under way, or after a failure, whatever the order of the  *)
(* two functions' awaits (email.service.ts, lines 200-228).                *)
THEOREM ScansTakeUnmailed == Spec => ScanTakesUnmailed
<1>1. Init => RepeatInv /\ MarkInv
  BY DEF Init, RepeatInv, DigestRepeatsNothing, MarkInv
<1>2. TypeOK /\ RepeatInv /\ MarkInv /\ [Next]_vars => (RepeatInv /\ MarkInv)'
  BY RepeatInductive, MarkInductive
<1>3. TypeOK /\ RepeatInv /\ MarkInv /\ [Next]_vars
        => [\A t \in pending' \ pending : Mailed(t) => t \in note.tip \/ faults > 0]_vars
  <2>1. TypeOK => faults = 0 \/ faults > 0
    BY TipEmailAssumption DEF TypeOK, MailTypeOK
  <2>2. QED
    BY <2>1, ScanFinds
<1>4. QED
  BY <1>1, <1>2, <1>3, MailTypeCorrect, PTL DEF Spec, ScanTakesUnmailed

LEMMA InitCap == Init => LateInv /\ CapInv
<1> SUFFICES ASSUME Init PROVE LateInv /\ CapInv
  OBVIOUS
<1>1. LateInv
  BY TipEmailAssumption DEF Init, LateInv, Idle
<1>2. ASSUME NEW h \in 0 .. MaxHour PROVE CapAt(h)
  <2>1. Own(h) = {} /\ Unmarked(h) = {} /\ note.pc = "idle" /\ faults = 0
    BY <1>2, TipEmailAssumption DEF Init, Own, Unmarked, NoHour, Idle
  <2>2. QED
    BY <2>1, FS_EmptySet, TipEmailAssumption DEF CapAt
<1>3. QED
  BY <1>1, <1>2 DEF CapInv

LEMMA CapInvBounds == TypeOK /\ LateInv /\ CapInv => CapOverrunBounded
<1> SUFFICES ASSUME TypeOK, LateInv, CapInv, NEW h \in 0 .. MaxHour
             PROVE  LET mailed == {t \in Tips : mailedIn[t] = h}
                        own    == {t \in mailed : created[t] = h}
                    IN /\ Cardinality(own) <= MailCap + faults
                       /\ Cardinality(mailed \ own) <= 1
  BY DEF CapOverrunBounded
<1> DEFINE mailed == {t \in Tips : mailedIn[t] = h}
           own    == {t \in mailed : created[t] = h}
<1>1. own = Own(h)
  BY DEF Own
<1>2. Cardinality(own) <= MailCap + faults
  BY <1>1 DEF CapInv, CapAt
<1>3. Cardinality(mailed \ own) <= 1
  <2>1. CASE mailed \ own = {}
    BY <2>1, FS_EmptySet
  <2>2. CASE mailed \ own # {}
    <3>1. PICK t \in mailed \ own : TRUE
      BY <2>2
    <3>2. mailed \ own = {t}
      BY <3>1, TipEmailAssumption DEF LateInv, NoHour
    <3>3. QED
      BY <3>2, FS_Singleton
  <2>3. QED
    BY <2>1, <2>2
<1>4. QED
  BY <1>2, <1>3

(* However tips, digests, hours and failures interleave, an hour has no    *)
(* more mails of its own tips than the cap and one for each failure, and   *)
(* at most one mail of an earlier tip.                                     *)
THEOREM CapHolds == Spec => []CapOverrunBounded
<1>1. Init => LateInv /\ CapInv
  BY InitCap
<1>2. TypeOK /\ LateInv /\ CapInv /\ [Next]_vars => (LateInv /\ CapInv)'
  BY LateInductive, CapInductive
<1>3. TypeOK /\ LateInv /\ CapInv => CapOverrunBounded
  BY CapInvBounds
<1>4. QED
  BY <1>1, <1>2, <1>3, MailTypeCorrect, PTL DEF Spec
=============================================================================
