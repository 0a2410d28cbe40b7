------------------------------ MODULE TipEmail ------------------------------
(***************************************************************************)
(* Tip mail of one creator: sendTipNotification and sendPendingTipDigests  *)
(* of src/modules/notifications/email.service.ts over the rows of          *)
(* Notification and the contact address.  One action per await; the clock  *)
(* is the UTC hour.  The indexer hands over one tip at a time and awaits   *)
(* it; the digest runs beside it on its own timer.  Every query names one  *)
(* creator or is split by creator, so one stands for all; the API key is   *)
(* set.  Deleting the creator, whose rows go with it, is left out.          *)
(***************************************************************************)
EXTENDS ContactEmail

CONSTANTS Tips,         \* the tips handed to sendTipNotification, each once
          MailCap,      \* config.notifications.emailMaxPerCreatorPerHour
          MaxHour,      \* bound of the model: the last hour
          MaxFaults     \* bound of the model: crashes, rejected and failed calls

ASSUME TipEmailAssumption ==
  /\ IsFiniteSet(Tips)
  /\ MailCap \in Nat /\ MaxHour \in Nat /\ MaxFaults \in Nat

VARIABLES
  hour,
  created, sent,   \* columns createdAt (its hour) and sentAt # null of a tip's row
  handed,          \* the tips handed over so far
  note,            \* sendTipNotification: where it waits, for which tip
  pending, group,  \* digest: rows of the groups still to do, of the one in hand
  mailing,         \* where the group in hand waits
  recipient,       \* digest: the address read for the group in hand
  mailedIn,        \* auxiliary: the window a tip was mailed in by itself
  digested,        \* auxiliary: how many digests told of a tip
  reached,         \* auxiliary: the addresses tip mail was sent to
  late,            \* auxiliary: the tips whose row joined an hour the digest had in hand
  faults

rows      == <<created, sent, late>>
digest    == <<pending, group, mailing, recipient>>
delivered == <<mailedIn, digested, reached>>
mailVars  == <<hour, rows, handed, note, digest, delivered, faults>>
vars      == <<contactVars, mailVars>>

NoHour == MaxHour + 1  \* no row, or not mailed

Idle == [pc |-> "idle", tip |-> {}, to |-> NoEmail, hour |-> 0]

\* Faulty variant: the hour just closed is left out.
Pending_Later(h) == {t \in Tips : created[t] + 1 < h /\ ~sent[t]}

Pending(h) == {t \in Tips : created[t] < h /\ ~sent[t]}

-----------------------------------------------------------------------------

Init == /\ ContactInit
        /\ hour = 0
        /\ created = [t \in Tips |-> NoHour] /\ sent = [t \in Tips |-> FALSE]
        /\ handed = {} /\ note = Idle
        /\ pending = {} /\ group = {} /\ mailing = "none" /\ recipient = NoEmail
        /\ mailedIn = [t \in Tips |-> NoHour] /\ digested = [t \in Tips |-> 0]
        /\ reached = {} /\ late = {}
        /\ faults = 0

Fault == faults < MaxFaults /\ faults' = faults + 1

Contact == ContactNext /\ UNCHANGED mailVars

Tick == /\ hour < MaxHour
        /\ hour' = hour + 1
        /\ UNCHANGED <<contactVars, rows, handed, note, digest, delivered, faults>>

(* The creator is read; what the row says then decides about this mail.    *)
SendTipNotification(t) ==
  /\ note = Idle
  /\ t \notin handed
  /\ handed' = handed \cup {t}
  /\ note' = [pc |-> "record", tip |-> {t}, to |-> IF MailOn THEN email ELSE NoEmail,
              hour |-> hour]
  /\ UNCHANGED <<contactVars, hour, rows, digest, delivered, faults>>

InHand == {created[t] : t \in pending \cup group}

(* The notification is stored; createdAt is the time of the insert, and    *)
(* the row is there when that commits, in the same hour or a later one.    *)
CreateNotification ==
  /\ note.pc = "record"
  /\ \E h \in note.hour .. hour :
       /\ created' = [t \in Tips |-> IF t \in note.tip THEN h ELSE created[t]]
       /\ late' = IF h \in InHand THEN late \cup note.tip ELSE late
  /\ note' = IF note.to = NoEmail THEN Idle ELSE [note EXCEPT !.pc = "window"]
  /\ UNCHANGED <<contactVars, hour, sent, handed, digest, delivered, faults>>

OpenWindow ==
  /\ note.pc = "window"
  /\ note' = [note EXCEPT !.pc = "count", !.hour = hour]
  /\ UNCHANGED <<contactVars, hour, rows, handed, digest, delivered, faults>>

\* Faulty variant: "<=" for "<" against the cap.
UnderCap_OffByOne(h) == Cardinality({t \in Tips : created[t] = h /\ sent[t]}) <= MailCap

UnderCap(h) == Cardinality({t \in Tips : created[t] = h /\ sent[t]}) < MailCap

CountSent ==
  /\ note.pc = "count"
  /\ note' = IF UnderCap(note.hour) THEN [note EXCEPT !.pc = "send"] ELSE Idle
  /\ UNCHANGED <<contactVars, hour, rows, handed, digest, delivered, faults>>

MailTip ==
  /\ mailedIn' = [t \in Tips |-> IF t \in note.tip THEN note.hour ELSE mailedIn[t]]
  /\ reached' = reached \cup {note.to}
  /\ UNCHANGED digested

DeliverTip ==
  /\ note.pc = "send"
  /\ MailTip
  /\ note' = [note EXCEPT !.pc = "mark"]
  /\ UNCHANGED <<contactVars, hour, rows, handed, digest, faults>>

MarkTip ==
  /\ note.pc = "mark"
  /\ sent' = [t \in Tips |-> sent[t] \/ t \in note.tip]
  /\ note' = Idle
  /\ UNCHANGED <<contactVars, hour, created, late, handed, digest, delivered, faults>>

(* Resend rejects the mail or a call fails, perhaps after it took effect.  *)
NotificationFails ==
  /\ note # Idle
  /\ Fault
  /\ note' = Idle
  /\ IF note.pc = "send" THEN MailTip \/ UNCHANGED delivered ELSE UNCHANGED delivered
  /\ UNCHANGED <<contactVars, hour, rows, handed, digest>>

\* Faulty variant: mailed rows are scanned too.
ScanPending_Sent ==
  /\ pending = {} /\ group = {}
  /\ pending' = {t \in Tips : created[t] < hour}
  /\ UNCHANGED <<contactVars, hour, rows, handed, note, group, mailing, recipient,
                 delivered, faults>>

(* sendPendingTipDigests: the pending rows of closed hours.                *)
ScanPending ==
  /\ pending = {} /\ group = {}
  /\ pending' = Pending(hour)
  /\ UNCHANGED <<contactVars, hour, rows, handed, note, group, mailing, recipient,
                 delivered, faults>>

(* The next group, all of one hour, and its creator: skipped if mail is    *)
(* off.                                                                    *)
ReadRecipient ==
  /\ group = {}
  /\ \E w \in {created[t] : t \in pending} :
       LET rowsOf == {t \in pending : created[t] = w}
       IN /\ pending' = pending \ rowsOf
          /\ IF MailOn
             THEN group' = rowsOf /\ mailing' = "send" /\ recipient' = email
             ELSE UNCHANGED <<group, mailing, recipient>>
  /\ UNCHANGED <<contactVars, hour, rows, handed, note, delivered, faults>>

MailGroup ==
  /\ digested' = [t \in Tips |-> IF t \in group THEN digested[t] + 1 ELSE digested[t]]
  /\ reached' = reached \cup {recipient}
  /\ UNCHANGED mailedIn

DeliverDigest ==
  /\ mailing = "send"
  /\ MailGroup
  /\ mailing' = "mark"
  /\ UNCHANGED <<contactVars, hour, rows, handed, note, pending, group, recipient, faults>>

NextGroup == group' = {} /\ mailing' = "none" /\ recipient' = NoEmail

HoursOfGroup == {created[t] : t \in group}

\* Faulty variant: the hour of the pass is marked, not the one of the group.
MarkGroup_CurrentHour == sent' = [t \in Tips |-> sent[t] \/ created[t] = hour]

(* updateMany over the hour, not over the rows that were mailed.           *)
MarkGroup == sent' = [t \in Tips |-> sent[t] \/ created[t] \in HoursOfGroup]

MarkDigest ==
  /\ mailing = "mark"
  /\ MarkGroup
  /\ NextGroup
  /\ UNCHANGED <<contactVars, hour, created, late, handed, note, pending, delivered, faults>>

(* Resend rejects the digest or a call fails, perhaps after it took        *)
(* effect: the group stays for the next pass.                              *)
DigestFails ==
  /\ Fault
  /\ \/ /\ mailing = "send"
        /\ MailGroup \/ UNCHANGED delivered
        /\ UNCHANGED sent
     \/ /\ mailing = "mark"
        /\ MarkGroup \/ UNCHANGED sent
        /\ UNCHANGED delivered
  /\ NextGroup
  /\ UNCHANGED <<contactVars, hour, created, late, handed, note, pending>>

(* The process dies and is started again.                                  *)
Crash ==
  /\ Fault
  /\ note' = Idle
  /\ pending' = {}
  /\ NextGroup
  /\ UNCHANGED <<contactVars, hour, rows, handed, delivered>>

Notification == CreateNotification \/ OpenWindow \/ CountSent \/ DeliverTip \/ MarkTip

Digest == (ScanPending /\ pending' # {}) \/ ReadRecipient \/ DeliverDigest \/ MarkDigest

Next == \/ Contact
        \/ Tick
        \/ \E t \in Tips : SendTipNotification(t)
        \/ Notification \/ NotificationFails
        \/ Digest \/ DigestFails
        \/ Crash

Spec == Init /\ [][Next]_vars

(* The clock runs, and every await of either function ends.                *)
Fairness == WF_vars(Tick) /\ WF_vars(Notification) /\ WF_vars(Digest)

FairSpec == Spec /\ Fairness

-----------------------------------------------------------------------------
(* Properties.                                                             *)

MailTypeOK ==
  /\ hour \in 0 .. MaxHour
  /\ created \in [Tips -> 0 .. NoHour] /\ sent \in [Tips -> BOOLEAN]
  /\ handed \subseteq Tips
  /\ note \in [pc : {"idle", "record", "window", "count", "send", "mark"},
               tip : SUBSET Tips, to : Addresses \cup {NoEmail}, hour : 0 .. MaxHour]
  /\ note.pc \in {"window", "count", "send", "mark"} => note.to # NoEmail
  /\ pending \subseteq Tips /\ group \subseteq Tips
  /\ mailing \in {"none", "send", "mark"} /\ recipient \in Addresses \cup {NoEmail}
  /\ mailing # "none" => recipient # NoEmail
  /\ mailedIn \in [Tips -> 0 .. NoHour] /\ digested \in [Tips -> Nat]
  /\ reached \subseteq Addresses /\ late \subseteq Tips
  /\ faults \in 0 .. MaxFaults

(* Every variable has its type, and a mail on its way has an address.      *)
TypeOK == ContactTypeOK /\ MailTypeOK

Mailed(t) == mailedIn[t] # NoHour \/ digested[t] > 0

(* The digest marks every unsent row of an hour, not the rows it mailed:   *)
(* what it marks without mailing is a row that became visible while it had *)
(* that hour in hand, and nothing else (email.service.ts, lines 220-320).  *)
MarkedWereMailed == \A t \in Tips : sent[t] => Mailed(t) \/ t \in late

(* README.md, line 626: "sentAt is set only after Resend accepts the       *)
(* email".                                                                 *)
SentMeansMailed == \A t \in Tips : sent[t] => Mailed(t)

(* Of the tips recorded in an hour no more than the cap are mailed in it   *)
(* by themselves, and one more for every mail whose mark failed.  The only *)
(* mail beyond them is that of one tip recorded just before the hour, which*)
(* the count cannot see (email.service.ts, lines 170-190).                 *)
CapOverrunBounded ==
  \A h \in 0 .. MaxHour :
    LET mailed == {t \in Tips : mailedIn[t] = h}
        own    == {t \in mailed : created[t] = h}
    IN /\ Cardinality(own) <= MailCap + faults
       /\ Cardinality(mailed \ own) <= 1

(* A tip is told of in a second digest only after a failure.               *)
DigestRepeatsNothing == \A t \in Tips : digested[t] <= 1 + faults

(* The digest takes up a tip that was already mailed only while its own    *)
(* mail is still being marked, or after a failure (lines 200-228).         *)
ScanTakesUnmailed ==
  [][\A t \in pending' \ pending : Mailed(t) => t \in note.tip \/ faults > 0]_vars

(* Tip mail reaches only addresses whose owner opened a link, whatever     *)
(* updates, links to former addresses and reads of the row come between,   *)
(* but for the address of an update that another overtook: it may keep the *)
(* mark of an address it never read (creator.service.ts, lines 509-539).   *)
MailOnlyToProved == reached \subseteq proved \cup OvertakenTo

(* email.service.ts, line 4: "Individual emails are capped per creator and *)
(* UTC clock hour".                                                        *)
CapRespected == \A h \in 0 .. MaxHour : Cardinality({t \in Tips : mailedIn[t] = h}) <= MailCap

(* Every recorded tip of a closed hour is mailed, unless mail is off or    *)
(* its row was late and the mark of the digest took it along.              *)
EveryTipMailed ==
  \A t \in Tips :
    created[t] < MaxHour ~> Mailed(t) \/ ~MailOn \/ (sent[t] /\ t \in late)
=============================================================================
