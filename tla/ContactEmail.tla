---------------------------- MODULE ContactEmail ----------------------------
(***************************************************************************)
(* The contact address of a creator and its confirmation: updateProfile of *)
(* src/modules/creator/creator.service.ts, the routes PATCH /me and GET    *)
(* /email/verify of creator.routes.ts and the switch of                    *)
(* src/modules/notifications/preferences.service.ts.  One creator stands   *)
(* for all, since every statement names one.                               *)
(***************************************************************************)
EXTENDS Naturals, FiniteSets

CONSTANTS Addresses,  \* e-mail addresses
          NoEmail,    \* null
          Updates     \* PATCH /me requests with an email key, each made once

ASSUME ContactAssumption == NoEmail \notin Addresses

VARIABLES email, verified,  \* columns email, emailVerifiedAt # null
          emailEnabled,     \* column of that name
          update,           \* the requests and where each of them is
          links,            \* the addresses a confirmation link was mailed to
          proved,           \* auxiliary: the addresses whose link was opened
          overtaken         \* auxiliary: the requests that read before another's write
                            \* and write after it

contactVars == <<email, verified, emailEnabled, update, links, proved, overtaken>>

-----------------------------------------------------------------------------

ContactInit ==
  /\ email = NoEmail /\ verified = FALSE /\ emailEnabled = TRUE
  /\ update = [u \in Updates |-> [pc |-> "new", to |-> NoEmail, read |-> NoEmail]]
  /\ links = {} /\ proved = {} /\ overtaken = {}

(* updateProfile up to its first await and the read of the address.        *)
ReadAddress(u) ==
  /\ update[u].pc = "new"
  /\ \E a \in Addresses \cup {NoEmail} :
       update' = [update EXCEPT ![u] = [pc |-> "write", to |-> a, read |-> email]]
  /\ UNCHANGED <<email, verified, emailEnabled, links, proved, overtaken>>

(* The update: an address other than the one read loses the mark; one that *)
(* is not verified is sent a link.                                         *)
WriteAddress(u) ==
  /\ update[u].pc = "write"
  /\ email' = update[u].to
  /\ verified' = (verified /\ update[u].to = update[u].read)
  /\ update' = [update EXCEPT
       ![u].pc = IF update[u].to = NoEmail \/ verified' THEN "done" ELSE "link"]
  /\ overtaken' = overtaken \cup {v \in Updates \ {u} : update[v].pc = "write"}
  /\ UNCHANGED <<emailEnabled, links, proved>>

(* sendEmailVerificationEmail, which may fail.                             *)
SendLink(u) ==
  /\ update[u].pc = "link"
  /\ update' = [update EXCEPT ![u].pc = "done"]
  /\ links' \in {links, links \cup {update[u].to}}
  /\ UNCHANGED <<email, verified, emailEnabled, proved, overtaken>>

UpdateFails(u) ==
  /\ update[u].pc = "write"
  /\ update' = [update EXCEPT ![u].pc = "done"]
  /\ UNCHANGED <<email, verified, emailEnabled, links, proved, overtaken>>

(* GET /email/verify: the link is opened where it was sent to and marks    *)
(* that address, if it is still the creator's.                             *)
OpenLink(a) ==
  /\ a \in links
  /\ proved' = proved \cup {a}
  /\ verified' = (verified \/ email = a)
  /\ UNCHANGED <<email, emailEnabled, update, links, overtaken>>

UpdatePreferences ==
  /\ emailEnabled' = ~emailEnabled
  /\ UNCHANGED <<email, verified, update, links, proved, overtaken>>

ContactNext ==
  \/ \E u \in Updates : ReadAddress(u) \/ WriteAddress(u) \/ SendLink(u) \/ UpdateFails(u)
  \/ \E a \in Addresses : OpenLink(a)
  \/ UpdatePreferences

ContactSpec == ContactInit /\ [][ContactNext]_contactVars

\* Faulty variant: emailVerifiedAt is not asked for.
MailOn_Unverified == emailEnabled /\ email # NoEmail

(* The addresses that overtaken updates write.                             *)
OvertakenTo == {update[u].to : u \in overtaken}

(* Whether tip mail may be sent as the row stands.                         *)
MailOn == emailEnabled /\ email # NoEmail /\ verified

-----------------------------------------------------------------------------
(* Properties.                                                             *)

(* Types of the columns and of the requests; a link is mailed somewhere.   *)
ContactTypeOK ==
  /\ email \in Addresses \cup {NoEmail} /\ verified \in BOOLEAN /\ emailEnabled \in BOOLEAN
  /\ update \in [Updates -> [pc : {"new", "write", "link", "done"},
                             to : Addresses \cup {NoEmail}, read : Addresses \cup {NoEmail}]]
  /\ \A u \in Updates : update[u].pc = "link" => update[u].to # NoEmail
  /\ links \subseteq Addresses /\ proved \subseteq links /\ overtaken \subseteq Updates

(* schema.prisma, emailVerifiedAt: "Set only after the creator proves      *)
(* control of the notification address".                                   *)
VerifiedIsProved == verified => email \in proved
=============================================================================
