----------------------------- MODULE ProfileCache -----------------------------
(***************************************************************************)
(* The public profiles of src/modules/creator/creator.service.ts and their *)
(* cache in src/redis.ts: getCreatorBySlug reads through it, a write of a  *)
(* profile is followed by the invalidation of its names.  The routes of a  *)
(* profile, its QR code and the tip page all read this way.                *)
(***************************************************************************)
EXTENDS Integers, Sequences, FiniteSets

CONSTANTS Creators,   \* each has a placeholder slug named like itself
          Slugs,      \* the slugs to claim
          Readers,    \* requests for a profile
          MaxWrites,  \* updates of a profile
          MaxFaults   \* invalidations that never happen

ASSUME CacheAssumption ==
  /\ Creators \cap Slugs = {} /\ "none" \notin Creators \cup Slugs
  /\ MaxWrites \in Nat /\ MaxFaults \in Nat

Names == Creators \cup Slugs

VARIABLES
  slug,           \* of a creator, "none" without a row
  version,        \* counts the changes of a creator's public columns
  profiles,       \* the cached entry creator:<name>, or NoEntry
  invalidations,  \* those a creator's request has still to make
  found,          \* the row a reader found and has still to cache
  excused,        \* names whose entry may be out of date
  writes, faults

rowVars == <<slug, version, writes>>
profileVars == <<rowVars, profiles, invalidations, found, excused, faults>>

NoEntry == [of |-> "none", version |-> 0]

Profile(c) == [of |-> c, version |-> version[c]]

(* What findUnique by slug answers.                                        *)
Lookup(n) == IF \E c \in Creators : slug[c] = n
             THEN Profile(CHOOSE c \in Creators : slug[c] = n)
             ELSE NoEntry

ProfileInit == /\ slug = [c \in Creators |-> c]
               /\ version = [c \in Creators |-> 0]
               /\ profiles = [n \in Names |-> NoEntry]
               /\ invalidations = [c \in Creators |-> <<>>]
               /\ found = [r \in Readers |-> <<>>]
               /\ excused = {}
               /\ writes = 0 /\ faults = 0

-----------------------------------------------------------------------------
(* The writes of a creator, who awaits the answer of one before the next.  *)
(* A name that was left may be taken by anyone: its hold may have lapsed.  *)

Write(c) == /\ slug[c] # "none" /\ invalidations[c] = <<>>
            /\ writes < MaxWrites /\ writes' = writes + 1

Free(n) == \A c \in Creators : slug[c] # n

(* updateProfile and updateCreatorSplits.                                  *)
UpdateProfile(c) ==
  /\ Write(c)
  /\ version' = [version EXCEPT ![c] = @ + 1]
  /\ invalidations' = [invalidations EXCEPT ![c] = <<slug[c]>>]
  /\ UNCHANGED <<slug, profiles, found, excused, faults>>

(* claimSlug changes slug, jar and splits.  Only the new name is           *)
(* invalidated: what is cached under the placeholder stays until it        *)
(* expires.                                                                *)
ClaimSlug(c, n) ==
  /\ Write(c)
  /\ slug[c] = c /\ n \in Slugs /\ Free(n)
  /\ slug' = [slug EXCEPT ![c] = n]
  /\ version' = [version EXCEPT ![c] = @ + 1]
  /\ invalidations' = [invalidations EXCEPT ![c] = <<n>>]
  /\ excused' = excused \cup {c}
  /\ UNCHANGED <<profiles, found, faults>>

\* Faulty variant: the old name is not invalidated.
RenameSlug_NewOnly(c, n) ==
  /\ Write(c)
  /\ slug[c] # n /\ n \in Slugs /\ Free(n)
  /\ slug' = [slug EXCEPT ![c] = n]
  /\ invalidations' = [invalidations EXCEPT ![c] = <<n>>]
  /\ UNCHANGED <<version, profiles, found, excused, faults>>

RenameSlug(c, n) ==
  /\ Write(c)
  /\ slug[c] # n /\ n \in Slugs /\ Free(n)
  /\ slug' = [slug EXCEPT ![c] = n]
  /\ invalidations' = [invalidations EXCEPT ![c] = <<slug[c], n>>]
  /\ UNCHANGED <<version, profiles, found, excused, faults>>

DeleteCreator(c) ==
  /\ Write(c)
  /\ slug' = [slug EXCEPT ![c] = "none"]
  /\ invalidations' = [invalidations EXCEPT ![c] = <<slug[c]>>]
  /\ UNCHANGED <<version, profiles, found, excused, faults>>

Drop(n) == /\ profiles' = [profiles EXCEPT ![n] = NoEntry]
           /\ excused' = excused \ {n}

CacheInvalidate(c) ==
  /\ invalidations[c] # <<>>
  /\ Drop(Head(invalidations[c]))
  /\ invalidations' = [invalidations EXCEPT ![c] = Tail(@)]
  /\ UNCHANGED <<rowVars, found, faults>>

(* The delete fails, which is logged and left at that.                     *)
InvalidationFails(c) ==
  /\ faults < MaxFaults /\ faults' = faults + 1
  /\ invalidations[c] # <<>>
  /\ excused' = excused \cup {Head(invalidations[c])}
  /\ invalidations' = [invalidations EXCEPT ![c] = Tail(@)]
  /\ UNCHANGED <<rowVars, profiles, found>>

(* The request ends with an error, or the process does, after its write.   *)
RequestCutOff(c) ==
  /\ faults < MaxFaults /\ faults' = faults + 1
  /\ invalidations[c] # <<>>
  /\ excused' = excused \cup {invalidations[c][i] : i \in 1 .. Len(invalidations[c])}
  /\ invalidations' = [invalidations EXCEPT ![c] = <<>>]
  /\ UNCHANGED <<rowVars, profiles, found>>

-----------------------------------------------------------------------------
(* The readers.                                                            *)

(* getCreatorBySlug without a hit: no entry, or a lookup that failed, or a *)
(* corrupt entry, which is evicted.  An unknown name is answered 404.      *)
FindCreator(r, n) ==
  /\ found[r] = <<>>
  /\ Lookup(n) # NoEntry
  /\ found' = [found EXCEPT ![r] = <<n, Lookup(n)>>]
  /\ UNCHANGED <<rowVars, profiles, invalidations, excused, faults>>

(* What was found is cached, or the write fails.  Since the read it may    *)
(* have changed, and its invalidation may be over.                         *)
CacheSet(r) ==
  /\ found[r] # <<>>
  /\ LET n == found[r][1]
         row == found[r][2]
     IN \/ /\ profiles' = [profiles EXCEPT ![n] = row]
           /\ excused' = IF row = Lookup(n) THEN excused \ {n} ELSE excused \cup {n}
        \/ UNCHANGED <<profiles, excused>>
  /\ found' = [found EXCEPT ![r] = <<>>]
  /\ UNCHANGED <<rowVars, invalidations, faults>>

\* Faulty variant: entries are set without a time to live.
ExpireProfile_Never(n) == FALSE /\ UNCHANGED profileVars

(* PROFILE_CACHE_TTL is over.                                              *)
ExpireProfile(n) ==
  /\ profiles[n] # NoEntry
  /\ Drop(n)
  /\ UNCHANGED <<rowVars, invalidations, found, faults>>

ProfileNext == \/ \E c \in Creators :
                    \/ UpdateProfile(c) \/ DeleteCreator(c)
                    \/ \E n \in Slugs : ClaimSlug(c, n) \/ RenameSlug(c, n)
                    \/ CacheInvalidate(c) \/ InvalidationFails(c) \/ RequestCutOff(c)
               \/ \E r \in Readers : CacheSet(r) \/ \E n \in Names : FindCreator(r, n)
               \/ \E n \in Names : ExpireProfile(n)

ProfileSpec == ProfileInit /\ [][ProfileNext]_profileVars

(* Redis answers or fails, and forgets an entry in time.                   *)
ProfileFairness == /\ \A c \in Creators : WF_profileVars(CacheInvalidate(c))
                   /\ \A r \in Readers : WF_profileVars(CacheSet(r))
                   /\ \A n \in Names : WF_profileVars(ExpireProfile(n))

ProfileFairSpec == ProfileSpec /\ ProfileFairness

-----------------------------------------------------------------------------
(* Properties.                                                             *)

(* What an entry may hold: a profile as it is or was.                      *)
Entries == [of : Creators, version : 0 .. MaxWrites]

(* The types, and one holder of a name.                                    *)
ProfileTypeOK ==
  /\ slug \in [Creators -> Names \cup {"none"}]
  /\ \A c, d \in Creators : slug[c] = slug[d] /\ slug[c] # "none" => c = d
  /\ version \in [Creators -> 0 .. writes] /\ writes \in 0 .. MaxWrites
  /\ profiles \in [Names -> Entries \cup {NoEntry}]
  /\ invalidations \in [Creators -> Seq(Names)]
  /\ \A c \in Creators : Len(invalidations[c]) <= 2
  /\ found \in [Readers -> {<<>>} \cup (Names \X Entries)]
  /\ excused \subseteq Names
  /\ faults \in 0 .. MaxFaults

Fresh(n) == profiles[n] \in {NoEntry, Lookup(n)}

Invalidated(n) ==
  \E c \in Creators : \E i \in 1 .. Len(invalidations[c]) : invalidations[c][i] = n

(* A profile is out of date in the cache only while its invalidation is on *)
(* the way, or for one of the reasons the code accepts: the invalidation   *)
(* failed or was cut off, the row was read before the write and cached     *)
(* after it, or a claim left the name, a placeholder (lines 299-303,       *)
(* 383-386, 437, 479-504, 537 and 554).                                    *)
StaleOnlyExcused == \A n \in Names : Fresh(n) \/ Invalidated(n) \/ n \in excused

(* After the last write every name is served as it is, for good, whatever  *)
(* readers raced with the writes and whichever invalidations were lost:    *)
(* every entry expires (lines 41 and 502; redis.ts, line 101).             *)
FreshAgain == \A n \in Names : <>[]Fresh(n)
=============================================================================
