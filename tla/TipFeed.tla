------------------------------ MODULE TipFeed ------------------------------
(***************************************************************************)
(* The lists of a creator that clients page through while they grow: the   *)
(* dashboard feed, the public feed, the CSV export                         *)
(* (src/modules/analytics/analytics.service.ts) and the notifications      *)
(* (src/modules/notifications/notifications.service.ts), and the pages     *)
(* cached in Redis.                                                        *)
(*                                                                         *)
(* A row is its unique key, with the ledger time it has in the list.  It   *)
(* enters the list at any time and place: the claim of a slug attaches old *)
(* tips.  A cursor is the key of the row it encodes.                       *)
(***************************************************************************)
EXTENDS Integers, FiniteSets

CONSTANTS Keys,
          Ledgers,     \* bound: the ledger times
          Kinds,       \* the lists that are read
          Takes,       \* the page sizes clients ask for
          Walks        \* the clients, each of which reads a list to its end

AllKinds == {"recent", "public", "export", "notifications"}

ASSUME FeedAssumption ==
  /\ Keys \subseteq Nat \ {0} /\ IsFiniteSet(Keys)
  /\ Ledgers \in Nat
  /\ Kinds \subseteq AllKinds
  /\ Takes \subseteq Nat \ {0}

NoRow == 0
Times == 0 .. Ledgers
Positions == Keys \cup {NoRow}

VARIABLES
  ledger,   \* the ledger time of a row, 0 while it is not in the list
  cache,    \* the pages in Redis
  walk      \* how far a client got, and what it has seen

vars == <<ledger, cache, walk>>

Pages == [rows : SUBSET Keys, next : Positions, known : SUBSET Keys]
NoPage == [rows |-> {}, next |-> NoRow, known |-> {}]

Init ==
  /\ ledger = [k \in Keys |-> 0]
  /\ cache = {}
  /\ walk = [w \in Walks |-> [stage |-> "idle", kind |-> "export", take |-> 1,
       after |-> NoRow, offset |-> 0, page |-> NoPage,
       seen |-> {}, repeated |-> FALSE, floor |-> {}]]

Rows == {k \in Keys : ledger[k] > 0}

AddRow(k, l) ==
  /\ k \notin Rows
  /\ ledger' = [ledger EXCEPT ![k] = l]
  /\ UNCHANGED <<cache, walk>>

-----------------------------------------------------------------------------
(* Queries.                                                                *)

(* ORDER BY "ledgerAt" DESC, <key> DESC: k comes after j.                  *)
Older(k, j) == ledger[k] < ledger[j] \/ (ledger[k] = ledger[j] /\ k < j)

\* Faulty variant: a cursor that names a ledger time only.
RowsAfter_LedgerOnly(c) ==
  IF c = NoRow THEN Rows ELSE {k \in Rows : ledger[k] < ledger[c]}

RowsAfter(c) ==
  IF c = NoRow THEN Rows
  ELSE {k \in Rows : \/ ledger[k] < ledger[c]
                     \/ ledger[k] = ledger[c] /\ k < c}

(* LIMIT n.                                                                *)
Newest(page, rows, n) ==
  /\ page \subseteq rows
  /\ Cardinality(page) = IF Cardinality(rows) < n THEN Cardinality(rows) ELSE n
  /\ \A k \in page, j \in rows \ page : Older(j, k)

Last(k, page) == k \in page /\ \A j \in page \ {k} : Older(k, j)

(* A lookahead row tells a feed that there is more, a full batch the       *)
(* export.                                                                 *)
HasMore(kind, rows, n) ==
  IF kind = "export" THEN Cardinality(rows) >= n ELSE Cardinality(rows) > n

PagesOf(kind, rows, n) ==
  {p \in [rows : SUBSET rows, next : rows \cup {NoRow}, known : {Rows}] :
     /\ Newest(p.rows, rows, n)
     /\ IF HasMore(kind, rows, n) THEN Last(p.next, p.rows) ELSE p.next = NoRow}

-----------------------------------------------------------------------------
(* A client reads a list to its end.                                       *)

Cached(kind) == kind \in {"recent", "public"}

KeyOf(q) == [kind |-> q.kind, take |-> q.take, after |-> q.after]

StartWalk(w, kind, take) ==
  /\ walk[w].stage \in {"idle", "ended"}
  /\ walk' = [walk EXCEPT ![w] =
       [stage |-> IF Cached(kind) THEN "looking" ELSE "querying", kind |-> kind,
        take |-> take, after |-> NoRow, offset |-> 0, page |-> NoPage,
        seen |-> {}, repeated |-> FALSE, floor |-> Keys]]
  /\ UNCHANGED <<ledger, cache>>

(* The page is answered; its cursor, if any, is the next request.          *)
Turn(q, page) ==
  [q EXCEPT !.stage = IF page.next = NoRow THEN "ended"
                      ELSE IF Cached(q.kind) THEN "looking" ELSE "querying",
            !.after = page.next, !.offset = @ + Cardinality(page.rows),
            !.page = NoPage,
            !.seen = @ \cup page.rows,
            !.repeated = @ \/ page.rows \cap q.seen # {},
            !.floor = @ \cap page.known]

LookUp(w) ==
  /\ walk[w].stage = "looking"
  /\ \/ \E e \in cache : e.key = KeyOf(walk[w])
          /\ walk' = [walk EXCEPT ![w] = Turn(@, e.page)]
     \/ /\ \A e \in cache : e.key # KeyOf(walk[w])
        /\ walk' = [walk EXCEPT ![w].stage = "querying"]
  /\ UNCHANGED <<ledger, cache>>

QueryCached(w) ==
  /\ walk[w].stage = "querying" /\ Cached(walk[w].kind)
  /\ \E p \in PagesOf(walk[w].kind, RowsAfter(walk[w].after), walk[w].take) :
       walk' = [walk EXCEPT ![w].page = p, ![w].stage = "storing"]
  /\ UNCHANGED <<ledger, cache>>

StorePage(w) ==
  LET q == walk[w] IN
  /\ q.stage = "storing"
  /\ cache' = {e \in cache : e.key # KeyOf(q)} \cup {[key |-> KeyOf(q), page |-> q.page]}
  /\ walk' = [walk EXCEPT ![w] = Turn(q, q.page)]
  /\ UNCHANGED ledger

(* cacheSet gives up when Redis fails.                                     *)
SkipStore(w) ==
  /\ walk[w].stage = "storing"
  /\ walk' = [walk EXCEPT ![w] = Turn(@, @.page)]
  /\ UNCHANGED <<ledger, cache>>

ExportBatch(w) ==
  /\ walk[w].stage = "querying" /\ walk[w].kind = "export"
  /\ \E p \in PagesOf("export", RowsAfter(walk[w].after), walk[w].take) :
       walk' = [walk EXCEPT ![w] = Turn(@, p)]
  /\ UNCHANGED <<ledger, cache>>

(* The route hands the service its limit and offset, but not its cursor.   *)
ListNotifications(w) ==
  /\ walk[w].stage = "querying" /\ walk[w].kind = "notifications"
  /\ \E skipped \in SUBSET Rows : Newest(skipped, Rows, walk[w].offset) /\
       \E p \in PagesOf("notifications", Rows \ skipped, walk[w].take) :
         walk' = [walk EXCEPT ![w] = Turn(@, p)]
  /\ UNCHANGED <<ledger, cache>>

(* The TTL of the entry ends.                                              *)
Expire(key) ==
  /\ \E c \in cache : c.key = key
  /\ cache' = {c \in cache : c.key # key}
  /\ UNCHANGED <<ledger, walk>>

-----------------------------------------------------------------------------

CacheKeys == [kind : {"recent", "public"}, take : Takes, after : Positions]

Step(w) ==
  \/ LookUp(w) \/ QueryCached(w) \/ StorePage(w) \/ SkipStore(w)
  \/ ExportBatch(w) \/ ListNotifications(w)

Next ==
  \/ \E k \in Keys, l \in 1 .. Ledgers : AddRow(k, l)
  \/ \E w \in Walks, kind \in Kinds, take \in Takes : StartWalk(w, kind, take)
  \/ \E w \in Walks : Step(w)
  \/ \E key \in CacheKeys : Expire(key)

Spec == Init /\ [][Next]_vars

-----------------------------------------------------------------------------

(* Every variable holds a value of its range, and Redis a page a key.      *)
TypeOK ==
  /\ ledger \in [Keys -> Times]
  /\ cache \subseteq [key : CacheKeys, page : Pages]
  /\ \A c, d \in cache : c.key = d.key => c = d
  /\ walk \in [Walks ->
       [stage : {"idle", "looking", "querying", "storing", "ended"}, kind : AllKinds,
        take : Nat, after : Positions, offset : Nat, page : Pages,
        seen : SUBSET Keys, repeated : BOOLEAN, floor : SUBSET Keys]]

Exact(q) == ~q.repeated /\ (q.stage = "ended" => q.floor \subseteq q.seen)

(* Who pages to the end by cursor sees no row twice, and every row that    *)
(* was in the list before the oldest of its pages was read: pages cached   *)
(* at different times and rows that arrive at any place cost it nothing.   *)
PagingIsExact == \A w \in Walks : walk[w].kind # "notifications" => Exact(walk[w])

(* The notifications list is paged as exactly, as its service says.        *)
NotificationsPagedOnce ==
  \A w \in Walks : walk[w].kind = "notifications" => Exact(walk[w])
=============================================================================
