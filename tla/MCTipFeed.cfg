\* Three rows on two days, pages of one row, and two clients that share the
\* cache, each of which reads list after list.
CONSTANTS
  Keys = {1, 2, 3}
  Ledgers = 2
  Kinds = {"public", "export", "notifications"}
  Takes = {1}
  Walks = {w1, w2}
  Amount <- MCAmount
  From <- MCFrom
  Recipients = {a, b}
  Owner = a
  BpsTotal = 4
SPECIFICATION Spec
SYMMETRY FeedSymmetry
INVARIANTS
  PagingIsExact
  DashboardAddsUp
