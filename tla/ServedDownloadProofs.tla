------------------------- MODULE ServedDownloadProofs -------------------------
(***************************************************************************)
(* Proofs about ShareRegistry and about ServedDownload, which extends it,  *)
(* for any number of shares, files, workers, requests, tasks, changes of   *)
(* files and starts.                                                       *)
(*                                                                         *)
(* There are three invariants, one for each place where state is kept: the *)
(* registry of shares; the requests with the main thread's queue, tasks    *)
(* and log; and the page in the browser with what was sent to it.          *)
(***************************************************************************)
EXTENDS ServedDownload, FiniteSetTheorems, TLAPS

(***************************************************************************)
(* The registry.  Everything rests on the agreement of memory and table.   *)
(* The limit needs that no page is shown uncounted.  The count in memory   *)
(* runs ahead of the pages that were shown, the one in the table may be    *)
(* behind: so the bound is on the pages shown together with the workers    *)
(* that will show one and have counted it, up to every value k of the      *)
(* count from the table's on.                                              *)
(***************************************************************************)


\* A token that was not drawn yet is unknown everywhere.
FreshIsUnknown ==
  \A t \in Tokens : made[t] = None =>
    /\ shares[t] = None
    /\ rows[t] = None
    /\ served[t] = 0
    /\ t \notin copies
    /\ \A v \in Viewers : views[v] # t

\* The worker w has counted its page of the share t, and not shown it.
Counting(w, t) ==
  /\ views[w] = t
  /\ access[w] # None
  /\ access[w].stage # "add"

\* The workers whose count of the share t is at most k.
Added(t, k) == {w \in Viewers : Counting(w, t) /\ access[w].own <= k}

\* The count from which the pages are bounded: that of the row, if it is not the
\* one that closes the share.
Floor(t) ==
  IF made[t] > 0 /\ rows[t].count >= made[t] THEN made[t] - 1 ELSE rows[t].count

\* No worker has a count above that of memory, none stores one that closes the
\* share, and up to each count there are no more pages than it says.
PagesCounted(t) ==
  /\ shares[t].limit = made[t]
  /\ \A w \in Viewers : Counting(w, t) =>
       /\ access[w].own <= shares[t].count
       /\ access[w].stage = "store" =>
            /\ access[w].own <= access[w].stored
            /\ access[w].stored <= shares[t].count
            /\ made[t] > 0 => access[w].own < made[t]
  /\ \A k \in Nat : Floor(t) <= k => served[t] + Cardinality(Added(t, k)) <= k

CountIsServed ==
  \A t \in Tokens \ (failed \cup lost) : shares[t] # None => PagesCounted(t)

\* What RowsFollowMemory says of one share.
RowAgrees(t) ==
  /\ shares[t] = None <=> rows[t] = None
  /\ shares[t] # None =>
       /\ [rows[t] EXCEPT !.count = 0] = [Row(shares[t]) EXCEPT !.count = 0]
       /\ t \notin lost =>
            \/ rows[t].count = shares[t].count
            \/ rows[t].count < shares[t].count /\ CountUnderWay(t)

RegistryInv ==
  /\ RegistryTypeOK
  /\ FreshIsUnknown
  /\ RowsFollowMemory
  /\ CountIsServed
  /\ LimitHolds
  /\ OneShareOfReceived

-----------------------------------------------------------------------------
(* Shares and rows *)

\* The end of a share as its row has it: Qt::ISODate drops the fraction.
Down(e) == IF e = None THEN None ELSE e - (e % Second)

\* Only the end of a share changes on its way to the table (saveShareToDb).
LEMMA RowFields ==
  ASSUME NEW i \in Info
  PROVE  Row(i) = [path |-> i.path, source |-> i.source, expires |-> Down(i.expires),
                   limit |-> i.limit, count |-> i.count]
BY DEF Row, Info, Down

\* The end in a row is the same or a fraction of a second earlier, and has no
\* fraction itself (saveShareToDb).
LEMMA DownFacts ==
  ASSUME NEW e \in Nat \cup {None}
  PROVE  /\ Down(e) \in Nat \cup {None}
         /\ Down(e) = None <=> e = None
         /\ e # None => Down(e) <= e
         /\ Down(Down(e)) = Down(e)
<1>1. \A n \in Nat : n # None
  BY RegistryAssumption
<1>2. ASSUME e \in Nat
      PROVE  e - (e % Second) \in Nat /\ e - (e % Second) <= e /\ (e - (e % Second)) % Second = 0
  BY <1>2 DEF Second
<1> QED
  BY <1>1, <1>2 DEF Down

\* The row of a share is a share with the same fields but for its end; a row
\* that is loaded and stored again does not change (loadSharesFromDb).
LEMMA RowOfShare ==
  ASSUME NEW i \in Info
  PROVE  /\ Row(i) \in Info
         /\ Row(i).path = i.path /\ Row(i).source = i.source
         /\ Row(i).limit = i.limit /\ Row(i).count = i.count
         /\ Row(i).expires = None <=> i.expires = None
         /\ i.expires # None => Row(i).expires \in Nat /\ Row(i).expires <= i.expires
         /\ Row(Row(i)) = Row(i)
<1> DEFINE e == i.expires
<1>1. /\ i.path \in Paths /\ i.source \in {0, 1} /\ i.limit \in Nat /\ i.count \in Nat
      /\ e \in Nat \cup {None}
  BY DEF Info
<1>2. Row(i) = [path |-> i.path, source |-> i.source, expires |-> Down(e),
                limit |-> i.limit, count |-> i.count]
  BY RowFields
<1>3. /\ Down(e) \in Nat \cup {None}
      /\ Down(e) = None <=> e = None
      /\ e # None => Down(e) <= e
      /\ Down(Down(e)) = Down(e)
  BY <1>1, DownFacts
<1>4. Row(i) \in Info
  BY <1>1, <1>2, <1>3 DEF Info
<1>5. Row(Row(i)) = [path |-> i.path, source |-> i.source, expires |-> Down(Down(e)),
                     limit |-> i.limit, count |-> i.count]
  BY <1>2, <1>4, RowFields
<1> HIDE DEF e
<1>6. Row(i).expires = Down(e)
  BY <1>2
<1> QED
  BY <1>1, <1>2, <1>3, <1>4, <1>5, <1>6 DEF e

\* A share with another count is a share, and so is its row.
LEMMA CountOfShare ==
  ASSUME NEW i \in Info, NEW n \in Nat
  PROVE  LET j == [i EXCEPT !.count = n]
         IN  /\ j \in Info
             /\ j.path = i.path /\ j.source = i.source /\ j.limit = i.limit
             /\ j.expires = i.expires /\ j.count = n
             /\ Row(j) = [Row(i) EXCEPT !.count = n]
<1> DEFINE j == [i EXCEPT !.count = n]
<1>1. j = [path |-> i.path, source |-> i.source, expires |-> i.expires,
           limit |-> i.limit, count |-> n]
  BY DEF Info
<1>2. j \in Info
  BY <1>1 DEF Info
<1>3. Row(j) = [path |-> i.path, source |-> i.source, expires |-> Down(i.expires),
                limit |-> i.limit, count |-> n]
  BY <1>1, <1>2, RowFields
<1>4. [Row(i) EXCEPT !.count = n] = Row(j)
  BY <1>3, RowFields
<1> QED
  BY <1>1, <1>2, <1>4

\* A statement that stores a share leaves the other rows alone, and has stored
\* it unless it failed (saveShareToDb).
LEMMA Stored ==
  ASSUME RegistryTypeOK, NEW t \in Tokens, NEW i \in Info, NEW ok \in BOOLEAN,
         saveShareToDb(t, i, ok)
  PROVE  /\ rows' \in [Tokens -> Info \cup {None}]
         /\ failed' \subseteq Tokens /\ failed \subseteq failed' /\ failed' \subseteq failed \cup {t}
         /\ \A u \in Tokens \ {t} : rows'[u] = rows[u]
         /\ t \notin failed' => rows'[t] = Row(i)
BY RowOfShare DEF RegistryTypeOK, saveShareToDb, Statement

\* The same for the deletion of a row (deleteShareFromDb).
LEMMA Deleted ==
  ASSUME RegistryTypeOK, NEW t \in Tokens, NEW ok \in BOOLEAN,
         deleteShareFromDb(t, ok)
  PROVE  /\ rows' \in [Tokens -> Info \cup {None}]
         /\ failed' \subseteq Tokens /\ failed \subseteq failed' /\ failed' \subseteq failed \cup {t}
         /\ \A u \in Tokens \ {t} : rows'[u] = rows[u]
         /\ t \notin failed' => rows'[t] = None
BY DEF RegistryTypeOK, deleteShareFromDb, Statement

\* The same for the count of a row, if it is there (updateShareInDb).
LEMMA Updated ==
  ASSUME RegistryTypeOK, NEW t \in Tokens, NEW n \in Nat, NEW ok \in BOOLEAN,
         updateShareInDb(t, n, ok)
  PROVE  /\ rows' \in [Tokens -> Info \cup {None}]
         /\ failed' \subseteq Tokens /\ failed \subseteq failed' /\ failed' \subseteq failed \cup {t}
         /\ \A u \in Tokens \ {t} : rows'[u] = rows[u]
         /\ t \notin failed' =>
              rows'[t] = IF rows[t] = None THEN None ELSE [rows[t] EXCEPT !.count = n]
<1>1. rows[t] # None => rows[t] \in Info /\ [rows[t] EXCEPT !.count = n] \in Info
  <2>1. rows[t] # None => rows[t] \in Info
    BY DEF RegistryTypeOK
  <2> QED
    BY <2>1, CountOfShare
<1>2. failed' \subseteq Tokens /\ failed \subseteq failed' /\ failed' \subseteq failed \cup {t}
  BY DEF RegistryTypeOK, updateShareInDb, Statement
<1>3. CASE ok /\ rows[t] # None
  <2>1. rows' = [rows EXCEPT ![t] = [rows[t] EXCEPT !.count = n]]
    BY <1>3 DEF updateShareInDb
  <2> QED
    BY <1>1, <1>2, <1>3, <2>1 DEF RegistryTypeOK
<1>4. CASE ~(ok /\ rows[t] # None)
  <2>1. rows' = rows /\ (rows[t] # None => t \in failed')
    BY <1>4 DEF updateShareInDb, Statement
  <2> QED
    BY <1>2, <2>1 DEF RegistryTypeOK
<1> QED
  BY <1>3, <1>4

\* Two counts of the same share differ in nothing else.
LEMMA CountForgotten ==
  ASSUME NEW i \in Info, NEW n \in Nat
  PROVE  [[i EXCEPT !.count = n] EXCEPT !.count = 0] = [i EXCEPT !.count = 0]
BY DEF Info

-----------------------------------------------------------------------------
(* Types *)

\* What createShare makes is a share.
LEMMA NewIsShare ==
  ASSUME RegistryTypeOK, NEW p \in Paths, NEW h \in Nat, NEW limit \in Nat, NEW source \in {0, 1}
  PROVE  [path |-> p, source |-> source, limit |-> limit, count |-> 0,
          expires |-> IF h > 0 THEN now + h * Hour ELSE None] \in Info
<1>1. now + h * Hour \in Nat
  BY RegistryAssumption DEF RegistryTypeOK, Hour
<1> QED
  BY <1>1 DEF Info

\* A new share is in memory whatever became of its row, and is not used up
\* (createShare).
LEMMA Created ==
  ASSUME RegistryTypeOK, NEW t \in Tokens, NEW p \in Paths, NEW h \in Nat, NEW limit \in Nat,
         NEW source \in {0, 1}, NEW ok \in BOOLEAN,
         createShare(t, p, h, limit, source, ok)
  PROVE  /\ made[t] = None
         /\ shares' \in [Tokens -> Info \cup {None}]
         /\ rows' \in [Tokens -> Info \cup {None}]
         /\ made' \in [Tokens -> Nat \cup {None}]
         /\ failed' \subseteq Tokens /\ failed \subseteq failed' /\ failed' \subseteq failed \cup {t}
         /\ \A u \in Tokens \ {t} :
              rows'[u] = rows[u] /\ shares'[u] = shares[u] /\ made'[u] = made[u]
         /\ made'[t] = limit
         /\ shares'[t] \in Info
         /\ shares'[t].path = p /\ shares'[t].limit = limit /\ shares'[t].count = 0
         /\ t \notin failed' => rows'[t] = Row(shares'[t])
<1> DEFINE i == [path |-> p, source |-> source, limit |-> limit, count |-> 0,
                 expires |-> IF h > 0 THEN now + h * Hour ELSE None]
<1>1. i \in Info /\ i.path = p /\ i.limit = limit /\ i.count = 0
  BY NewIsShare
<1>2. /\ made[t] = None
      /\ saveShareToDb(t, i, ok)
      /\ shares' = [shares EXCEPT ![t] = i]
      /\ made' = [made EXCEPT ![t] = limit]
  BY DEF createShare
<1> HIDE DEF i
<1> QED
  BY <1>1, <1>2, Stored DEF RegistryTypeOK

\* A share that is forgotten is gone from memory, and from the table unless
\* the statement failed (cancelShare, shareAccessed).
LEMMA Forgotten ==
  ASSUME RegistryTypeOK, NEW t \in Tokens, NEW ok \in BOOLEAN, Forget(t, ok)
  PROVE  /\ shares' \in [Tokens -> Info \cup {None}]
         /\ rows' \in [Tokens -> Info \cup {None}]
         /\ failed' \subseteq Tokens /\ failed \subseteq failed' /\ failed' \subseteq failed \cup {t}
         /\ \A u \in Tokens \ {t} : rows'[u] = rows[u] /\ shares'[u] = shares[u]
         /\ shares'[t] = None
         /\ t \notin failed' => rows'[t] = None
BY Deleted DEF RegistryTypeOK, Forget

-----------------------------------------------------------------------------
(* The steps *)

\* There are no more open pages of a share than workers.
LEMMA OpenPagesBound ==
  ASSUME NEW f \in [Viewers -> Tokens \cup {None}], NEW t \in Tokens
  PROVE  LET V == {v \in Viewers : f[v] = t}
         IN  /\ IsFiniteSet(V)
             /\ Cardinality(V) \in Nat /\ Cardinality(Viewers) \in Nat
             /\ Cardinality(V) <= Cardinality(Viewers)
<1> DEFINE V == {v \in Viewers : f[v] = t}
<1>1. V \in SUBSET Viewers /\ IsFiniteSet(Viewers)
  BY RegistryAssumption
<1>2. IsFiniteSet(V) /\ Cardinality(V) <= Cardinality(Viewers)
  BY <1>1, FS_Subset
<1> QED
  BY <1>1, <1>2, FS_CardinalityType

\* The open pages of a share.
PagesOf(f, t) == {w \in Viewers : f[w] = t}

\* A page that is shown is no longer open (shareAccessed).
LEMMA PageCloses ==
  ASSUME NEW f \in [Viewers -> Tokens \cup {None}], NEW v \in Viewers, NEW t \in Tokens, f[v] = t
  PROVE  LET g == [f EXCEPT ![v] = None]
         IN  /\ Cardinality(PagesOf(g, t)) = Cardinality(PagesOf(f, t)) - 1
             /\ \A u \in Tokens \ {t} : PagesOf(g, u) = PagesOf(f, u)
<1> DEFINE g == [f EXCEPT ![v] = None]
<1>1. PagesOf(g, t) = PagesOf(f, t) \ {v} /\ v \in PagesOf(f, t)
  BY RegistryAssumption DEF PagesOf
<1>2. IsFiniteSet(PagesOf(f, t))
  BY OpenPagesBound DEF PagesOf
<1>3. Cardinality(PagesOf(g, t)) = Cardinality(PagesOf(f, t)) - 1
  BY <1>1, <1>2, FS_RemoveElement
<1>4. \A u \in Tokens \ {t} : PagesOf(g, u) = PagesOf(f, u)
  BY RegistryAssumption DEF PagesOf
<1> QED
  BY <1>3, <1>4

\* The limit holds for a share that is not used up (LimitHolds).
LEMMA LimitOfLive ==
  ASSUME NEW f \in [Viewers -> Tokens \cup {None}], NEW t \in Tokens,
         NEW shown \in Nat, NEW limit \in Nat, shown < limit
  PROVE  shown + Cardinality({v \in Viewers : f[v] = t}) < limit + Cardinality(Viewers)
<1>1. /\ Cardinality({v \in Viewers : f[v] = t}) \in Nat /\ Cardinality(Viewers) \in Nat
      /\ Cardinality({v \in Viewers : f[v] = t}) <= Cardinality(Viewers)
  BY OpenPagesBound
<1> QED
  BY <1>1

\* A share that was listed before, under the same path, cannot be a second one.
LEMMA NoSecondShare ==
  ASSUME OneShareOfReceived, copies' \subseteq copies, failed \subseteq failed',
         \A u \in (copies' \cap ActiveShares') \ failed' :
           u \in ActiveShares /\ shares'[u].path = shares[u].path
  PROVE  OneShareOfReceived'
BY DEF OneShareOfReceived

\* A share that stays as it is, is not listed again by the passing of time.
LEMMA ListedBefore ==
  ASSUME RegistryTypeOK, RegistryTypeOK', now <= now', NEW u \in Tokens, u \in ActiveShares',
         shares'[u] = shares[u]
  PROVE  u \in ActiveShares
<1>1. shares[u] # None => shares[u] \in Info /\ shares[u].expires \in Nat \cup {None}
  BY DEF RegistryTypeOK, Info
<1>2. now \in Nat /\ now' \in Nat
  BY RegistryAssumption DEF RegistryTypeOK
<1> QED
  BY <1>1, <1>2, RegistryAssumption DEF ActiveShares, IsLive, Expired

\* A part of the workers that are counted, is not more of them.
LEMMA AddedBound ==
  ASSUME NEW A \in SUBSET Viewers, NEW B \in SUBSET A
  PROVE  /\ IsFiniteSet(A) /\ IsFiniteSet(B)
         /\ Cardinality(A) \in Nat /\ Cardinality(B) \in Nat
         /\ Cardinality(B) <= Cardinality(A)
<1>1. IsFiniteSet(Viewers)
  BY RegistryAssumption
<1>2. IsFiniteSet(A)
  BY <1>1, FS_Subset
<1>3. IsFiniteSet(B) /\ Cardinality(B) <= Cardinality(A)
  BY <1>2, FS_Subset
<1> QED
  BY <1>2, <1>3, FS_CardinalityType

\* A share that nothing is done with stays in agreement with its row, and its
\* pages are counted as before, while workers come and go that are not yet or
\* no longer counted.
LEMMA ShareKept ==
  ASSUME RegistryTypeOK, NEW u \in Tokens,
         failed \subseteq failed', lost \subseteq lost',
         shares'[u] = shares[u], rows'[u] = rows[u], made'[u] = made[u],
         served'[u] = served[u],
         \A w \in Viewers :
           /\ Counting(w, u)' <=> Counting(w, u)
           /\ Counting(w, u) => access'[w] = access[w]
  PROVE  /\ RowAgrees(u) => RowAgrees(u)'
         /\ PagesCounted(u) => PagesCounted(u)'
<1>1. ASSUME CountUnderWay(u)
      PROVE  CountUnderWay(u)'
  <2>1. PICK w \in Viewers :
          \/ At(w, u, "compare")
          \/ At(w, u, "close")
          \/ At(w, u, "store") /\ access[w].stored = shares[u].count
    BY <1>1 DEF CountUnderWay
  <2>2. Counting(w, u) /\ u # None
    BY <2>1, RegistryAssumption DEF At, Counting
  <2>3. access'[w] = access[w] /\ Counting(w, u)'
    BY <2>2
  <2>4. views'[w] = u
    BY <2>3 DEF Counting
  <2> QED
    BY <2>1, <2>2, <2>3, <2>4 DEF CountUnderWay, At
<1>2. ASSUME RowAgrees(u)
      PROVE  RowAgrees(u)'
  BY <1>1, <1>2 DEF RowAgrees, Row
<1>3. ASSUME PagesCounted(u)
      PROVE  PagesCounted(u)'
  <2>1. \A k \in Nat : Added(u, k)' = Added(u, k)
    BY DEF Added
  <2>2. Floor(u)' = Floor(u)
    BY DEF Floor
  <2>3. \A k \in Nat : Floor(u)' <= k => served'[u] + Cardinality(Added(u, k)') <= k
    BY <1>3, <2>1, <2>2 DEF PagesCounted
  <2>4. shares'[u].limit = made'[u]
    BY <1>3 DEF PagesCounted
  <2>5. ASSUME NEW w \in Viewers, Counting(w, u)'
        PROVE  /\ access'[w].own <= shares'[u].count
               /\ access'[w].stage = "store" =>
                    /\ access'[w].own <= access'[w].stored
                    /\ access'[w].stored <= shares'[u].count
                    /\ made'[u] > 0 => access'[w].own < made'[u]
    <3>1. Counting(w, u) /\ access'[w] = access[w]
      BY <2>5
    <3> QED
      BY <1>3, <3>1 DEF PagesCounted
  <2> QED
    BY <2>3, <2>4, <2>5 DEF PagesCounted
<1> QED
  BY <1>2, <1>3

\* While no worker moves, the shares that nothing is done with are kept.
LEMMA OthersKept ==
  ASSUME RegistryInv, failed \subseteq failed', lost \subseteq lost',
         UNCHANGED <<views, access, served>>, NEW u \in Tokens \ failed',
         shares'[u] = shares[u], rows'[u] = rows[u], made'[u] = made[u]
  PROVE  /\ RowAgrees(u)'
         /\ u \notin lost' /\ shares'[u] # None => PagesCounted(u)'
<1>1. RegistryTypeOK /\ RowsFollowMemory /\ CountIsServed
  BY DEF RegistryInv
<1>2. RowAgrees(u)
  BY <1>1 DEF RowsFollowMemory, RowAgrees
<1>3. \A w \in Viewers :
           /\ Counting(w, u)' <=> Counting(w, u)
           /\ Counting(w, u) => access'[w] = access[w]
  BY DEF Counting
<1>4. u \notin lost' /\ shares'[u] # None => PagesCounted(u)
  BY <1>1 DEF CountIsServed
<1> QED
  BY <1>1, <1>2, <1>3, <1>4, ShareKept

\* A share in memory has been shown less often than its limit allows.
LEMMA ShownBelowLimit ==
  ASSUME RegistryTypeOK, NEW t \in Tokens, PagesCounted(t), rows[t] \in Info, made[t] \in Nat, made[t] > 0
  PROVE  served[t] < made[t]
<1> DEFINE k == made[t] - 1
<1>1. k \in Nat /\ rows[t].count \in Nat
  BY DEF Info
<1>2. Floor(t) <= k
  BY <1>1 DEF Floor
<1>3. served[t] + Cardinality(Added(t, k)) <= k
  BY <1>1, <1>2 DEF PagesCounted
<1>4. Cardinality(Added(t, k)) \in Nat /\ served[t] \in Nat
  BY AddedBound DEF Added, RegistryTypeOK
<1> QED
  BY <1>1, <1>3, <1>4

\* A new share, of a path that no listed share has if it is a copy.
LEMMA CreateStep ==
  ASSUME RegistryInv, NEW t \in Tokens, NEW p \in Paths, NEW h \in Nat, NEW limit \in Nat,
         NEW source \in {0, 1}, NEW ok \in BOOLEAN,
         createShare(t, p, h, limit, source, ok),
         disk' \subseteq Paths, UNCHANGED <<views, access, now, served, lost>>,
         copies' = copies \/ (copies' = copies \cup {t} /\ SharesOf(p) = {})
  PROVE  RegistryInv'
<1>1. RegistryTypeOK /\ FreshIsUnknown /\ RowsFollowMemory /\ CountIsServed /\ LimitHolds
      /\ OneShareOfReceived
  BY DEF RegistryInv
<1>2. /\ made[t] = None
      /\ shares' \in [Tokens -> Info \cup {None}]
      /\ rows' \in [Tokens -> Info \cup {None}]
      /\ made' \in [Tokens -> Nat \cup {None}]
      /\ failed' \subseteq Tokens /\ failed \subseteq failed' /\ failed' \subseteq failed \cup {t}
      /\ \A u \in Tokens \ {t} :
           rows'[u] = rows[u] /\ shares'[u] = shares[u] /\ made'[u] = made[u]
      /\ made'[t] = limit
      /\ shares'[t] \in Info
      /\ shares'[t].path = p /\ shares'[t].limit = limit /\ shares'[t].count = 0
      /\ t \notin failed' => rows'[t] = Row(shares'[t])
  BY <1>1, Created
<1>3. RegistryTypeOK'
  BY <1>1, <1>2 DEF RegistryTypeOK
<1>4. limit # None
  BY RegistryAssumption
<1>5. /\ shares[t] = None /\ rows[t] = None /\ served[t] = 0 /\ t \notin copies
      /\ \A v \in Viewers : views[v] # t
  BY <1>1, <1>2 DEF FreshIsUnknown
<1>6. FreshIsUnknown'
  BY <1>1, <1>2, <1>4, <1>5 DEF FreshIsUnknown
<1>7. ASSUME NEW u \in Tokens \ failed', u # t
      PROVE  RowAgrees(u)' /\ (u \notin lost' /\ shares'[u] # None => PagesCounted(u)')
  BY <1>2, <1>7, OthersKept
<1>8. t \notin failed' => RowAgrees(t)'
  BY <1>2, RowOfShare, NoneIsNoShare DEF RowAgrees
<1>20. t \notin failed' => PagesCounted(t)'
  <2> SUFFICES ASSUME t \notin failed' PROVE PagesCounted(t)'
    OBVIOUS
  <2>1. \A w \in Viewers : ~Counting(w, t)'
    BY <1>5 DEF Counting
  <2>2. \A k \in Nat : Added(t, k)' = {}
    BY <2>1 DEF Added
  <2>3. \A k \in Nat : Cardinality(Added(t, k)') = 0
    BY <2>2, FS_EmptySet
  <2> QED
    BY <1>2, <1>5, <2>1, <2>3 DEF PagesCounted
<1>21. RowsFollowMemory' /\ CountIsServed'
  BY <1>7, <1>8, <1>20 DEF RowsFollowMemory, RowAgrees, CountIsServed
<1>9. LimitHolds'
  <2> SUFFICES ASSUME NEW u \in Tokens \ (failed' \cup lost'), made'[u] # None, made'[u] > 0
               PROVE  served'[u] + Cardinality({v \in Viewers : views'[v] = u})
                        < made'[u] + Cardinality(Viewers)
    BY DEF LimitHolds
  <2>1. CASE u = t
    <3>1. served'[u] < made'[u]
      BY <1>2, <1>5, <2>1
    <3> QED
      BY <1>3, <3>1, LimitOfLive DEF RegistryTypeOK
  <2>2. CASE u # t
    BY <1>1, <1>2, <2>2 DEF LimitHolds
  <2> QED
    BY <2>1, <2>2
<1>10. OneShareOfReceived'
  <2> SUFFICES ASSUME NEW u \in (copies' \cap ActiveShares') \ failed',
                      NEW w \in (copies' \cap ActiveShares') \ failed',
                      shares'[u].path = shares'[w].path
               PROVE  u = w
    BY DEF OneShareOfReceived
  <2>1. \A x \in (copies' \cap ActiveShares') \ failed' :
          x # t => x \in (copies \cap ActiveShares) \ failed /\ shares'[x] = shares[x]
    <3> SUFFICES ASSUME NEW x \in (copies' \cap ActiveShares') \ failed', x # t
                 PROVE  x \in (copies \cap ActiveShares) \ failed /\ shares'[x] = shares[x]
      OBVIOUS
    <3>1. x \in Tokens /\ x \in copies /\ x \notin failed /\ shares'[x] = shares[x]
      BY <1>2 DEF ActiveShares
    <3>2. now <= now'
      BY <1>1, RegistryAssumption DEF RegistryTypeOK
    <3> QED
      BY <1>1, <1>3, <3>1, <3>2, ListedBefore
  <2>2. \A x \in (copies' \cap ActiveShares') \ failed' :
          t \in copies' /\ x # t => shares'[x].path # p
    BY <1>5, <2>1 DEF SharesOf
  <2> QED
    BY <1>1, <1>2, <2>1, <2>2 DEF OneShareOfReceived
<1> QED
  BY <1>3, <1>6, <1>9, <1>10, <1>21 DEF RegistryInv

\* A share that the user ends, or whose file is deleted, leaves memory and table; its
\* open pages can still be shown (cancelShare, deleteReceivedFile).
LEMMA ForgetStep ==
  ASSUME RegistryInv, NEW t \in Tokens, NEW ok \in BOOLEAN, shares[t] # None, Forget(t, ok),
         disk' \subseteq Paths, UNCHANGED <<views, access, now, made, served, lost, copies>>
  PROVE  RegistryInv'
<1>1. RegistryTypeOK /\ FreshIsUnknown /\ RowsFollowMemory /\ CountIsServed /\ LimitHolds
      /\ OneShareOfReceived
  BY DEF RegistryInv
<1>2. /\ shares' \in [Tokens -> Info \cup {None}]
      /\ rows' \in [Tokens -> Info \cup {None}]
      /\ failed' \subseteq Tokens /\ failed \subseteq failed' /\ failed' \subseteq failed \cup {t}
      /\ \A u \in Tokens \ {t} : rows'[u] = rows[u] /\ shares'[u] = shares[u]
      /\ shares'[t] = None
      /\ t \notin failed' => rows'[t] = None
  BY <1>1, Forgotten
<1>3. RegistryTypeOK'
  BY <1>1, <1>2 DEF RegistryTypeOK
<1>4. made[t] # None
  BY <1>1 DEF FreshIsUnknown
<1>5. FreshIsUnknown'
  BY <1>1, <1>2, <1>4 DEF FreshIsUnknown
<1>6. ASSUME NEW u \in Tokens \ failed', u # t
      PROVE  RowAgrees(u)' /\ (u \notin lost' /\ shares'[u] # None => PagesCounted(u)')
  BY <1>2, <1>6, OthersKept
<1>7. RowsFollowMemory' /\ CountIsServed'
  BY <1>2, <1>6 DEF RowsFollowMemory, RowAgrees, CountIsServed
<1>8. LimitHolds'
  BY <1>1, <1>2 DEF LimitHolds
<1>9. OneShareOfReceived'
  <2>1. now <= now'
    BY <1>1, RegistryAssumption DEF RegistryTypeOK
  <2>2. \A u \in ActiveShares' : u \in Tokens /\ u # t /\ shares'[u] = shares[u]
    BY <1>2 DEF ActiveShares, IsLive
  <2>3. \A u \in ActiveShares' : u \in ActiveShares /\ shares'[u].path = shares[u].path
    BY <1>1, <1>3, <2>1, <2>2, ListedBefore
  <2> QED
    BY <1>1, <1>2, <2>3, NoSecondShare
<1> QED
  BY <1>3, <1>5, <1>6, <1>7, <1>8, <1>9 DEF RegistryInv

\* The same for all the shares that are over (cleanupExpiredShares).
LEMMA CleanupStep ==
  ASSUME RegistryInv, cleanupExpiredShares
  PROVE  RegistryInv'
<1> DEFINE old == {t \in Tokens : shares[t] # None /\ Expired(shares[t])}
<1>1. RegistryTypeOK /\ FreshIsUnknown /\ RowsFollowMemory /\ CountIsServed /\ LimitHolds
      /\ OneShareOfReceived
  BY DEF RegistryInv
<1>2. PICK gone \in SUBSET old :
        /\ rows' = [t \in Tokens |-> IF t \in gone THEN None ELSE rows[t]]
        /\ failed' = failed \cup (old \ gone)
        /\ shares' = [t \in Tokens |-> IF t \in old THEN None ELSE shares[t]]
        /\ UNCHANGED <<disk, views, access, now, made, served, lost, copies>>
  BY DEF cleanupExpiredShares
<1>3. \A t \in old : t \in Tokens /\ shares[t] # None /\ made[t] # None
  BY <1>1 DEF FreshIsUnknown
<1> HIDE DEF old
<1>4. old \subseteq Tokens
  BY <1>3
<1>5. RegistryTypeOK'
  BY <1>1, <1>2, <1>4 DEF RegistryTypeOK
<1>6. FreshIsUnknown'
  BY <1>1, <1>2, <1>3 DEF FreshIsUnknown
<1>7. ASSUME NEW u \in Tokens \ failed', u \notin old
      PROVE  RowAgrees(u)' /\ (u \notin lost' /\ shares'[u] # None => PagesCounted(u)')
  <2>1. failed \subseteq failed' /\ lost \subseteq lost' /\ u \in Tokens
    BY <1>2
  <2>2. shares'[u] = shares[u] /\ rows'[u] = rows[u]
    BY <1>2, <1>7, <2>1
  <2> QED
    BY <1>2, <2>1, <2>2, OthersKept
<1>8. RowsFollowMemory' /\ CountIsServed'
  BY <1>2, <1>4, <1>7 DEF RowsFollowMemory, RowAgrees, CountIsServed
<1>9. LimitHolds'
  BY <1>1, <1>2, <1>4 DEF LimitHolds
<1>10. OneShareOfReceived'
  <2>1. now <= now'
    BY <1>1, <1>2, RegistryAssumption DEF RegistryTypeOK
  <2>2. \A u \in ActiveShares' : u \in Tokens /\ shares'[u] = shares[u]
    BY <1>2 DEF ActiveShares, IsLive
  <2>3. \A u \in ActiveShares' : u \in ActiveShares /\ shares'[u].path = shares[u].path
    BY <1>1, <1>5, <2>1, <2>2, ListedBefore
  <2> QED
    BY <1>1, <1>2, <2>3, NoSecondShare
<1> QED
  BY <1>5, <1>6, <1>7, <1>8, <1>9, <1>10 DEF RegistryInv

\* A page is opened for a share that is not used up, so the limit leaves room
\* for all the workers.
LEMMA OpenStep ==
  ASSUME RegistryInv, NEW v \in Viewers, NEW t \in Tokens, OpenPage(v, t)
  PROVE  RegistryInv'
<1>1. RegistryTypeOK /\ FreshIsUnknown /\ RowsFollowMemory /\ CountIsServed /\ LimitHolds
      /\ OneShareOfReceived
  BY DEF RegistryInv
<1>2. /\ shares[t] # None
      /\ views' = [views EXCEPT ![v] = t]
      /\ views[v] = None
      /\ access[v] = None
      /\ UNCHANGED <<shares, rows, disk, access, now, made, served, failed, lost, copies>>
  BY <1>1 DEF OpenPage, IsLive, RegistryTypeOK
<1>3. RegistryTypeOK'
  BY <1>1, <1>2 DEF RegistryTypeOK
<1>4. FreshIsUnknown'
  BY <1>1, <1>2 DEF FreshIsUnknown, RegistryTypeOK
<1>5. RowsFollowMemory' /\ CountIsServed'
  <2>1. \A u \in Tokens, w \in Viewers : Counting(w, u)' <=> Counting(w, u)
    BY <1>1, <1>2 DEF Counting, RegistryTypeOK
  <2>2. \A u \in Tokens : /\ RowAgrees(u) => RowAgrees(u)'
                          /\ PagesCounted(u) => PagesCounted(u)'
    BY <1>1, <1>2, <2>1, ShareKept
  <2> QED
    BY <1>1, <1>2, <2>2 DEF RowsFollowMemory, RowAgrees, CountIsServed
<1>6. LimitHolds'
  <2> SUFFICES ASSUME NEW u \in Tokens \ (failed' \cup lost'), made'[u] # None, made'[u] > 0
               PROVE  served'[u] + Cardinality({w \in Viewers : views'[w] = u})
                        < made'[u] + Cardinality(Viewers)
    BY DEF LimitHolds
  <2>1. CASE u = t
    <3>1. made[u] \in Nat /\ rows[u] \in Info /\ PagesCounted(u)
      BY <1>1, <1>2, <2>1 DEF CountIsServed, RowsFollowMemory, RegistryTypeOK
    <3>2. served'[u] < made'[u]
      BY <1>1, <1>2, <3>1, ShownBelowLimit
    <3> QED
      BY <1>2, <1>3, <3>1, <3>2, LimitOfLive DEF RegistryTypeOK
  <2>2. CASE u # t
    <3>1. {w \in Viewers : views'[w] = u} = {w \in Viewers : views[w] = u}
      BY <1>1, <1>2, <2>2, RegistryAssumption DEF RegistryTypeOK
    <3> QED
      BY <1>1, <1>2, <3>1 DEF LimitHolds
  <2> QED
    BY <2>1, <2>2
<1>7. OneShareOfReceived'
  BY <1>1, <1>2 DEF OneShareOfReceived, ActiveShares, IsLive, Expired
<1> QED
  BY <1>3, <1>4, <1>5, <1>6, <1>7 DEF RegistryInv

\* The shares in memory keep their path, kind and end, or go.
SharesStay ==
  \A u \in Tokens : shares'[u] # None =>
    /\ shares[u] # None
    /\ shares'[u].path = shares[u].path
    /\ shares'[u].source = shares[u].source
    /\ shares'[u].expires = shares[u].expires

\* While a worker shows the page of t, nothing changes for a share that is not
\* known, and no share is listed again.
LEMMA AccessKeepsLists ==
  ASSUME RegistryInv, NEW t \in Tokens, NEW v \in Viewers, views[v] = t,
         SharesStay, UNCHANGED <<disk, now, made, copies>>, failed \subseteq failed',
         \A u \in Tokens : u # t => rows'[u] = rows[u] /\ served'[u] = served[u],
         \A w \in Viewers : views'[w] = views[w] \/ views'[w] = None
  PROVE  FreshIsUnknown' /\ OneShareOfReceived'
<1>1. RegistryTypeOK /\ FreshIsUnknown /\ OneShareOfReceived
  BY DEF RegistryInv
<1>2. made[t] # None
  BY <1>1 DEF FreshIsUnknown
<1>3. FreshIsUnknown'
  BY <1>1, <1>2, RegistryAssumption DEF FreshIsUnknown, SharesStay
<1>4. \A u \in ActiveShares' : u \in ActiveShares /\ shares'[u].path = shares[u].path
  BY DEF ActiveShares, IsLive, Expired, SharesStay
<1>5. OneShareOfReceived'
  BY <1>1, <1>4, NoSecondShare
<1> QED
  BY <1>3, <1>5

\* A worker that leaves shareAccessed has shown its page once more: pages shown
\* and pages open are as many as before.
LEMMA ShownEffect ==
  ASSUME RegistryInv, NEW v \in Viewers, NEW t \in Tokens, views[v] = t, Shown(v),
         failed \subseteq failed', lost \subseteq lost'
  PROVE  /\ views' \in [Viewers -> Tokens \cup {None}]
         /\ access' \in [Viewers -> Access \cup {None}]
         /\ \A w \in Viewers : access'[w] # None => views'[w] # None
         /\ served' \in [Tokens -> Nat]
         /\ served'[t] = served[t] + 1
         /\ \A u \in Tokens : u # t => served'[u] = served[u]
         /\ views'[v] = None /\ access'[v] = None
         /\ \A w \in Viewers : w # v => views'[w] = views[w] /\ access'[w] = access[w]
         /\ LimitHolds'
<1>1. /\ views \in [Viewers -> Tokens \cup {None}]
      /\ access \in [Viewers -> Access \cup {None}]
      /\ served \in [Tokens -> Nat] /\ made \in [Tokens -> Nat \cup {None}]
      /\ \A w \in Viewers : access[w] # None => views[w] # None
      /\ LimitHolds
  BY DEF RegistryInv, RegistryTypeOK
<1>2. /\ views' = [views EXCEPT ![v] = None]
      /\ access' = [access EXCEPT ![v] = None]
      /\ served' = [served EXCEPT ![t] = @ + 1]
      /\ made' = made
  BY DEF Shown
<1>3. /\ views' \in [Viewers -> Tokens \cup {None}]
      /\ access' \in [Viewers -> Access \cup {None}]
      /\ \A w \in Viewers : access'[w] # None => views'[w] # None
      /\ served' \in [Tokens -> Nat]
      /\ served'[t] = served[t] + 1
      /\ \A u \in Tokens : u # t => served'[u] = served[u]
      /\ views'[v] = None /\ access'[v] = None
      /\ \A w \in Viewers : w # v => views'[w] = views[w] /\ access'[w] = access[w]
  BY <1>1, <1>2
<1>4. /\ Cardinality(PagesOf(views', t)) = Cardinality(PagesOf(views, t)) - 1
      /\ \A u \in Tokens : u # t => PagesOf(views', u) = PagesOf(views, u)
  BY <1>1, <1>2, PageCloses
<1>5. \A u \in Tokens : Cardinality(PagesOf(views, u)) \in Nat /\ Cardinality(Viewers) \in Nat
  BY <1>1, OpenPagesBound DEF PagesOf
<1>6. LimitHolds'
  <2> SUFFICES ASSUME NEW u \in Tokens \ (failed' \cup lost'), made[u] # None, made[u] > 0
               PROVE  served'[u] + Cardinality(PagesOf(views', u)) < made[u] + Cardinality(Viewers)
    BY <1>2 DEF LimitHolds, PagesOf
  <2>1. served[u] + Cardinality(PagesOf(views, u)) < made[u] + Cardinality(Viewers)
    BY <1>1 DEF LimitHolds, PagesOf
  <2>2. served[u] \in Nat /\ made[u] \in Nat
    BY <1>1
  <2> QED
    BY <1>3, <1>4, <1>5, <2>1, <2>2
<1> QED
  BY <1>3, <1>6

\* For the shares that worker v is not showing, it changes nothing.
LEMMA OtherSharesKept ==
  ASSUME RegistryInv, failed \subseteq failed', lost \subseteq lost', made' = made,
         NEW v \in Viewers, NEW t \in Tokens, views[v] = t,
         views'[v] = t \/ views'[v] = None,
         \A w \in Viewers : w # v => views'[w] = views[w] /\ access'[w] = access[w],
         NEW u \in Tokens \ failed', u # t,
         shares'[u] = shares[u], rows'[u] = rows[u], served'[u] = served[u]
  PROVE  /\ RowAgrees(u)'
         /\ u \notin lost' /\ shares'[u] # None => PagesCounted(u)'
<1>1. RegistryTypeOK /\ RowsFollowMemory /\ CountIsServed
  BY DEF RegistryInv
<1>2. RowAgrees(u)
  BY <1>1 DEF RowsFollowMemory, RowAgrees
<1>3. \A w \in Viewers :
           /\ Counting(w, u)' <=> Counting(w, u)
           /\ Counting(w, u) => access'[w] = access[w]
  BY RegistryAssumption DEF Counting
<1>4. u \notin lost' /\ shares'[u] # None => PagesCounted(u)
  BY <1>1 DEF CountIsServed
<1> QED
  BY <1>1, <1>2, <1>3, <1>4, ShareKept

\* Facts of one share and the whole.
LEMMA SharesTogether ==
  ASSUME NEW t \in Tokens,
         t \notin failed' => RowAgrees(t)',
         t \notin failed' \cup lost' /\ shares'[t] # None => PagesCounted(t)',
         \A u \in Tokens \ failed' : u # t =>
           /\ RowAgrees(u)'
           /\ u \notin lost' /\ shares'[u] # None => PagesCounted(u)'
  PROVE  RowsFollowMemory' /\ CountIsServed'
BY DEF RowsFollowMemory, RowAgrees, CountIsServed

\* A worker that has read the counter is not yet counted (shareAccessed).
LEMMA ReadsStep ==
  ASSUME RegistryInv, NEW v \in Viewers, AccessReads(v)
  PROVE  RegistryInv'
<1>1. RegistryTypeOK /\ FreshIsUnknown /\ RowsFollowMemory /\ CountIsServed /\ LimitHolds
      /\ OneShareOfReceived
  BY DEF RegistryInv
<1> DEFINE a == [stage |-> "add", own |-> shares[views[v]].count + 1, stored |-> 0]
<1>2. /\ views[v] # None /\ access[v] = None /\ shares[views[v]] # None
      /\ access' = [access EXCEPT ![v] = a]
      /\ UNCHANGED <<shares, rows, disk, views, now, made, served, failed, lost, copies>>
  BY DEF AccessReads
<1>3. a \in Access /\ a.stage = "add"
  <2>1. shares[views[v]] \in Info
    BY <1>1, <1>2 DEF RegistryTypeOK
  <2> QED
    BY <2>1 DEF Access, Info
<1> HIDE DEF a
<1>4. RegistryTypeOK'
  BY <1>1, <1>2, <1>3 DEF RegistryTypeOK
<1>5. FreshIsUnknown' /\ LimitHolds'
  BY <1>1, <1>2 DEF FreshIsUnknown, LimitHolds
<1>6. OneShareOfReceived'
  BY <1>1, <1>2 DEF OneShareOfReceived, ActiveShares, IsLive, Expired
<1>7. \A u \in Tokens, w \in Viewers :
           /\ Counting(w, u)' <=> Counting(w, u)
           /\ Counting(w, u) => access'[w] = access[w]
  BY <1>1, <1>2, <1>3 DEF Counting, RegistryTypeOK
<1>8. \A u \in Tokens : /\ RowAgrees(u) => RowAgrees(u)'
                        /\ PagesCounted(u) => PagesCounted(u)'
  BY <1>1, <1>2, <1>7, ShareKept
<1>9. RowsFollowMemory' /\ CountIsServed'
  BY <1>1, <1>2, <1>8 DEF RowsFollowMemory, RowAgrees, CountIsServed
<1> QED
  BY <1>4, <1>5, <1>6, <1>9 DEF RegistryInv

\* The last counted worker is the only one with its count: the others have at
\* most the count that was in memory, or this one's was lost (shareAccessed).
LEMMA AddsStep ==
  ASSUME RegistryInv, NEW v \in Viewers, AccessAdds(v)
  PROVE  RegistryInv'
<1> PICK t \in Tokens : views[v] = t
  BY RegistryAssumption DEF RegistryInv, RegistryTypeOK, AccessAdds, At
<1> DEFINE i == shares[t]
           n == access[v].own
<1>1. RegistryTypeOK /\ FreshIsUnknown /\ RowsFollowMemory /\ CountIsServed /\ LimitHolds
      /\ OneShareOfReceived
  BY DEF RegistryInv
<1>2. /\ t \in Tokens /\ i \in Info /\ access[v] \in Access /\ n \in Nat
      /\ shares[t] # None /\ access[v].stage = "add"
      /\ shares' = [shares EXCEPT ![t] = [i EXCEPT !.count = n]]
      /\ lost' = IF n = i.count + 1 THEN lost ELSE lost \cup {t}
      /\ access' = [access EXCEPT ![v] = [access[v] EXCEPT !.stage = "compare"]]
      /\ UNCHANGED <<rows, disk, views, now, made, served, failed, copies>>
  BY <1>1 DEF AccessAdds, At, RegistryTypeOK, Access
<1>3. /\ [i EXCEPT !.count = n] \in Info
      /\ [i EXCEPT !.count = n].path = i.path /\ [i EXCEPT !.count = n].source = i.source
      /\ [i EXCEPT !.count = n].limit = i.limit /\ [i EXCEPT !.count = n].expires = i.expires
      /\ [i EXCEPT !.count = n].count = n
      /\ Row([i EXCEPT !.count = n]) = [Row(i) EXCEPT !.count = n]
  BY <1>2, CountOfShare
<1>4. /\ shares' \in [Tokens -> Info \cup {None}]
      /\ shares'[t] \in Info /\ shares'[t] # None
      /\ shares'[t].path = i.path /\ shares'[t].source = i.source
      /\ shares'[t].limit = i.limit /\ shares'[t].expires = i.expires
      /\ shares'[t].count = n
      /\ Row(shares'[t]) = [Row(i) EXCEPT !.count = n]
      /\ \A u \in Tokens : u # t => shares'[u] = shares[u]
  <2>1. shares \in [Tokens -> Info \cup {None}]
    BY <1>1 DEF RegistryTypeOK
  <2>2. shares'[t] = [i EXCEPT !.count = n]
    BY <1>2, <2>1
  <2> HIDE DEF i, n
  <2>3. shares'[t] \in Info /\ shares'[t] # None
    BY <1>3, <2>2, NoneIsNoShare
  <2>4. shares' \in [Tokens -> Info \cup {None}] /\ \A u \in Tokens : u # t => shares'[u] = shares[u]
    BY <1>2, <1>3, <2>1
  <2> QED
    BY <1>3, <2>2, <2>3, <2>4
<1>5. /\ access' \in [Viewers -> Access \cup {None}]
      /\ access'[v] \in Access /\ access'[v] # None
      /\ access'[v].stage = "compare" /\ access'[v].own = n
      /\ \A w \in Viewers : w # v => access'[w] = access[w]
  <2>1. [access[v] EXCEPT !.stage = "compare"] \in Access
    BY <1>2 DEF Access
  <2> QED
    BY <1>1, <1>2, <2>1, NoneIsNoShare DEF RegistryTypeOK, Access
<1> HIDE DEF i, n
<1>6. RegistryTypeOK'
  <2>1. lost' \subseteq Tokens
    BY <1>1, <1>2 DEF RegistryTypeOK
  <2>2. \A w \in Viewers : access'[w] # None => views'[w] # None
    BY <1>1, <1>2, <1>5, RegistryAssumption DEF RegistryTypeOK
  <2> QED
    BY <1>1, <1>2, <1>4, <1>5, <2>1, <2>2 DEF RegistryTypeOK
<1>7. SharesStay
  BY <1>2, <1>4 DEF SharesStay, i
<1>8. FreshIsUnknown' /\ OneShareOfReceived'
  BY <1>2, <1>7, AccessKeepsLists
<1>9. LimitHolds'
  BY <1>1, <1>2 DEF LimitHolds
<1>10. ASSUME NEW u \in Tokens \ failed', u # t
       PROVE  RowAgrees(u)' /\ (u \notin lost' /\ shares'[u] # None => PagesCounted(u)')
  BY <1>2, <1>4, <1>5, <1>10, OtherSharesKept
<1>11. ASSUME t \notin failed'
       PROVE  RowAgrees(t)'
  <2>1. /\ rows[t] # None
        /\ [rows[t] EXCEPT !.count = 0] = [Row(i) EXCEPT !.count = 0]
        /\ t \notin lost => rows[t].count = i.count \/ rows[t].count < i.count
    BY <1>1, <1>2, <1>11 DEF RowsFollowMemory, i
  <2>5. rows[t] \in Info /\ rows[t].count \in Nat /\ i.count \in Nat
    BY <1>1, <1>2, <2>1 DEF RegistryTypeOK, Info
  <2>2. [Row(shares'[t]) EXCEPT !.count = 0] = [Row(i) EXCEPT !.count = 0]
    BY <1>2, <1>4, RowOfShare, CountForgotten
  <2>3. At(v, t, "compare")'
    BY <1>2, <1>5, RegistryAssumption DEF At
  <2>4. t \notin lost' => rows[t].count < n
    BY <1>2, <2>1, <2>5
  <2> QED
    BY <1>2, <1>4, <2>1, <2>2, <2>3, <2>4 DEF RowAgrees, CountUnderWay
<1>12. ASSUME t \notin failed' \cup lost'
       PROVE  PagesCounted(t)'
  <2>1. PagesCounted(t) /\ n = i.count + 1 /\ rows[t] \in Info /\ rows[t].count <= i.count
    <3>1. t \notin lost /\ n = i.count + 1
      BY <1>2, <1>12
    <3>2. PagesCounted(t)
      BY <1>1, <1>2, <1>12, <3>1 DEF CountIsServed
    <3>3. rows[t] # None /\ (rows[t].count = i.count \/ rows[t].count < i.count)
      BY <1>1, <1>2, <1>12, <3>1 DEF RowsFollowMemory, i
    <3>4. rows[t] \in Info /\ rows[t].count \in Nat /\ i.count \in Nat
      BY <1>1, <1>2, <3>3 DEF RegistryTypeOK, Info
    <3> QED
      BY <3>1, <3>2, <3>3, <3>4
  <2>2. \A w \in Viewers : w # v => (Counting(w, t)' <=> Counting(w, t))
    BY <1>2, <1>5 DEF Counting
  <2>3. ~Counting(v, t)
    BY <1>2 DEF Counting
  <2>4. ASSUME NEW w \in Viewers, Counting(w, t)'
        PROVE  /\ access'[w].own <= shares'[t].count
               /\ access'[w].stage = "store" =>
                    /\ access'[w].own <= access'[w].stored
                    /\ access'[w].stored <= shares'[t].count
                    /\ made'[t] > 0 => access'[w].own < made'[t]
    <3>1. CASE w = v
      BY <1>2, <1>4, <1>5, <3>1
    <3>2. CASE w # v
      <4>1. Counting(w, t) /\ access'[w] = access[w] /\ access[w] # None
        BY <1>5, <2>2, <2>4, <3>2 DEF Counting
      <4>2. access[w] \in Access
        BY <1>1, <4>1 DEF RegistryTypeOK
      <4>3. access[w].own \in Nat /\ access[w].stored \in Nat /\ i.count \in Nat
        BY <1>2, <4>2 DEF Access, Info
      <4> QED
        BY <1>2, <1>4, <2>1, <4>1, <4>3 DEF PagesCounted, i
    <3> QED
      BY <3>1, <3>2
  <2>5. ASSUME NEW k \in Nat, Floor(t)' <= k
        PROVE  served'[t] + Cardinality(Added(t, k)') <= k
    <3>1. Floor(t)' = Floor(t) /\ Floor(t) <= i.count /\ i.count \in Nat /\ served[t] \in Nat
      <4>1. made[t] \in Nat \cup {None} /\ served[t] \in Nat /\ rows[t].count \in Nat /\ i.count \in Nat
        BY <1>1, <1>2, <2>1 DEF RegistryTypeOK, Info
      <4>2. made[t] \in Nat
        BY <1>1, <1>2, <4>1 DEF FreshIsUnknown
      <4>3. Floor(t) <= i.count
        BY <2>1, <4>1, <4>2 DEF Floor
      <4> QED
        BY <1>2, <4>1, <4>3 DEF Floor
    <3>2. CASE n <= k
      <4>1. Added(t, k) = Added(t, i.count)
        <5>1. \A w \in Viewers : Counting(w, t) =>
                access[w].own \in Nat /\ access[w].own <= i.count
          BY <1>1, <2>1 DEF PagesCounted, Counting, RegistryTypeOK, Access, i
        <5> QED
          BY <2>1, <3>1, <3>2, <5>1 DEF Added
      <4>2. Added(t, k)' = Added(t, k) \cup {v} /\ v \notin Added(t, k)
        <5>1. Counting(v, t)'
          BY <1>2, <1>5 DEF Counting
        <5> QED
          BY <1>5, <2>2, <2>3, <3>2, <5>1 DEF Added
      <4>3. IsFiniteSet(Added(t, k)) /\ Cardinality(Added(t, k)) \in Nat
        BY AddedBound DEF Added
      <4>4. Cardinality(Added(t, k)') = Cardinality(Added(t, k)) + 1
        BY <4>2, <4>3, FS_AddElement
      <4>5. served[t] + Cardinality(Added(t, k)) <= i.count
        BY <2>1, <3>1, <4>1 DEF PagesCounted
      <4> QED
        BY <1>2, <2>1, <3>1, <3>2, <4>3, <4>4, <4>5
    <3>3. CASE ~(n <= k)
      <4>1. Added(t, k)' = Added(t, k)
        BY <1>5, <2>2, <2>3, <3>3 DEF Added
      <4> QED
        BY <1>2, <2>1, <2>5, <3>1, <4>1 DEF PagesCounted
    <3> QED
      BY <3>2, <3>3
  <2>6. shares'[t].limit = made'[t]
    BY <1>2, <1>4, <2>1 DEF PagesCounted, i
  <2> QED
    BY <2>4, <2>5, <2>6 DEF PagesCounted
<1>13. RowsFollowMemory' /\ CountIsServed'
  BY <1>2, <1>10, <1>11, <1>12, SharesTogether
<1> QED
  BY <1>6, <1>8, <1>9, <1>13 DEF RegistryInv

\* A worker whose count closes the share is on its way to do so, whatever it
\* compares with the limit (shareAccessed).
LEMMA ComparesStep ==
  ASSUME RegistryInv, NEW v \in Viewers, AccessCompares(v)
  PROVE  RegistryInv'
<1> PICK t \in Tokens : views[v] = t
  BY RegistryAssumption DEF RegistryInv, RegistryTypeOK, AccessCompares, At
<1> DEFINE n == access[v].own
<1>1. RegistryTypeOK /\ FreshIsUnknown /\ RowsFollowMemory /\ CountIsServed /\ LimitHolds
      /\ OneShareOfReceived
  BY DEF RegistryInv
<1>2. PICK m \in {n, shares[t].count} :
        access' = [access EXCEPT ![v] =
          [stage |-> IF shares[t].limit > 0 /\ m >= shares[t].limit THEN "close" ELSE "store",
           own |-> access[v].own,
           stored |-> shares[t].count]]
  BY DEF AccessCompares
<1>3. /\ t \in Tokens /\ shares[t] \in Info /\ access[v] \in Access /\ n \in Nat /\ m \in Nat
      /\ shares[t].count \in Nat /\ shares[t].limit \in Nat
      /\ shares[t] # None /\ access[v].stage = "compare" /\ access[v] # None
      /\ UNCHANGED <<shares, rows, disk, views, now, made, served, failed, lost, copies>>
  BY <1>1, <1>2 DEF AccessCompares, At, RegistryTypeOK, Access, Info
<1>4. /\ access' \in [Viewers -> Access \cup {None}]
      /\ access'[v] \in Access /\ access'[v] # None
      /\ access'[v].own = n /\ access'[v].stored = shares[t].count
      /\ access'[v].stage \in {"store", "close"}
      /\ access'[v].stage = "store" => ~(shares[t].limit > 0 /\ m >= shares[t].limit)
      /\ \A w \in Viewers : w # v => access'[w] = access[w]
  <2> DEFINE s == IF shares[t].limit > 0 /\ m >= shares[t].limit THEN "close" ELSE "store"
             a == [stage |-> s, own |-> n, stored |-> shares[t].count]
  <2>1. a \in Access
    BY <1>3 DEF Access
  <2>2. access \in [Viewers -> Access \cup {None}]
    BY <1>1 DEF RegistryTypeOK
  <2>5. access' = [access EXCEPT ![v] = a]
    BY <1>2
  <2> HIDE DEF s
  <2>6. s \in {"store", "close"} /\ (s = "store" => ~(shares[t].limit > 0 /\ m >= shares[t].limit))
    BY DEF s
  <2> QED
    BY <2>1, <2>2, <2>5, <2>6, NoneIsNoShare
<1> HIDE DEF n
<1>5. RegistryTypeOK'
  <2>1. \A w \in Viewers : access'[w] # None => views'[w] # None
    BY <1>1, <1>3, <1>4 DEF RegistryTypeOK
  <2> QED
    BY <1>1, <1>3, <1>4, <2>1 DEF RegistryTypeOK
<1>6. FreshIsUnknown' /\ LimitHolds'
  BY <1>1, <1>3 DEF FreshIsUnknown, LimitHolds
<1>7. OneShareOfReceived'
  BY <1>1, <1>3 DEF OneShareOfReceived, ActiveShares, IsLive, Expired
<1>8. ASSUME NEW u \in Tokens \ failed', u # t
      PROVE  RowAgrees(u)' /\ (u \notin lost' /\ shares'[u] # None => PagesCounted(u)')
  BY <1>3, <1>4, <1>8, OtherSharesKept
<1>9. ASSUME t \notin failed'
      PROVE  RowAgrees(t)'
  <2>1. At(v, t, "close")' \/ (At(v, t, "store")' /\ access'[v].stored = shares'[t].count)
    BY <1>3, <1>4, RegistryAssumption DEF At
  <2>2. CountUnderWay(t)'
    BY <2>1 DEF CountUnderWay
  <2> QED
    BY <1>1, <1>3, <1>9, <2>2 DEF RowsFollowMemory, RowAgrees
<1>10. ASSUME t \notin failed' \cup lost'
       PROVE  PagesCounted(t)'
  <2>1. PagesCounted(t)
    BY <1>1, <1>3, <1>10 DEF CountIsServed
  <2>2. \A w \in Viewers : Counting(w, t)' <=> Counting(w, t)
    BY <1>3, <1>4 DEF Counting
  <2>3. \A k \in Nat : Added(t, k)' = Added(t, k)
    <3>1. \A w \in Viewers : access'[w] # None => access'[w].own = access[w].own
      BY <1>3, <1>4 DEF n
    <3> QED
      BY <2>2, <3>1 DEF Added, Counting
  <2>4. ASSUME NEW w \in Viewers, Counting(w, t)'
        PROVE  /\ access'[w].own <= shares'[t].count
               /\ access'[w].stage = "store" =>
                    /\ access'[w].own <= access'[w].stored
                    /\ access'[w].stored <= shares'[t].count
                    /\ made'[t] > 0 => access'[w].own < made'[t]
    <3>1. CASE w # v
      BY <1>3, <1>4, <2>1, <2>2, <2>4, <3>1 DEF PagesCounted
    <3>2. CASE w = v
      <4>1. Counting(v, t)
        BY <2>2, <2>4, <3>2
      <4>2. n <= shares[t].count /\ n <= m /\ shares[t].limit = made[t]
        BY <1>2, <1>3, <2>1, <4>1 DEF PagesCounted, n
      <4>3. access'[v].stage = "store" => (made[t] > 0 => n < made[t])
        BY <1>3, <1>4, <4>2
      <4> QED
        BY <1>3, <1>4, <3>2, <4>2, <4>3
    <3> QED
      BY <3>1, <3>2
  <2> QED
    BY <1>3, <2>1, <2>3, <2>4 DEF PagesCounted, Floor
<1>11. RowsFollowMemory' /\ CountIsServed'
  BY <1>3, <1>8, <1>9, <1>10, SharesTogether
<1> QED
  BY <1>5, <1>6, <1>7, <1>11 DEF RegistryInv

\* A worker that shows its page and changes nothing for other shares leaves the
\* invariant to be shown for this share alone.
LEMMA ShownStep ==
  ASSUME RegistryInv, NEW v \in Viewers, NEW t \in Tokens, views[v] = t, Shown(v),
         shares' \in [Tokens -> Info \cup {None}], rows' \in [Tokens -> Info \cup {None}],
         failed \subseteq failed', failed' \subseteq Tokens,
         lost \subseteq lost', lost' \subseteq Tokens, SharesStay,
         \A u \in Tokens : u # t => shares'[u] = shares[u] /\ rows'[u] = rows[u],
         t \notin failed' => RowAgrees(t)',
         t \notin failed' \cup lost' /\ shares'[t] # None => PagesCounted(t)'
  PROVE  RegistryInv'
<1>1. /\ views' \in [Viewers -> Tokens \cup {None}]
      /\ access' \in [Viewers -> Access \cup {None}]
      /\ \A w \in Viewers : access'[w] # None => views'[w] # None
      /\ served' \in [Tokens -> Nat]
      /\ \A u \in Tokens : u # t => served'[u] = served[u]
      /\ views'[v] = None /\ access'[v] = None
      /\ \A w \in Viewers : w # v => views'[w] = views[w] /\ access'[w] = access[w]
      /\ LimitHolds'
  BY ShownEffect
<1>2. UNCHANGED <<disk, now, made, copies>>
  BY DEF Shown
<1>3. RegistryTypeOK'
  BY <1>1, <1>2 DEF RegistryInv, RegistryTypeOK
<1>4. FreshIsUnknown' /\ OneShareOfReceived'
  BY <1>1, <1>2, AccessKeepsLists
<1>5. ASSUME NEW u \in Tokens \ failed', u # t
      PROVE  RowAgrees(u)' /\ (u \notin lost' /\ shares'[u] # None => PagesCounted(u)')
  BY <1>1, <1>2, <1>5, OtherSharesKept
<1>6. RowsFollowMemory' /\ CountIsServed'
  BY <1>5, SharesTogether
<1> QED
  BY <1>1, <1>3, <1>4, <1>6 DEF RegistryInv

\* A share that is gone is not counted any more (shareAccessed).
LEMMA MissesStep ==
  ASSUME RegistryInv, NEW v \in Viewers, AccessMisses(v)
  PROVE  RegistryInv'
<1>1. RegistryTypeOK /\ RowsFollowMemory
  BY DEF RegistryInv
<1> PICK t \in Tokens : views[v] = t
  BY <1>1 DEF RegistryTypeOK, AccessMisses
<1>2. Shown(v) /\ shares[t] = None /\ UNCHANGED <<shares, rows, failed, lost>>
  BY DEF AccessMisses
<1>3. t \notin failed' => RowAgrees(t)'
  BY <1>1, <1>2 DEF RowsFollowMemory, RowAgrees
<1>4. /\ shares' \in [Tokens -> Info \cup {None}] /\ rows' \in [Tokens -> Info \cup {None}]
      /\ failed' \subseteq Tokens /\ lost' \subseteq Tokens
  BY <1>1, <1>2 DEF RegistryTypeOK
<1>5. SharesStay
  BY <1>2 DEF SharesStay
<1> QED
  BY <1>2, <1>3, <1>4, <1>5, ShownStep

\* A share that was used up leaves memory and table (shareAccessed, cancelShare).
LEMMA CancelsStep ==
  ASSUME RegistryInv, NEW v \in Viewers, NEW ok \in BOOLEAN, AccessCancels(v, ok)
  PROVE  RegistryInv'
<1>1. RegistryTypeOK /\ RowsFollowMemory
  BY DEF RegistryInv
<1> PICK t \in Tokens : views[v] = t
  BY <1>1, RegistryAssumption DEF RegistryTypeOK, AccessCancels, At
<1>2. Shown(v) /\ lost' = lost
  BY DEF AccessCancels
<1>3. /\ shares' \in [Tokens -> Info \cup {None}] /\ rows' \in [Tokens -> Info \cup {None}]
      /\ failed' \subseteq Tokens /\ failed \subseteq failed'
      /\ \A u \in Tokens : u # t => shares'[u] = shares[u] /\ rows'[u] = rows[u]
      /\ shares'[t] = None
      /\ t \notin failed' => rows'[t] = None
  <2>1. CASE shares[t] = None
    BY <1>1, <2>1 DEF AccessCancels, RegistryTypeOK, RowsFollowMemory
  <2>2. CASE shares[t] # None
    <3>1. Forget(t, ok)
      BY <2>2 DEF AccessCancels
    <3> QED
      BY <1>1, <3>1, Forgotten
  <2> QED
    BY <2>1, <2>2
<1>4. t \notin failed' => RowAgrees(t)'
  BY <1>3 DEF RowAgrees
<1>5. SharesStay /\ lost' \subseteq Tokens
  BY <1>1, <1>2, <1>3 DEF SharesStay, RegistryTypeOK
<1> QED
  BY <1>2, <1>3, <1>4, <1>5, ShownStep

\* A count that is stored is at least that of the worker that stores it, so its
\* page is still within the count; an older one that overwrites a newer one is
\* lost (shareAccessed, updateShareInDb).
LEMMA StoresStep ==
  ASSUME RegistryInv, NEW v \in Viewers, NEW ok \in BOOLEAN, AccessStores(v, ok)
  PROVE  RegistryInv'
<1>1. RegistryTypeOK /\ FreshIsUnknown /\ RowsFollowMemory /\ CountIsServed
  BY DEF RegistryInv
<1> PICK t \in Tokens : views[v] = t
  BY <1>1, RegistryAssumption DEF RegistryTypeOK, AccessStores, At
<1> DEFINE n == access[v].own
           c == access[v].stored
<1>2. /\ access[v] \in Access /\ n \in Nat /\ c \in Nat
      /\ access[v] # None /\ access[v].stage = "store"
      /\ updateShareInDb(t, c, ok) /\ Shown(v) /\ shares' = shares
      /\ lost' = IF rows[t] # None /\ c < rows[t].count THEN lost \cup {t} ELSE lost
  BY <1>1 DEF AccessStores, At, RegistryTypeOK, Access
<1> HIDE DEF n, c
<1>3. /\ rows' \in [Tokens -> Info \cup {None}]
      /\ failed' \subseteq Tokens /\ failed \subseteq failed'
      /\ \A u \in Tokens : u # t => rows'[u] = rows[u]
      /\ t \notin failed' =>
           rows'[t] = IF rows[t] = None THEN None ELSE [rows[t] EXCEPT !.count = c]
  BY <1>1, <1>2, Updated
<1>4. /\ views'[v] = None /\ access'[v] = None
      /\ \A w \in Viewers : w # v => views'[w] = views[w] /\ access'[w] = access[w]
      /\ served'[t] = served[t] + 1 /\ made' = made
  BY <1>2, <1>3, ShownEffect DEF Shown
<1>5. /\ shares' \in [Tokens -> Info \cup {None}] /\ SharesStay
      /\ lost \subseteq lost' /\ lost' \subseteq Tokens
  BY <1>1, <1>2 DEF RegistryTypeOK, SharesStay
<1>6. ASSUME t \notin failed', shares[t] # None
      PROVE  /\ rows[t] \in Info /\ rows'[t] \in Info /\ rows'[t] # None
             /\ rows[t].count \in Nat /\ shares[t].count \in Nat
             /\ rows'[t] = [rows[t] EXCEPT !.count = c] /\ rows'[t].count = c
             /\ [rows'[t] EXCEPT !.count = 0] = [Row(shares[t]) EXCEPT !.count = 0]
  <2>1. rows[t] # None /\ [rows[t] EXCEPT !.count = 0] = [Row(shares[t]) EXCEPT !.count = 0]
    BY <1>1, <1>3, <1>6 DEF RowsFollowMemory
  <2>2. rows[t] \in Info /\ shares[t] \in Info
    BY <1>1, <1>6, <2>1 DEF RegistryTypeOK
  <2>3. rows[t].count \in Nat /\ shares[t].count \in Nat
    BY <2>2 DEF Info
  <2>4. rows'[t] = [rows[t] EXCEPT !.count = c]
    BY <1>3, <1>6, <2>1
  <2>5. rows'[t] \in Info /\ rows'[t].count = c
    <3>1. [rows[t] EXCEPT !.count = c] \in Info /\ [rows[t] EXCEPT !.count = c].count = c
      BY <1>2, <2>2, CountOfShare
    <3> QED
      BY <2>4, <3>1
  <2>6. [rows'[t] EXCEPT !.count = 0] = [rows[t] EXCEPT !.count = 0]
    BY <1>2, <2>2, <2>4, CountForgotten
  <2> QED
    BY <2>1, <2>2, <2>3, <2>4, <2>5, <2>6, NoneIsNoShare
\* What is known of a share that is in memory and was not lost.
<1>7. ASSUME t \notin failed' \cup lost', shares[t] # None
      PROVE  /\ PagesCounted(t) /\ Counting(v, t)
             /\ n <= c /\ c <= shares[t].count /\ rows[t].count <= c
             /\ made[t] > 0 => n < made[t]
  <2>1. t \notin failed /\ t \notin lost
    BY <1>3, <1>5, <1>7
  <2>2. PagesCounted(t)
    BY <1>1, <1>7, <2>1 DEF CountIsServed
  <2>3. Counting(v, t)
    BY <1>2 DEF Counting
  <2>4. rows[t] # None /\ rows[t].count \in Nat
    BY <1>6, <1>7, NoneIsNoShare
  <2>5. rows[t].count <= c
    BY <1>2, <1>7, <2>4
  <2> QED
    BY <1>2, <2>2, <2>3, <2>5 DEF PagesCounted, n, c
<1>8. ASSUME t \notin failed'
      PROVE  RowAgrees(t)'
  <2>1. CASE shares[t] = None
    BY <1>1, <1>2, <1>3, <1>8, <2>1 DEF RowAgrees, RowsFollowMemory
  <2>2. CASE shares[t] # None
    <3>1. ASSUME t \notin lost'
          PROVE  c = shares[t].count \/ (c < shares[t].count /\ CountUnderWay(t)')
      <4>1. CASE c = shares[t].count
        BY <4>1
      <4>2. CASE c # shares[t].count
        <5>1. c < shares[t].count /\ rows[t].count < shares[t].count
          BY <1>2, <1>6, <1>7, <1>8, <2>2, <3>1, <4>2
        <5>2. CountUnderWay(t)
          BY <1>1, <1>3, <1>5, <1>6, <1>8, <2>2, <3>1, <5>1 DEF RowsFollowMemory
        <5>3. PICK w \in Viewers :
                \/ At(w, t, "compare")
                \/ At(w, t, "close")
                \/ At(w, t, "store") /\ access[w].stored = shares[t].count
          BY <5>2 DEF CountUnderWay
        <5>4. w # v
          BY <1>2, <4>2, <5>3 DEF At, c
        <5> QED
          BY <1>2, <1>4, <5>1, <5>3, <5>4 DEF CountUnderWay, At
      <4> QED
        BY <4>1, <4>2
    <3> QED
      BY <1>2, <1>6, <1>8, <2>2, <3>1 DEF RowAgrees
  <2> QED
    BY <2>1, <2>2
<1>9. ASSUME t \notin failed' \cup lost', shares'[t] # None
      PROVE  PagesCounted(t)'
  <2>1. /\ PagesCounted(t) /\ Counting(v, t)
        /\ n <= c /\ c <= shares[t].count /\ rows[t].count <= c
        /\ made[t] > 0 => n < made[t]
    BY <1>2, <1>7, <1>9
  <2>2. /\ rows[t].count \in Nat /\ rows'[t].count = c /\ served[t] \in Nat /\ made[t] \in Nat
    <3>1. rows[t].count \in Nat /\ rows'[t].count = c
      BY <1>2, <1>6, <1>9
    <3>2. made[t] # None
      BY <1>1, <1>2, <1>9 DEF FreshIsUnknown
    <3> QED
      BY <1>1, <3>1, <3>2 DEF RegistryTypeOK
  <2>3. /\ ~Counting(v, t)'
        /\ \A w \in Viewers : w # v => (Counting(w, t)' <=> Counting(w, t)) /\ access'[w] = access[w]
    BY <1>4, RegistryAssumption DEF Counting
  <2>4. ASSUME NEW w \in Viewers, Counting(w, t)'
        PROVE  /\ access'[w].own <= shares'[t].count
               /\ access'[w].stage = "store" =>
                    /\ access'[w].own <= access'[w].stored
                    /\ access'[w].stored <= shares'[t].count
                    /\ made'[t] > 0 => access'[w].own < made'[t]
    BY <1>2, <1>4, <2>1, <2>3, <2>4 DEF PagesCounted
  <2>5. Floor(t) <= Floor(t)' /\ Floor(t)' \in Int /\ Floor(t) \in Int
    BY <1>2, <1>4, <2>1, <2>2 DEF Floor
  <2>6. ASSUME NEW k \in Nat, Floor(t)' <= k
        PROVE  served'[t] + Cardinality(Added(t, k)') <= k
    <3>1. served[t] + Cardinality(Added(t, k)) <= k
      BY <2>1, <2>5, <2>6 DEF PagesCounted
    <3>2. n <= k
      BY <1>2, <1>4, <2>1, <2>2, <2>6 DEF Floor
    <3>3. Added(t, k)' = Added(t, k) \ {v} /\ v \in Added(t, k)
      BY <2>1, <2>3, <3>2 DEF Added, n
    <3>4. IsFiniteSet(Added(t, k)) /\ Cardinality(Added(t, k)) \in Nat
      BY AddedBound DEF Added
    <3>5. Cardinality(Added(t, k)') = Cardinality(Added(t, k)) - 1
      BY <3>3, <3>4, FS_RemoveElement
    <3> QED
      BY <1>4, <2>2, <3>1, <3>4, <3>5
  <2> QED
    BY <1>2, <1>4, <2>1, <2>4, <2>6 DEF PagesCounted
<1> QED
  BY <1>2, <1>3, <1>5, <1>8, <1>9, ShownStep

\* After a start memory has what the table had, and no page is open
\* (loadSharesFromDb).
LEMMA RestartStep ==
  ASSUME RegistryInv, RestartRegistry
  PROVE  RegistryInv'
<1>1. RegistryTypeOK /\ FreshIsUnknown /\ RowsFollowMemory /\ CountIsServed /\ LimitHolds
      /\ OneShareOfReceived
  BY DEF RegistryInv
<1>2. /\ shares' = rows
      /\ views' = [v \in Viewers |-> None]
      /\ access' = [v \in Viewers |-> None]
      /\ UNCHANGED <<rows, disk, now, made, served, failed, lost, copies>>
  BY DEF RestartRegistry, Loaded
<1>3. \A t \in Tokens : shares[t] # None => shares[t] \in Info /\ Row(shares[t]) # None
  BY <1>1, RowOfShare, NoneIsNoShare DEF RegistryTypeOK
\* A share that was in the table was in memory, with at most the count of then.
<1>4. ASSUME NEW t \in Tokens \ failed, shares'[t] # None
      PROVE  /\ shares[t] # None /\ shares[t] \in Info /\ shares'[t] \in Info
             /\ shares'[t].path = shares[t].path /\ shares'[t].source = shares[t].source
             /\ shares'[t].limit = shares[t].limit
             /\ shares'[t].expires = None <=> shares[t].expires = None
             /\ shares[t].expires # None =>
                  shares'[t].expires \in Nat /\ shares'[t].expires <= shares[t].expires
             /\ [shares'[t] EXCEPT !.count = 0] = [Row(shares'[t]) EXCEPT !.count = 0]
  <2>1. /\ shares[t] # None /\ shares[t] \in Info /\ shares'[t] \in Info /\ shares'[t] = rows[t]
        /\ [rows[t] EXCEPT !.count = 0] = [Row(shares[t]) EXCEPT !.count = 0]
    BY <1>1, <1>2, <1>4 DEF RowsFollowMemory, RegistryTypeOK
  <2>2. [Row(rows[t]) EXCEPT !.count = 0] = [rows[t] EXCEPT !.count = 0]
    <3>1. Row([rows[t] EXCEPT !.count = 0]) = [Row(rows[t]) EXCEPT !.count = 0]
      BY <2>1, CountOfShare
    <3>2. Row([Row(shares[t]) EXCEPT !.count = 0]) = [Row(Row(shares[t])) EXCEPT !.count = 0]
      BY <2>1, RowOfShare, CountOfShare
    <3> QED
      BY <2>1, <3>1, <3>2, RowOfShare
  <2>3. rows[t] \in Info /\ Row(shares[t]) \in Info
    BY <2>1, RowOfShare
  <2>4. /\ rows[t].path = Row(shares[t]).path /\ rows[t].source = Row(shares[t]).source
        /\ rows[t].limit = Row(shares[t]).limit /\ rows[t].expires = Row(shares[t]).expires
    <3> DEFINE a == rows[t]
               b == Row(shares[t])
    <3>1. [a EXCEPT !.count = 0] = [b EXCEPT !.count = 0] /\ a \in Info /\ b \in Info
      BY <2>1, <2>3
    <3> HIDE DEF a, b
    <3>2. \A i \in Info :
            LET j == [i EXCEPT !.count = 0]
            IN  /\ j.path = i.path /\ j.source = i.source
                /\ j.limit = i.limit /\ j.expires = i.expires
      BY CountOfShare
    <3>3. a.path = b.path /\ a.source = b.source /\ a.limit = b.limit /\ a.expires = b.expires
      BY <3>1, <3>2
    <3> QED
      BY <3>3 DEF a, b
  <2> QED
    BY <2>1, <2>2, <2>4, RowOfShare
<1>5. RegistryTypeOK'
  BY <1>1, <1>2 DEF RegistryTypeOK
<1>6. FreshIsUnknown'
  BY <1>1, <1>2, RegistryAssumption DEF FreshIsUnknown
<1>7. \A t \in Tokens \ failed : RowAgrees(t)'
  BY <1>2, <1>4 DEF RowAgrees
<1>8. ASSUME NEW t \in Tokens \ (failed \cup lost), shares'[t] # None
      PROVE  PagesCounted(t)'
  <2>1. PagesCounted(t) /\ shares'[t].limit = shares[t].limit
    BY <1>1, <1>4, <1>8 DEF CountIsServed
  <2>2. \A w \in Viewers : ~Counting(w, t)'
    BY <1>2 DEF Counting
  <2>3. Floor(t)' = Floor(t)
    BY <1>2 DEF Floor
  <2>4. ASSUME NEW k \in Nat, Floor(t)' <= k
        PROVE  served'[t] + Cardinality(Added(t, k)') <= k
    <3>1. Added(t, k)' = {}
      BY <2>2 DEF Added
    <3>2. served[t] + Cardinality(Added(t, k)) <= k
      BY <2>1, <2>3, <2>4 DEF PagesCounted
    <3>3. Cardinality(Added(t, k)) \in Nat /\ served[t] \in Nat
      BY <1>1, AddedBound DEF Added, RegistryTypeOK
    <3> QED
      BY <1>2, <3>1, <3>2, <3>3, FS_EmptySet
  <2> QED
    BY <1>2, <2>1, <2>2, <2>4 DEF PagesCounted
<1>11. RowsFollowMemory' /\ CountIsServed'
  BY <1>2, <1>7, <1>8 DEF RowsFollowMemory, RowAgrees, CountIsServed
<1>9. LimitHolds'
  <2> SUFFICES ASSUME NEW t \in Tokens \ (failed \cup lost), made[t] # None, made[t] > 0
               PROVE  served[t] + Cardinality({v \in Viewers : views'[v] = t})
                        < made[t] + Cardinality(Viewers)
    BY <1>2 DEF LimitHolds
  <2>1. served[t] + Cardinality({v \in Viewers : views[v] = t}) < made[t] + Cardinality(Viewers)
    BY <1>1 DEF LimitHolds
  <2>2. {v \in Viewers : views'[v] = t} = {}
    BY <1>2, RegistryAssumption
  <2>3. /\ Cardinality({v \in Viewers : views[v] = t}) \in Nat /\ Cardinality(Viewers) \in Nat
        /\ served[t] \in Nat /\ made[t] \in Nat
    BY <1>1, OpenPagesBound DEF RegistryTypeOK
  <2>4. Cardinality({v \in Viewers : views'[v] = t}) = 0
    BY <2>2, FS_EmptySet
  <2> QED
    BY <2>1, <2>3, <2>4
<1>10. OneShareOfReceived'
  <2>1. ASSUME NEW u \in ActiveShares' \ failed
        PROVE  u \in ActiveShares /\ shares'[u].path = shares[u].path
    <3>1. u \in Tokens \ failed /\ shares'[u] # None
      BY DEF ActiveShares, IsLive
    <3>2. /\ shares[u] # None /\ shares[u] \in Info
          /\ shares'[u].path = shares[u].path /\ shares'[u].source = shares[u].source
          /\ shares'[u].expires = None <=> shares[u].expires = None
          /\ shares[u].expires # None =>
               shares'[u].expires \in Nat /\ shares'[u].expires <= shares[u].expires
      BY <1>4, <3>1
    <3>3. now' = now /\ now \in Nat /\ shares[u].expires \in Nat \cup {None}
      BY <1>1, <1>2, <3>2, RegistryAssumption DEF RegistryTypeOK, Info
    <3> QED
      BY <3>1, <3>2, <3>3 DEF ActiveShares, IsLive, Expired
  <2> QED
    BY <1>1, <1>2, <2>1, NoSecondShare
<1> QED
  BY <1>5, <1>6, <1>9, <1>10, <1>11 DEF RegistryInv

\* Time only ends shares (isExpired).
LEMMA TickStep ==
  ASSUME RegistryInv, Tick
  PROVE  RegistryInv'
<1>1. RegistryTypeOK /\ FreshIsUnknown /\ RowsFollowMemory /\ CountIsServed /\ LimitHolds
      /\ OneShareOfReceived
  BY DEF RegistryInv
<1>2. /\ now < MaxTime /\ now' = now + 1
      /\ UNCHANGED <<shares, rows, disk, views, access, made, served, failed, lost, copies>>
  BY DEF Tick
<1>3. RegistryTypeOK' /\ now <= now'
  BY <1>1, <1>2, RegistryAssumption DEF RegistryTypeOK
<1>4. FreshIsUnknown' /\ LimitHolds'
  BY <1>1, <1>2 DEF FreshIsUnknown, LimitHolds
<1>7. RowsFollowMemory' /\ CountIsServed'
  <2>1. \A u \in Tokens \ failed' :
          RowAgrees(u)' /\ (u \notin lost' /\ shares'[u] # None => PagesCounted(u)')
    BY <1>2, OthersKept
  <2> QED
    BY <2>1 DEF RowsFollowMemory, RowAgrees, CountIsServed
<1>5. \A u \in ActiveShares' : u \in ActiveShares /\ shares'[u].path = shares[u].path
  BY <1>1, <1>2, <1>3, ListedBefore DEF ActiveShares
<1>6. OneShareOfReceived'
  BY <1>1, <1>2, <1>5, NoSecondShare
<1> QED
  BY <1>3, <1>4, <1>6, <1>7 DEF RegistryInv

\* What the user does with shares.
LEMMA UserStep ==
  ASSUME RegistryInv, UserRegistry
  PROVE  RegistryInv'
<1> PICK t \in Tokens, ok \in BOOLEAN :
      \/ \E p \in Paths, h \in Hours, n \in Limits : Share(t, p, h, n, ok)
      \/ \E p \in Paths : Receive(t, p, ok)
      \/ \E r \in Tokens, h \in Hours \ {0} : shareReceivedFile(r, t, h, ok)
      \/ cancelShare(t, ok)
      \/ deleteReceivedFile(t, ok)
  BY DEF UserRegistry
<1>1. RegistryTypeOK
  BY DEF RegistryInv
<1>2. Hours \subseteq Nat /\ Limits \subseteq Nat
  BY RegistryAssumption
<1>3. ASSUME NEW p \in Paths, NEW h \in Hours, NEW n \in Limits, Share(t, p, h, n, ok)
      PROVE  RegistryInv'
  BY <1>1, <1>2, <1>3, CreateStep DEF Share, RegistryTypeOK
<1>4. ASSUME NEW p \in Paths, Receive(t, p, ok)
      PROVE  RegistryInv'
  BY <1>1, <1>4, CreateStep DEF Receive, RegistryTypeOK
<1>5. ASSUME NEW r \in Tokens, NEW h \in Hours, shareReceivedFile(r, t, h, ok)
      PROVE  RegistryInv'
  <2>1. shares[r].path \in Paths
    BY <1>1, <1>5 DEF shareReceivedFile, RegistryTypeOK, Info
  <2>2. /\ SharesOf(shares[r].path) = {}
        /\ createShare(t, shares[r].path, h, 0, 0, ok)
        /\ copies' = copies \cup {t}
        /\ UNCHANGED <<disk, views, access, now, served, lost>>
    BY <1>5 DEF shareReceivedFile
  <2> QED
    BY <1>1, <1>2, <2>1, <2>2, CreateStep DEF RegistryTypeOK
<1>6. ASSUME cancelShare(t, ok)
      PROVE  RegistryInv'
  BY <1>1, <1>6, ForgetStep DEF cancelShare, RegistryTypeOK
<1>7. ASSUME deleteReceivedFile(t, ok)
      PROVE  RegistryInv'
  BY <1>1, <1>7, ForgetStep DEF deleteReceivedFile, RegistryTypeOK
<1> QED
  BY <1>3, <1>4, <1>5, <1>6, <1>7

\* Every step of the registry keeps its invariant.
LEMMA RegistryStepOfInv ==
  ASSUME RegistryInv, [RegistryNext]_regVars
  PROVE  RegistryInv'
<1>1. CASE UserRegistry
  BY <1>1, UserStep
<1>2. CASE cleanupExpiredShares
  BY <1>2, CleanupStep
<1>3. CASE \E v \in Viewers, t \in Tokens : OpenPage(v, t)
  BY <1>3, OpenStep
<1>4. CASE \E v \in Viewers : AccessGoesOn(v)
  BY <1>4, ReadsStep, AddsStep, ComparesStep DEF AccessGoesOn
<1>8. CASE \E v \in Viewers, ok \in BOOLEAN : AccessEnds(v, ok)
  BY <1>8, MissesStep, StoresStep, CancelsStep DEF AccessEnds
<1>5. CASE RestartRegistry
  BY <1>5, RestartStep
<1>6. CASE Tick
  BY <1>6, TickStep
<1>7. CASE UNCHANGED regVars
  <2>1. \A u \in Tokens \ failed' :
          RowAgrees(u)' /\ (u \notin lost' /\ shares'[u] # None => PagesCounted(u)')
    BY <1>7, OthersKept DEF regVars
  <2>2. RowsFollowMemory' /\ CountIsServed'
    BY <2>1 DEF RowsFollowMemory, RowAgrees, CountIsServed
  <2> QED
    BY <1>7, <2>2 DEF regVars, RegistryInv, RegistryTypeOK, FreshIsUnknown, LimitHolds,
      OneShareOfReceived, ActiveShares, IsLive, Expired
<1> QED
  BY <1>1, <1>2, <1>3, <1>4, <1>5, <1>6, <1>7, <1>8 DEF RegistryNext

-----------------------------------------------------------------------------
(* The theorems *)

\* An empty table (initialize).
LEMMA RegistryInvInit == RegistryInit => RegistryInv
<1> SUFFICES ASSUME RegistryInit PROVE RegistryInv
  OBVIOUS
<1>1. RegistryTypeOK
  BY RegistryAssumption DEF RegistryInit, RegistryTypeOK
<1>2. FreshIsUnknown
  BY RegistryAssumption DEF RegistryInit, FreshIsUnknown
<1>3. RowsFollowMemory /\ CountIsServed /\ LimitHolds /\ OneShareOfReceived
  BY DEF RegistryInit, RowsFollowMemory, CountIsServed, LimitHolds, OneShareOfReceived
<1> QED
  BY <1>1, <1>2, <1>3 DEF RegistryInv

\* The inductive invariant of the registry.
LEMMA RegistryInvHolds == RegistrySpec => []RegistryInv
<1>1. RegistryInv /\ [RegistryNext]_regVars => RegistryInv'
  BY RegistryStepOfInv
<1> QED
  BY <1>1, RegistryInvInit, PTL DEF RegistrySpec

\* Over any number of creations, accesses, cancellations, starts and crashes
\* memory and table have the same shares, but for failed statements; and the
\* table is behind with a count only while a worker is about to write it, or
\* after two have written it in the wrong order.
THEOREM TableFollowsMemory == RegistrySpec => []RowsFollowMemory
BY RegistryInvHolds, PTL DEF RegistryInv

\* However many workers show the page of a share, and wherever one is in
\* counting it, the page is shown at most one time less than limit and workers
\* together, unless two of them wrote the count in the wrong order: neither a
\* start nor a cancellation gives it more.
THEOREM LimitIsKept == RegistrySpec => []LimitHolds
BY RegistryInvHolds, PTL DEF RegistryInv

\* A received file has one listed share at a time.
THEOREM ReceivedSharedOnce == RegistrySpec => []OneShareOfReceived
BY RegistryInvHolds, PTL DEF RegistryInv

\* In a step a share that is gone stays gone, unless a statement for it failed:
\* only a start puts shares back, and their rows are gone as well.
LEMMA GoneStep ==
  ASSUME RegistryInv, [RegistryNext]_regVars, NEW t \in Tokens \ failed',
         made[t] # None, shares[t] = None
  PROVE  shares'[t] = None
<1>1. RegistryTypeOK /\ RowsFollowMemory
  BY DEF RegistryInv
<1>2. CASE UserRegistry
  <2> PICK u \in Tokens, ok \in BOOLEAN :
      \/ \E p \in Paths, h \in Hours, n \in Limits : Share(u, p, h, n, ok)
      \/ \E p \in Paths : Receive(u, p, ok)
      \/ \E r \in Tokens, h \in Hours \ {0} : shareReceivedFile(r, u, h, ok)
      \/ cancelShare(u, ok)
      \/ deleteReceivedFile(u, ok)
    BY <1>2 DEF UserRegistry
  <2>1. ASSUME NEW p, NEW h, NEW n, NEW s, createShare(u, p, h, n, s, ok)
        PROVE  shares'[t] = None
    BY <1>1, <2>1 DEF createShare, RegistryTypeOK
  <2>2. ASSUME Forget(u, ok)
        PROVE  shares'[t] = None
    BY <1>1, <2>2 DEF Forget, RegistryTypeOK
  <2> QED
    BY <2>1, <2>2 DEF Share, Receive, shareReceivedFile, cancelShare, deleteReceivedFile
<1>3. CASE cleanupExpiredShares
  BY <1>3 DEF cleanupExpiredShares
<1>4. CASE \E v \in Viewers, u \in Tokens : OpenPage(v, u)
  BY <1>4 DEF OpenPage
<1>5. CASE \E v \in Viewers : AccessGoesOn(v)
  BY <1>1, <1>5 DEF AccessGoesOn, AccessReads, AccessAdds, AccessCompares, RegistryTypeOK
<1>8. CASE \E v \in Viewers, ok \in BOOLEAN : AccessEnds(v, ok)
  BY <1>1, <1>8 DEF AccessEnds, AccessMisses, AccessStores, AccessCancels, Forget, RegistryTypeOK
<1>6. CASE RestartRegistry
  <2>1. shares' = rows /\ failed' = failed
    BY <1>6 DEF RestartRegistry, Loaded
  <2> QED
    BY <1>1, <2>1 DEF RowsFollowMemory
<1>7. CASE Tick \/ UNCHANGED regVars
  BY <1>7 DEF Tick, regVars
<1> QED
  BY <1>2, <1>3, <1>4, <1>5, <1>6, <1>7, <1>8 DEF RegistryNext

\* A share that was cancelled, deleted or used up does not come back.
THEOREM NoShareComesBack == RegistrySpec => GoneStaysGone
<1>1. RegistryInv /\ [RegistryNext]_regVars =>
        [\A t \in Tokens \ failed' :
           made[t] # None /\ shares[t] = None => shares'[t] = None]_regVars
  BY GoneStep
<1> QED
  BY <1>1, RegistryInvHolds, PTL DEF RegistrySpec, GoneStaysGone


-----------------------------------------------------------------------------
(* The registry beside the downloads *)

\* A download changes nothing in the registry: every step is one of the
\* registry or leaves it alone.
LEMMA StepOfRegistry ==
  ASSUME [DownloadNext]_allVars
  PROVE  [RegistryNext]_regVars
<1>1. CASE RegistryStep
  BY <1>1 DEF RegistryStep, RegistryNext
<1>2. CASE PageStep
  <2>1. ASSUME NEW t \in Tokens, AskSize(t)
        PROVE  UNCHANGED regVars
    BY <2>1 DEF AskSize
  <2>2. ASSUME NEW t \in Tokens, Resume(t)
        PROVE  UNCHANGED regVars
    BY <2>2 DEF Resume, Begin
  <2>3. ASSUME NEW r \in Requests, ReadBlock(r) \/ EndRead(r) \/ LoseStream(r) \/ CancelDownload(r)
        PROVE  UNCHANGED regVars
    BY <2>3 DEF ReadBlock, EndRead, LoseStream, CancelDownload
  <2>4. ASSUME NEW v \in Viewers, NEW ok \in BOOLEAN, ShowPage(v, ok)
        PROVE  RegistryNext
    BY <2>4 DEF ShowPage, RegistryNext
  <2> QED
    BY <1>2, <2>1, <2>2, <2>3, <2>4 DEF PageStep
<1>3. CASE OtherClient
  BY <1>3 DEF OtherClient, Begin
<1>4. CASE \E r \in Requests : WorkerStep(r)
  BY <1>4 DEF WorkerStep, Open, SendBlock, EndSend
<1>5. CASE HandleCall
  BY <1>5 DEF HandleCall
<1>6. CASE ListStep
  BY <1>6 DEF ListStep, PauseTask, EnginePause, ResumeTask, DeleteTask
<1>7. CASE \E t \in TaskIds : AutoPause(t)
  BY <1>7 DEF AutoPause, EnginePause
<1>8. CASE \E p \in Paths : Edit(p)
  BY <1>8 DEF Edit
<1>9. CASE Restart
  BY <1>9 DEF Restart, RegistryNext
<1>10. CASE UNCHANGED allVars
  BY <1>10 DEF allVars
<1> QED
  BY <1>1, <1>2, <1>3, <1>4, <1>5, <1>6, <1>7, <1>8, <1>9, <1>10 DEF DownloadNext

\* Shares that were made before, with their rows.
LEMMA RegistryInvOfDownloads == DownloadInit => RegistryInv
<1> SUFFICES ASSUME DownloadInit PROVE RegistryInv
  OBVIOUS
<1>1. PICK f \in [Tokens -> Paths] : shares = [t \in Tokens |-> Shared(f[t])]
  BY DEF DownloadInit
<1>2. \A p \in Paths : /\ Shared(p) \in Info /\ Row(Shared(p)) = Shared(p)
                       /\ Shared(p).limit = 0 /\ Shared(p).count = 0
  <2> SUFFICES ASSUME NEW p \in Paths
               PROVE  /\ Shared(p) \in Info /\ Row(Shared(p)) = Shared(p)
                      /\ Shared(p).limit = 0 /\ Shared(p).count = 0
    OBVIOUS
  <2>1. Shared(p) \in Info /\ Shared(p).limit = 0 /\ Shared(p).count = 0
    BY DEF Shared, Info
  <2>2. Row(Shared(p)) = Shared(p)
    BY <2>1, RowFields DEF Down, Shared
  <2> QED
    BY <2>1, <2>2
<1>3. \A t \in Tokens : /\ shares[t] \in Info /\ rows[t] = shares[t] /\ Row(shares[t]) = shares[t]
                        /\ shares[t].limit = 0 /\ shares[t].count = 0
  BY <1>1, <1>2 DEF DownloadInit
<1>4. RegistryTypeOK
  BY <1>1, <1>2, RegistryAssumption DEF DownloadInit, RegistryTypeOK
<1>5. FreshIsUnknown
  BY RegistryAssumption DEF DownloadInit, FreshIsUnknown
<1>6. RowsFollowMemory
  BY <1>3, NoneIsNoShare DEF RowsFollowMemory
<1>7. CountIsServed
  <2> SUFFICES ASSUME NEW t \in Tokens
               PROVE  PagesCounted(t)
    BY DEF CountIsServed
  <2>1. made[t] = 0 /\ served[t] = 0 /\ shares[t].limit = 0
    BY <1>3 DEF DownloadInit
  <2>2. \A w \in Viewers : ~Counting(w, t)
    BY DEF Counting, DownloadInit
  <2>3. \A k \in Nat : Added(t, k) = {}
    BY <2>2 DEF Added
  <2>4. \A k \in Nat : Cardinality(Added(t, k)) = 0
    BY <2>3, FS_EmptySet
  <2> QED
    BY <2>1, <2>2, <2>4 DEF PagesCounted
<1>8. LimitHolds /\ OneShareOfReceived
  BY DEF LimitHolds, OneShareOfReceived, DownloadInit
<1> QED
  BY <1>4, <1>5, <1>6, <1>7, <1>8 DEF RegistryInv

\* The registry's invariant holds while downloads are served.
LEMMA RegistryHolds == DownloadSpec => []RegistryInv
<1>1. RegistryInv /\ [DownloadNext]_allVars => RegistryInv'
  BY StepOfRegistry, RegistryStepOfInv
<1> QED
  BY <1>1, RegistryInvOfDownloads, PTL DEF DownloadSpec

\* The downloads run on the registry as it is specified: each step is one of its
\* steps or none, whatever the requests, the list and the page do.
THEOREM DownloadsUseRegistry == DownloadSpec => [][RegistryNext]_regVars
<1>1. [DownloadNext]_allVars => [RegistryNext]_regVars
  BY StepOfRegistry
<1> QED
  BY <1>1, PTL DEF DownloadSpec

-----------------------------------------------------------------------------
(* Requests, calls, tasks and log *)

\* The calls that wait in the queue of the main thread.
Call ==
  [kind : {"find"}, of : Requests]
    \cup [kind : {"progress"}, of : TaskIds, sent : Nat]
    \cup [kind : {"complete", "fail"}, of : TaskIds]

Logged == [status : {"Paused", "Downloading"}, sent : Nat]

ServeTypeOK ==
  /\ file \in [Paths -> Nat]
  /\ reqs \in [Requests -> Request \cup {None}]
  /\ calls \in Seq(Call)
  /\ tasks \in [TaskIds -> Task \cup {None}]
  /\ log \in [TaskIds -> Logged \cup {None}]
  /\ ended \subseteq TaskIds /\ cut \subseteq TaskIds /\ drawn \subseteq TaskIds

\* Only tasks that are in the list have an entry that a start restores.
LoggedIsTask == \A t \in TaskIds : log[t] # None => tasks[t] # None

\* A request waits for one call that finds its task, and has one afterwards.
FindsWait ==
  /\ \A i \in DOMAIN calls : calls[i].kind = "find" =>
       /\ reqs[calls[i].of] # None
       /\ reqs[calls[i].of].phase = "asking"
  /\ \A i, j \in DOMAIN calls :
       calls[i].kind = "find" /\ calls[j].kind = "find" /\ calls[i].of = calls[j].of => i = j
  /\ \A r \in Requests : reqs[r] # None /\ reqs[r].phase # "asking" => reqs[r].task \in TaskIds

\* A request sends nothing before its file is open, and never more than its range.
SentInRange ==
  \A r \in Requests : reqs[r] # None =>
    reqs[r].sent <= IF reqs[r].phase = "sending" THEN Span(reqs[r]) ELSE 0

\* A call that completes a task comes from a request that was served.
CompletesServed ==
  \A i \in DOMAIN calls : calls[i].kind = "complete" => calls[i].of \in ended \cup cut

\* OneDownloadTask without counting.
OneTask ==
  \A t, u \in TaskIds :
    tasks[t] # None /\ tasks[u] # None /\ tasks[t].path = tasks[u].path => t = u

ServeInv ==
  /\ ServeTypeOK
  /\ LoggedIsTask
  /\ FindsWait
  /\ SentInRange
  /\ CompletesServed
  /\ CompletedIsServed
  /\ CompletedIsFull
  /\ OneTask

\* A call that is added stands behind those that wait.
LEMMA CallAdded ==
  ASSUME NEW S, NEW s \in Seq(S), NEW e \in S
  PROVE  /\ Append(s, e) \in Seq(S)
         /\ \A i \in DOMAIN Append(s, e) :
              \/ i \in DOMAIN s /\ Append(s, e)[i] = s[i]
              \/ i = Len(s) + 1 /\ i \notin DOMAIN s /\ Append(s, e)[i] = e
OBVIOUS

\* The call that is taken is the first, and the others move up.
LEMMA CallTaken ==
  ASSUME NEW S, NEW s \in Seq(S), s # <<>>
  PROVE  /\ Tail(s) \in Seq(S) /\ Head(s) \in S
         /\ 1 \in DOMAIN s /\ Head(s) = s[1]
         /\ \A i \in DOMAIN Tail(s) :
              i + 1 \in DOMAIN s /\ i + 1 # 1 /\ Tail(s)[i] = s[i + 1]
OBVIOUS

\* A request begins: it has no task yet, and one call that will find one
\* (handleFileDownload, handleFolderDownload).
LEMMA BeginStep ==
  ASSUME RegistryTypeOK, ServeInv,
         NEW r \in Requests, NEW t \in Tokens, NEW ranged \in BOOLEAN, NEW from \in Nat,
         NEW to \in Nat \cup {None}, Begin(r, t, ranged, from, to)
  PROVE  ServeInv'
<1> DEFINE p == shares[t].path
           q == [path |-> p, phase |-> "asking", ranged |-> ranged, first |-> from, to |-> to,
                 past |-> 0, size |-> file'[p], sent |-> 0, task |-> None]
           c == [kind |-> "find", of |-> r]
<1>1. ServeTypeOK /\ LoggedIsTask /\ FindsWait /\ SentInRange /\ CompletesServed
      /\ CompletedIsServed /\ CompletedIsFull /\ OneTask
  BY DEF ServeInv
<1>2. /\ reqs[r] = None
      /\ reqs' = [reqs EXCEPT ![r] = q]
      /\ calls' = Append(calls, c)
      /\ UNCHANGED <<tasks, log, ended, cut, drawn>>
  BY DEF Begin
<1>3. p \in Paths
  BY DEF Begin, IsLive, RegistryTypeOK, Info
<1>4. file' \in [Paths -> Nat]
  <2>1. CASE p \in Folders
    <3>1. PICK n \in Sizes : file' = [file EXCEPT ![p] = n]
      BY <2>1 DEF Begin
    <3> QED
      BY <1>1, <3>1, DownloadAssumption DEF ServeTypeOK
  <2>2. CASE p \notin Folders
    BY <1>1, <2>2 DEF Begin, ServeTypeOK
  <2> QED
    BY <2>1, <2>2
<1>5. /\ q \in Request /\ q # None
      /\ q.phase = "asking" /\ q.sent = 0
  <2>1. q \in Request
    BY <1>3, <1>4 DEF Request
  <2> QED
    BY <2>1, NoneIsNoRecord
<1>6. c \in Call /\ c.kind = "find" /\ c.of = r
  BY DEF Call
<1> HIDE DEF q, c, p
<1>7. /\ calls' \in Seq(Call)
      /\ \A i \in DOMAIN calls' :
           \/ i \in DOMAIN calls /\ calls'[i] = calls[i]
           \/ i = Len(calls) + 1 /\ i \notin DOMAIN calls /\ calls'[i] = c
  BY <1>1, <1>2, <1>6, CallAdded DEF ServeTypeOK
<1>8. ServeTypeOK'
  BY <1>1, <1>2, <1>4, <1>5, <1>7 DEF ServeTypeOK
<1>9. FindsWait'
  <2>1. \A i \in DOMAIN calls : calls[i].kind = "find" => calls[i].of # r
    BY <1>1, <1>2 DEF FindsWait
  <2>2. \A i \in DOMAIN calls' : calls'[i].kind = "find" =>
          reqs'[calls'[i].of] # None /\ reqs'[calls'[i].of].phase = "asking"
    BY <1>1, <1>2, <1>5, <1>6, <1>7, <2>1 DEF FindsWait, ServeTypeOK
  <2>3. \A i, j \in DOMAIN calls' :
          calls'[i].kind = "find" /\ calls'[j].kind = "find" /\ calls'[i].of = calls'[j].of => i = j
    BY <1>1, <1>6, <1>7, <2>1 DEF FindsWait
  <2>4. \A s \in Requests :
          reqs'[s] # None /\ reqs'[s].phase # "asking" => reqs'[s].task \in TaskIds
    BY <1>1, <1>2, <1>5 DEF FindsWait, ServeTypeOK
  <2> QED
    BY <2>2, <2>3, <2>4 DEF FindsWait
<1>10. SentInRange'
  BY <1>1, <1>2, <1>5 DEF SentInRange, Span, ServeTypeOK
<1>11. CompletesServed'
  BY <1>1, <1>2, <1>6, <1>7 DEF CompletesServed
<1>12. LoggedIsTask' /\ CompletedIsServed' /\ CompletedIsFull' /\ OneTask'
  BY <1>1, <1>2 DEF LoggedIsTask, CompletedIsServed, CompletedIsFull, OneTask
<1> QED
  BY <1>8, <1>9, <1>10, <1>11, <1>12 DEF ServeInv

\* The main thread finds the task of a request: the one of that name, taken up
\* again or replaced, or a new one (resumeOrCreateDownloadTask).
LEMMA TaskFound ==
  ASSUME ServeInv, NEW p \in Paths, NEW size \in Nat, NEW start \in Nat, NEW t \in TaskIds,
         ResumeOrCreate(p, size, start, t), UNCHANGED <<ended, cut>>
  PROVE  /\ tasks' \in [TaskIds -> Task \cup {None}]
         /\ log' \in [TaskIds -> Logged \cup {None}]
         /\ drawn' \subseteq TaskIds
         /\ LoggedIsTask' /\ CompletedIsServed' /\ CompletedIsFull' /\ OneTask'
<1> DEFINE task == [path |-> p, status |-> "Downloading", size |-> size, sent |-> start]
<1>1. ServeTypeOK /\ LoggedIsTask /\ CompletedIsServed /\ CompletedIsFull /\ OneTask
  BY DEF ServeInv
<1>2. task \in Task /\ task.path = p /\ task.status = "Downloading" /\ task # None
  <2>1. task \in Task
    BY DEF Task, Statuses
  <2> QED
    BY <2>1, NoneIsNoRecord
<1> HIDE DEF task
<1>3. ASSUME Named(p) = {}, drawn' = drawn \cup {t}, UNCHANGED log,
             tasks' = [u \in TaskIds |-> IF u = t THEN task ELSE IF u \in {} THEN None ELSE tasks[u]]
      PROVE  /\ tasks' \in [TaskIds -> Task \cup {None}]
             /\ log' \in [TaskIds -> Logged \cup {None}]
             /\ drawn' \subseteq TaskIds
             /\ LoggedIsTask' /\ CompletedIsServed' /\ CompletedIsFull' /\ OneTask'
  <2>1. \A u \in TaskIds : tasks'[u] = IF u = t THEN task ELSE tasks[u]
    BY <1>3
  <2>2. tasks' \in [TaskIds -> Task \cup {None}]
    BY <1>1, <1>2, <1>3 DEF ServeTypeOK
  <2>3. log' \in [TaskIds -> Logged \cup {None}] /\ drawn' \subseteq TaskIds
    BY <1>1, <1>3 DEF ServeTypeOK
  <2>4. LoggedIsTask'
    BY <1>1, <1>2, <1>3, <2>1 DEF LoggedIsTask
  <2>5. CompletedIsServed' /\ CompletedIsFull'
    <3>1. \A u \in TaskIds : tasks'[u] # None /\ tasks'[u].status = "Completed" =>
            u # t /\ tasks'[u] = tasks[u]
      BY <1>2, <2>1
    <3> QED
      BY <1>1, <3>1 DEF CompletedIsServed, CompletedIsFull
  <2>6. OneTask'
    BY <1>1, <1>2, <1>3, <2>1 DEF OneTask, Named
  <2> QED
    BY <2>2, <2>3, <2>4, <2>5, <2>6
<1>4. ASSUME NEW u \in Named(p), tasks[u].status = "Downloading", t = u, UNCHANGED <<tasks, log, drawn>>
      PROVE  /\ tasks' \in [TaskIds -> Task \cup {None}]
             /\ log' \in [TaskIds -> Logged \cup {None}]
             /\ drawn' \subseteq TaskIds
             /\ LoggedIsTask' /\ CompletedIsServed' /\ CompletedIsFull' /\ OneTask'
  BY <1>1, <1>4 DEF ServeTypeOK, LoggedIsTask, CompletedIsServed, CompletedIsFull, OneTask
<1>5. ASSUME NEW u \in Named(p), tasks[u].status \in Resumable, t = u,
             tasks' = [tasks EXCEPT ![t] = [@ EXCEPT !.status = "Downloading", !.sent = start]],
             log' = LogWithout(Named(p)), UNCHANGED drawn
      PROVE  /\ tasks' \in [TaskIds -> Task \cup {None}]
             /\ log' \in [TaskIds -> Logged \cup {None}]
             /\ drawn' \subseteq TaskIds
             /\ LoggedIsTask' /\ CompletedIsServed' /\ CompletedIsFull' /\ OneTask'
  <2> DEFINE k == [tasks[t] EXCEPT !.status = "Downloading", !.sent = start]
  <2>1. t \in TaskIds /\ tasks[t] \in Task /\ tasks[t] # None
    BY <1>1, <1>5 DEF Named, ServeTypeOK
  <2>2. k \in Task /\ k.path = tasks[t].path /\ k.status = "Downloading"
    BY <2>1 DEF Task, Statuses
  <2>3. tasks' = [tasks EXCEPT ![t] = k]
    BY <1>5
  <2> HIDE DEF k
  <2>4. tasks' \in [TaskIds -> Task \cup {None}]
    BY <1>1, <2>2, <2>3 DEF ServeTypeOK
  <2>5. log' \in [TaskIds -> Logged \cup {None}] /\ drawn' \subseteq TaskIds
    BY <1>1, <1>5 DEF ServeTypeOK, LogWithout
  <2>6. LoggedIsTask'
    BY <1>1, <1>5, <2>1, <2>2, <2>3, NoneIsNoRecord DEF LoggedIsTask, LogWithout, ServeTypeOK
  <2>7. CompletedIsServed' /\ CompletedIsFull'
    BY <1>1, <2>2, <2>3 DEF CompletedIsServed, CompletedIsFull, ServeTypeOK
  <2>8. OneTask'
    BY <1>1, <2>1, <2>2, <2>3 DEF OneTask, ServeTypeOK
  <2> QED
    BY <2>4, <2>5, <2>6, <2>7, <2>8
<1>6. ASSUME NEW u \in Named(p), tasks[u].status = "Completed", t \notin drawn, drawn' = drawn \cup {t},
             tasks' = [w \in TaskIds |-> IF w = t THEN task ELSE IF w \in {u} THEN None ELSE tasks[w]],
             log' = LogWithout(Named(p))
      PROVE  /\ tasks' \in [TaskIds -> Task \cup {None}]
             /\ log' \in [TaskIds -> Logged \cup {None}]
             /\ drawn' \subseteq TaskIds
             /\ LoggedIsTask' /\ CompletedIsServed' /\ CompletedIsFull' /\ OneTask'
  <2>1. \A w \in Named(p) : w \in {u}
    BY <1>1, <1>6 DEF OneTask, Named
  <2>2. tasks' \in [TaskIds -> Task \cup {None}]
    BY <1>1, <1>2, <1>6 DEF ServeTypeOK
  <2>3. log' \in [TaskIds -> Logged \cup {None}] /\ drawn' \subseteq TaskIds
    BY <1>1, <1>6 DEF ServeTypeOK, LogWithout
  <2>4. LoggedIsTask'
    BY <1>1, <1>2, <1>6 DEF LoggedIsTask, LogWithout
  <2>5. CompletedIsServed' /\ CompletedIsFull'
    BY <1>1, <1>2, <1>6 DEF CompletedIsServed, CompletedIsFull
  <2>6. OneTask'
    BY <1>1, <1>2, <1>6, <2>1 DEF OneTask, Named
  <2> QED
    BY <2>2, <2>3, <2>4, <2>5, <2>6
<1>7. \A u \in Named(p) : tasks[u].status \in Resumable \cup {"Downloading", "Completed"}
  BY <1>1 DEF Named, ServeTypeOK, Task, Statuses, Resumable
<1> QED
  BY <1>3, <1>4, <1>5, <1>6, <1>7 DEF ResumeOrCreate, task

\* The call that finds a task: its request can now open the file
\* (Qt::BlockingQueuedConnection).
LEMMA FindStep ==
  ASSUME ServeInv, HandleCall, Head(calls).kind = "find"
  PROVE  ServeInv'
<1> DEFINE c == Head(calls)
           q == reqs[c.of]
<1>1. ServeTypeOK /\ LoggedIsTask /\ FindsWait /\ SentInRange /\ CompletesServed
      /\ CompletedIsServed /\ CompletedIsFull /\ OneTask
  BY DEF ServeInv
<1>2. /\ calls # <<>> /\ calls' = Tail(calls)
      /\ UNCHANGED <<file, ended, cut>>
  BY DEF HandleCall
<1>3. PICK t \in TaskIds :
        /\ ResumeOrCreate(q.path, q.size, q.first, t)
        /\ reqs' = [reqs EXCEPT ![c.of] = [@ EXCEPT !.task = t, !.phase = "found"]]
  BY DEF HandleCall
<1>4. /\ calls' \in Seq(Call) /\ c \in Call
      /\ 1 \in DOMAIN calls /\ c = calls[1]
      /\ \A i \in DOMAIN calls' :
           i + 1 \in DOMAIN calls /\ i + 1 # 1 /\ calls'[i] = calls[i + 1]
  BY <1>1, <1>2, CallTaken DEF ServeTypeOK
<1>5. c.of \in Requests /\ q # None /\ q.phase = "asking" /\ q \in Request
  <2>1. c.of \in Requests
    BY <1>4 DEF Call
  <2>2. q # None /\ q.phase = "asking"
    BY <1>1, <1>4 DEF FindsWait
  <2> QED
    BY <1>1, <2>1, <2>2 DEF ServeTypeOK
<1>6. q.path \in Paths /\ q.size \in Nat /\ q.first \in Nat
  BY <1>5 DEF Request
<1>7. /\ tasks' \in [TaskIds -> Task \cup {None}]
      /\ log' \in [TaskIds -> Logged \cup {None}]
      /\ drawn' \subseteq TaskIds
      /\ LoggedIsTask' /\ CompletedIsServed' /\ CompletedIsFull' /\ OneTask'
  BY <1>2, <1>3, <1>6, TaskFound
<1> DEFINE n == [q EXCEPT !.task = t, !.phase = "found"]
<1>8. /\ n \in Request /\ n.task = t /\ n.phase = "found"
      /\ n.sent = q.sent /\ n.first = q.first /\ n.past = q.past
  BY <1>5 DEF Request
<1>9. reqs' = [reqs EXCEPT ![c.of] = n]
  BY <1>3
<1> HIDE DEF n, q, c
<1>10. ServeTypeOK'
  BY <1>1, <1>2, <1>4, <1>7, <1>8, <1>9 DEF ServeTypeOK
<1>11. FindsWait'
  <2>1. c.kind = "find"
    BY DEF c
  <2>2. \A i \in DOMAIN calls' : calls'[i].kind = "find" => calls'[i].of # c.of
    BY <1>1, <1>4, <2>1 DEF FindsWait
  <2>3. \A i \in DOMAIN calls' : calls'[i].kind = "find" =>
          reqs'[calls'[i].of] # None /\ reqs'[calls'[i].of].phase = "asking"
    BY <1>1, <1>4, <1>9, <2>2 DEF FindsWait, ServeTypeOK
  <2>4. \A i, j \in DOMAIN calls' :
          calls'[i].kind = "find" /\ calls'[j].kind = "find" /\ calls'[i].of = calls'[j].of => i = j
    <3> SUFFICES ASSUME NEW i \in DOMAIN calls', NEW j \in DOMAIN calls',
                        calls'[i].kind = "find", calls'[j].kind = "find", calls'[i].of = calls'[j].of
                 PROVE  i = j
      OBVIOUS
    <3>1. i + 1 = j + 1
      BY <1>1, <1>4 DEF FindsWait
    <3>2. i \in Nat /\ j \in Nat
      BY <1>4
    <3> QED
      BY <3>1, <3>2
  <2>5. \A s \in Requests :
          reqs'[s] # None /\ reqs'[s].phase # "asking" => reqs'[s].task \in TaskIds
    BY <1>1, <1>8, <1>9 DEF FindsWait, ServeTypeOK
  <2> QED
    BY <2>3, <2>4, <2>5 DEF FindsWait
<1>12. SentInRange'
  <2>1. q.sent <= 0
    BY <1>1, <1>5 DEF SentInRange, q
  <2>2. \A s \in Requests : reqs'[s] = IF s = c.of THEN n ELSE reqs[s]
    BY <1>1, <1>9 DEF ServeTypeOK
  <2> QED
    BY <1>1, <1>8, <2>1, <2>2 DEF SentInRange, Span
<1>13. CompletesServed'
  BY <1>1, <1>2, <1>4 DEF CompletesServed
<1> QED
  BY <1>7, <1>10, <1>11, <1>12, <1>13 DEF ServeInv

\* Progress, completion or failure of a task that may be gone
\* (updateTaskProgress, completeTask, failTask).
LEMMA ReportStep ==
  ASSUME ServeInv, HandleCall, Head(calls).kind # "find"
  PROVE  ServeInv'
<1> DEFINE c == Head(calls)
           k == tasks[c.of]
<1>1. ServeTypeOK /\ LoggedIsTask /\ FindsWait /\ SentInRange /\ CompletesServed
      /\ CompletedIsServed /\ CompletedIsFull /\ OneTask
  BY DEF ServeInv
<1>2. /\ calls # <<>> /\ calls' = Tail(calls)
      /\ tasks' = IF k = None THEN tasks
                  ELSE IF c.kind = "progress" THEN Progressed(c.of, c.sent)
                  ELSE IF c.kind = "complete" THEN Finished(c.of)
                  ELSE Failed(c.of)
      /\ UNCHANGED <<reqs, log, drawn, file, ended, cut>>
  BY DEF HandleCall
<1>3. /\ calls' \in Seq(Call) /\ c \in Call
      /\ 1 \in DOMAIN calls /\ c = calls[1]
      /\ \A i \in DOMAIN calls' :
           i + 1 \in DOMAIN calls /\ i + 1 # 1 /\ calls'[i] = calls[i + 1]
  BY <1>1, <1>2, CallTaken DEF ServeTypeOK
<1>4. /\ c.of \in TaskIds
      /\ c.kind = "progress" => c.sent \in Nat
      /\ c.kind = "complete" => c.of \in ended \cup cut
  <2>1. c.of \in TaskIds /\ (c.kind = "progress" => c.sent \in Nat)
    BY <1>3 DEF Call
  <2> QED
    BY <1>1, <1>3, <2>1 DEF CompletesServed
\* The task of the call afterwards.
<1>5. PICK n : /\ tasks' = [tasks EXCEPT ![c.of] = n]
               /\ k = None => n = None
               /\ k # None => n \in Task /\ n.path = k.path
               /\ n # None /\ n.status = "Completed" => c.of \in ended \cup cut /\ n.sent = n.size
  <2>1. CASE k = None
    <3>1. tasks' = [tasks EXCEPT ![c.of] = None]
      BY <1>1, <1>2, <1>4, <2>1 DEF ServeTypeOK
    <3> QED
      BY <2>1, <3>1
  <2>2. CASE k # None
    <3>1. k \in Task /\ k.size \in Nat
      BY <1>1, <1>4, <2>2 DEF ServeTypeOK, Task
    <3>2. k.status = "Completed" => c.of \in ended \cup cut /\ k.sent = k.size
      BY <1>1, <1>4, <2>2 DEF CompletedIsServed, CompletedIsFull
    <3>3. CASE c.kind = "progress" /\ k.status = "Downloading"
      <4>1. tasks' = [tasks EXCEPT ![c.of] = [k EXCEPT !.sent = c.sent]]
        BY <1>2, <2>2, <3>3 DEF Progressed
      <4>2. [k EXCEPT !.sent = c.sent] \in Task /\ [k EXCEPT !.sent = c.sent].path = k.path
            /\ [k EXCEPT !.sent = c.sent].status = "Downloading"
        BY <1>4, <3>1, <3>3 DEF Task
      <4> QED
        BY <2>2, <4>1, <4>2
    <3>4. CASE c.kind = "progress" /\ k.status # "Downloading"
      <4>1. tasks' = [tasks EXCEPT ![c.of] = k]
        BY <1>1, <1>2, <1>4, <2>2, <3>4 DEF Progressed, ServeTypeOK
      <4> QED
        BY <2>2, <3>1, <3>2, <4>1
    <3>5. CASE c.kind = "complete"
      <4>1. tasks' = [tasks EXCEPT ![c.of] = [k EXCEPT !.status = "Completed", !.sent = k.size]]
        BY <1>2, <2>2, <3>5 DEF Finished
      <4>2. /\ [k EXCEPT !.status = "Completed", !.sent = k.size] \in Task
            /\ [k EXCEPT !.status = "Completed", !.sent = k.size].path = k.path
            /\ [k EXCEPT !.status = "Completed", !.sent = k.size].sent = k.size
            /\ [k EXCEPT !.status = "Completed", !.sent = k.size].size = k.size
        BY <3>1 DEF Task, Statuses
      <4> QED
        BY <1>4, <2>2, <3>5, <4>1, <4>2
    <3>6. CASE c.kind \notin {"progress", "complete"}
      <4>1. tasks' = [tasks EXCEPT ![c.of] = [k EXCEPT !.status = "Failed"]]
        BY <1>2, <2>2, <3>6 DEF Failed
      <4>2. [k EXCEPT !.status = "Failed"] \in Task /\ [k EXCEPT !.status = "Failed"].path = k.path
            /\ [k EXCEPT !.status = "Failed"].status = "Failed"
        BY <3>1 DEF Task, Statuses
      <4> QED
        BY <2>2, <4>1, <4>2
    <3> QED
      BY <3>3, <3>4, <3>5, <3>6
  <2> QED
    BY <2>1, <2>2
<1>6. \A t \in TaskIds : tasks'[t] = IF t = c.of THEN n ELSE tasks[t]
  BY <1>1, <1>5 DEF ServeTypeOK
<1> HIDE DEF c
<1>7. ServeTypeOK'
  BY <1>1, <1>2, <1>3, <1>4, <1>5 DEF ServeTypeOK
<1>8. FindsWait'
  <2>1. \A i \in DOMAIN calls' : calls'[i].kind = "find" =>
          reqs'[calls'[i].of] # None /\ reqs'[calls'[i].of].phase = "asking"
    BY <1>1, <1>2, <1>3 DEF FindsWait
  <2>2. \A i, j \in DOMAIN calls' :
          calls'[i].kind = "find" /\ calls'[j].kind = "find" /\ calls'[i].of = calls'[j].of => i = j
    <3> SUFFICES ASSUME NEW i \in DOMAIN calls', NEW j \in DOMAIN calls',
                        calls'[i].kind = "find", calls'[j].kind = "find", calls'[i].of = calls'[j].of
                 PROVE  i = j
      OBVIOUS
    <3>1. i + 1 = j + 1
      BY <1>1, <1>3 DEF FindsWait
    <3>2. i \in Nat /\ j \in Nat
      BY <1>3
    <3> QED
      BY <3>1, <3>2
  <2> QED
    BY <1>1, <1>2, <2>1, <2>2 DEF FindsWait
<1>9. SentInRange'
  BY <1>1, <1>2 DEF SentInRange, Span
<1>10. CompletesServed'
  BY <1>1, <1>2, <1>3 DEF CompletesServed
<1>11. LoggedIsTask'
  BY <1>1, <1>2, <1>4, <1>5, <1>6, NoneIsNoRecord DEF LoggedIsTask
<1>12. CompletedIsServed' /\ CompletedIsFull'
  BY <1>1, <1>2, <1>5, <1>6 DEF CompletedIsServed, CompletedIsFull
<1>13. OneTask'
  BY <1>1, <1>4, <1>5, <1>6 DEF OneTask
<1> QED
  BY <1>7, <1>8, <1>9, <1>10, <1>11, <1>12, <1>13 DEF ServeInv

\* The status of a task changes to paused or running, and its log entry with it
\* (pauseTask, resumeTask, the speed check timer).
LEMMA MarkStep ==
  ASSUME ServeInv, NEW t \in TaskIds, tasks[t] # None, NEW st \in {"Paused", "Downloading"},
         tasks' = [tasks EXCEPT ![t].status = st],
         log' = [log EXCEPT ![t] = Entry(tasks'[t])],
         UNCHANGED <<file, reqs, calls, ended, cut, drawn>>
  PROVE  ServeInv'
<1> DEFINE k == [tasks[t] EXCEPT !.status = st]
<1>1. ServeTypeOK /\ LoggedIsTask /\ FindsWait /\ SentInRange /\ CompletesServed
      /\ CompletedIsServed /\ CompletedIsFull /\ OneTask
  BY DEF ServeInv
<1>2. tasks[t] \in Task
  BY <1>1 DEF ServeTypeOK
<1>3. k \in Task /\ k.path = tasks[t].path /\ k.status = st /\ k.sent \in Nat
  BY <1>2 DEF Task, Statuses
<1>4. tasks' = [tasks EXCEPT ![t] = k]
  OBVIOUS
<1> HIDE DEF k
<1>5. k # None
  BY <1>3, NoneIsNoRecord
<1>6. \A u \in TaskIds : tasks'[u] = IF u = t THEN k ELSE tasks[u]
  BY <1>1, <1>4 DEF ServeTypeOK
<1>7. Entry(tasks'[t]) \in Logged
  BY <1>3, <1>6 DEF Entry, Logged
<1>8. ServeTypeOK'
  BY <1>1, <1>3, <1>4, <1>7 DEF ServeTypeOK
<1>9. LoggedIsTask'
  BY <1>1, <1>5, <1>6 DEF LoggedIsTask, ServeTypeOK
<1>10. CompletedIsServed' /\ CompletedIsFull'
  BY <1>1, <1>3, <1>6 DEF CompletedIsServed, CompletedIsFull
<1>11. OneTask'
  BY <1>1, <1>3, <1>6 DEF OneTask
<1>12. FindsWait' /\ SentInRange' /\ CompletesServed'
  BY <1>1 DEF FindsWait, SentInRange, Span, CompletesServed
<1> QED
  BY <1>8, <1>9, <1>10, <1>11, <1>12 DEF ServeInv

\* All the tasks of the name go, with their entries (deleteTask).
LEMMA DeleteStep ==
  ASSUME ServeInv, NEW t \in TaskIds, DeleteTask(t)
  PROVE  ServeInv'
<1> DEFINE T == Named(tasks[t].path)
<1>1. ServeTypeOK /\ LoggedIsTask /\ FindsWait /\ SentInRange /\ CompletesServed
      /\ CompletedIsServed /\ CompletedIsFull /\ OneTask
  BY DEF ServeInv
<1>2. /\ tasks' = [u \in TaskIds |-> IF u \in T THEN None ELSE tasks[u]]
      /\ log' = [u \in TaskIds |-> IF u \in T THEN None ELSE log[u]]
      /\ UNCHANGED <<file, reqs, calls, ended, cut, drawn>>
  BY DEF DeleteTask, LogWithout
<1> HIDE DEF T
<1>3. ServeTypeOK'
  BY <1>1, <1>2 DEF ServeTypeOK
<1>4. LoggedIsTask' /\ CompletedIsServed' /\ CompletedIsFull' /\ OneTask'
  BY <1>1, <1>2 DEF LoggedIsTask, CompletedIsServed, CompletedIsFull, OneTask
<1>5. FindsWait' /\ SentInRange' /\ CompletesServed'
  BY <1>1, <1>2 DEF FindsWait, SentInRange, Span, CompletesServed
<1> QED
  BY <1>3, <1>4, <1>5 DEF ServeInv

\* A request reports to its task and is over, or has sent a block and goes on.
LEMMA WorkerReports ==
  ASSUME ServeInv, NEW r \in Requests, reqs[r] # None, reqs[r].phase # "asking",
         NEW c \in Call, c.kind # "find", NEW new \in Request \cup {None},
         new # None => /\ new.phase = "sending" /\ new.task = reqs[r].task
                       /\ new.sent <= Span(new),
         reqs' = [reqs EXCEPT ![r] = new], calls' = Append(calls, c),
         ended \subseteq ended', cut \subseteq cut', ended' \subseteq TaskIds, cut' \subseteq TaskIds,
         c.kind = "complete" => c.of \in ended' \cup cut',
         UNCHANGED <<file, tasks, log, drawn>>
  PROVE  ServeInv'
<1>1. ServeTypeOK /\ LoggedIsTask /\ FindsWait /\ SentInRange /\ CompletesServed
      /\ CompletedIsServed /\ CompletedIsFull /\ OneTask
  BY DEF ServeInv
<1>2. /\ calls' \in Seq(Call)
      /\ \A i \in DOMAIN calls' :
           \/ i \in DOMAIN calls /\ calls'[i] = calls[i]
           \/ i = Len(calls) + 1 /\ i \notin DOMAIN calls /\ calls'[i] = c
  BY <1>1, CallAdded DEF ServeTypeOK
<1>3. \A s \in Requests : reqs'[s] = IF s = r THEN new ELSE reqs[s]
  BY <1>1 DEF ServeTypeOK
<1>4. ServeTypeOK'
  BY <1>1, <1>2 DEF ServeTypeOK
<1>5. FindsWait'
  <2>1. \A i \in DOMAIN calls : calls[i].kind = "find" => calls[i].of # r /\ calls[i].of \in Requests
    <3> SUFFICES ASSUME NEW i \in DOMAIN calls, calls[i].kind = "find"
                 PROVE  calls[i].of # r /\ calls[i].of \in Requests
      OBVIOUS
    <3>1. calls[i] \in Call
      BY <1>1 DEF ServeTypeOK
    <3> QED
      BY <1>1, <3>1 DEF FindsWait, Call
  <2>2. \A i \in DOMAIN calls' : calls'[i].kind = "find" =>
          reqs'[calls'[i].of] # None /\ reqs'[calls'[i].of].phase = "asking"
    BY <1>1, <1>2, <1>3, <2>1 DEF FindsWait
  <2>3. \A i, j \in DOMAIN calls' :
          calls'[i].kind = "find" /\ calls'[j].kind = "find" /\ calls'[i].of = calls'[j].of => i = j
    BY <1>1, <1>2 DEF FindsWait
  <2>4. \A s \in Requests :
          reqs'[s] # None /\ reqs'[s].phase # "asking" => reqs'[s].task \in TaskIds
    BY <1>1, <1>3 DEF FindsWait
  <2> QED
    BY <2>2, <2>3, <2>4 DEF FindsWait
<1>6. SentInRange'
  BY <1>1, <1>3 DEF SentInRange, Span
<1>7. CompletesServed'
  BY <1>1, <1>2 DEF CompletesServed
<1>8. LoggedIsTask' /\ CompletedIsServed' /\ CompletedIsFull' /\ OneTask'
  BY <1>1 DEF LoggedIsTask, CompletedIsServed, CompletedIsFull, OneTask
<1> QED
  BY <1>4, <1>5, <1>6, <1>7, <1>8 DEF ServeInv

\* The file is opened, or cannot be (sendStreamingFileResponse).
LEMMA OpenFileStep ==
  ASSUME ServeInv, NEW r \in Requests, Open(r)
  PROVE  ServeInv'
<1> DEFINE q == reqs[r]
           n == [q EXCEPT !.phase = "sending", !.past = Past(q, file[q.path])]
<1>1. ServeTypeOK /\ LoggedIsTask /\ FindsWait /\ SentInRange /\ CompletesServed
      /\ CompletedIsServed /\ CompletedIsFull /\ OneTask
  BY DEF ServeInv
<1>2. q # None /\ q.phase = "found" /\ q \in Request /\ q.task \in TaskIds
  BY <1>1 DEF Open, ServeTypeOK, FindsWait
<1>3. UNCHANGED <<file, tasks, log, ended, cut, drawn>>
  BY DEF Open
<1>4. CASE Ended(r, "fail")
  <2>1. [kind |-> "fail", of |-> q.task] \in Call
    BY <1>2 DEF Call
  <2>2. reqs' = [reqs EXCEPT ![r] = None] /\ calls' = Append(calls, [kind |-> "fail", of |-> q.task])
    BY <1>4 DEF Ended
  <2> QED
    BY <1>1, <1>2, <1>3, <2>1, <2>2, WorkerReports DEF ServeTypeOK
<1>5. CASE reqs' = [reqs EXCEPT ![r] = [@ EXCEPT !.phase = "sending", !.past = Past(q, file[q.path])]]
           /\ UNCHANGED calls
  <2>1. Past(q, file[q.path]) \in Nat
    BY <1>1, <1>2, RegistryAssumption DEF Past, ServeTypeOK, Request
  <2>2. n \in Request /\ n.phase = "sending" /\ n.task = q.task /\ n.sent = q.sent
        /\ n.first = q.first /\ n.past \in Nat
    BY <1>2, <2>1 DEF Request
  <2>3. reqs' = [reqs EXCEPT ![r] = n] /\ UNCHANGED calls
    BY <1>5
  <2>4. q.sent <= 0 /\ q.sent \in Nat /\ q.first \in Nat
    BY <1>1, <1>2 DEF SentInRange, Request
  <2> HIDE DEF n
  <2>5. \A s \in Requests : reqs'[s] = IF s = r THEN n ELSE reqs[s]
    BY <1>1, <2>3 DEF ServeTypeOK
  <2>6. n.sent <= Span(n)
    BY <2>2, <2>4 DEF Span
  <2>7. ServeTypeOK'
    BY <1>1, <1>3, <2>2, <2>3 DEF ServeTypeOK
  <2>8. FindsWait'
    BY <1>1, <1>2, <2>2, <2>3, <2>5 DEF FindsWait, ServeTypeOK
  <2>9. SentInRange'
    BY <1>1, <2>2, <2>5, <2>6 DEF SentInRange, Span
  <2>10. LoggedIsTask' /\ CompletesServed' /\ CompletedIsServed' /\ CompletedIsFull' /\ OneTask'
    BY <1>1, <1>3, <2>3 DEF LoggedIsTask, CompletesServed, CompletedIsServed, CompletedIsFull, OneTask
  <2> QED
    BY <2>7, <2>8, <2>9, <2>10 DEF ServeInv
<1> QED
  BY <1>4, <1>5 DEF Open

\* A block is sent, within the range (the callback of sendStreamingFileResponse).
LEMMA BlockStep ==
  ASSUME ServeInv, NEW r \in Requests, SendBlock(r)
  PROVE  ServeInv'
<1> DEFINE q == reqs[r]
           n == [q EXCEPT !.sent = q.sent + 1]
           c == [kind |-> "progress", of |-> q.task, sent |-> q.first + q.sent + 1]
<1>1. ServeTypeOK /\ FindsWait
  BY DEF ServeInv
<1>2. q # None /\ q.phase = "sending" /\ q \in Request /\ q.task \in TaskIds
  BY <1>1 DEF SendBlock, ServeTypeOK, FindsWait
<1>3. q.sent \in Nat /\ q.first \in Nat /\ q.past \in Nat
  BY <1>2 DEF Request
<1>4. /\ n \in Request /\ n.phase = "sending" /\ n.task = q.task /\ n.sent = q.sent + 1
      /\ n.first = q.first /\ n.past = q.past
  BY <1>2, <1>3 DEF Request
<1>5. n.sent <= Span(n)
  BY <1>3, <1>4 DEF SendBlock, HasMore, Span
<1>6. c \in Call /\ c.kind = "progress"
  BY <1>2, <1>3 DEF Call
<1>7. /\ reqs' = [reqs EXCEPT ![r] = n]
      /\ calls' = Append(calls, c)
      /\ UNCHANGED <<file, tasks, log, ended, cut, drawn>>
  BY DEF SendBlock
<1> HIDE DEF n, c
<1> QED
  BY <1>1, <1>2, <1>4, <1>5, <1>6, <1>7, WorkerReports DEF ServeTypeOK

\* The end of a request: it completes its task only if it came to the end of the
\* file, or the end of its range was before it (handleFileDownload).
LEMMA EndStep ==
  ASSUME ServeInv, NEW r \in Requests, NEW broken \in BOOLEAN, EndSend(r, broken)
  PROVE  ServeInv'
<1> DEFINE q == reqs[r]
           c == [kind |-> Result(q, broken), of |-> q.task]
<1>1. ServeTypeOK /\ FindsWait /\ SentInRange
  BY DEF ServeInv
<1>2. q # None /\ q.phase = "sending" /\ q \in Request /\ q.task \in TaskIds
  BY <1>1 DEF EndSend, ServeTypeOK, FindsWait
<1>3. /\ q.sent \in Nat /\ q.first \in Nat /\ q.past \in Nat /\ file[q.path] \in Nat
      /\ q.sent <= Span(q)
  BY <1>1, <1>2 DEF Request, ServeTypeOK, SentInRange
<1>4. /\ reqs' = [reqs EXCEPT ![r] = None]
      /\ calls' = Append(calls, c)
      /\ ended' = IF ~broken /\ q.first + q.sent >= file[q.path] THEN ended \cup {q.task} ELSE ended
      /\ cut' = IF q.past < file[q.path] THEN cut \cup {q.task} ELSE cut
      /\ broken = HasMore(q)
      /\ UNCHANGED <<file, tasks, log, drawn>>
  BY DEF EndSend, Ended
<1>5. c \in Call /\ c.kind # "find" /\ c.of = q.task
  BY <1>2 DEF Call, Result
<1>6. c.kind = "complete" => q.task \in ended' \cup cut'
  <2> SUFFICES ASSUME c.kind = "complete", ~(q.past < file[q.path])
               PROVE  q.task \in ended'
    BY <1>4
  <2>1. ~broken /\ q.sent > 0
    BY DEF Result, Complete
  <2>2. q.sent >= Span(q) \/ q.first + q.sent >= file[q.path]
    <3>1. ~HasMore(q)
      BY <1>4, <2>1
    <3>2. Span(q) \in Nat
      BY <1>3 DEF Span
    <3> QED
      BY <1>3, <3>1, <3>2 DEF HasMore
  <2>3. q.first + q.sent >= file[q.path]
    BY <1>3, <2>1, <2>2 DEF Span
  <2> QED
    BY <1>4, <2>1, <2>3
<1>7. ended \subseteq ended' /\ cut \subseteq cut' /\ ended' \subseteq TaskIds /\ cut' \subseteq TaskIds
  BY <1>1, <1>2, <1>4 DEF ServeTypeOK
<1> HIDE DEF c
<1> QED
  BY <1>2, <1>4, <1>5, <1>6, <1>7, WorkerReports

\* A file changes its size.
LEMMA EditStep ==
  ASSUME ServeInv, NEW p \in Paths, Edit(p)
  PROVE  ServeInv'
<1>1. ServeTypeOK /\ LoggedIsTask /\ FindsWait /\ SentInRange /\ CompletesServed
      /\ CompletedIsServed /\ CompletedIsFull /\ OneTask
  BY DEF ServeInv
<1>2. PICK n \in Sizes : file' = [file EXCEPT ![p] = n]
  BY DEF Edit
<1>3. UNCHANGED <<reqs, calls, tasks, log, ended, cut, drawn>>
  BY DEF Edit
<1>4. ServeTypeOK'
  BY <1>1, <1>2, <1>3, DownloadAssumption DEF ServeTypeOK
<1>5. FindsWait' /\ SentInRange' /\ CompletesServed'
  BY <1>1, <1>3 DEF FindsWait, SentInRange, Span, CompletesServed
<1>6. LoggedIsTask' /\ CompletedIsServed' /\ CompletedIsFull' /\ OneTask'
  BY <1>1, <1>3 DEF LoggedIsTask, CompletedIsServed, CompletedIsFull, OneTask
<1> QED
  BY <1>4, <1>5, <1>6 DEF ServeInv

\* Nothing is being served after a start, and the tasks are those of the log:
\* none of them is completed (stopAllTasks, initialize).
LEMMA StartStep ==
  ASSUME ServeInv, Restart
  PROVE  ServeInv'
<1>1. ServeTypeOK /\ LoggedIsTask /\ OneTask
  BY DEF ServeInv
<1>2. /\ log' = [t \in TaskIds |->
            IF tasks[t] # None /\ tasks[t].status \in {"Paused", "Downloading"}
            THEN Entry(tasks[t]) ELSE log[t]]
      /\ tasks' = [t \in TaskIds |->
            IF log'[t] = None THEN None
            ELSE [tasks[t] EXCEPT !.status = log'[t].status, !.sent = log'[t].sent]]
      /\ reqs' = [r \in Requests |-> None]
      /\ calls' = <<>>
      /\ UNCHANGED <<file, ended, cut, drawn>>
  BY DEF Restart
<1>3. ASSUME NEW t \in TaskIds
      PROVE  /\ log'[t] \in Logged \cup {None}
             /\ log'[t] # None => tasks[t] # None /\ tasks[t] \in Task
  <2>1. CASE tasks[t] # None /\ tasks[t].status \in {"Paused", "Downloading"}
    <3>1. tasks[t] \in Task /\ log'[t] = Entry(tasks[t])
      BY <1>1, <1>2, <2>1 DEF ServeTypeOK
    <3> QED
      BY <2>1, <3>1 DEF Entry, Logged, Task
  <2>2. CASE ~(tasks[t] # None /\ tasks[t].status \in {"Paused", "Downloading"})
    <3>1. log'[t] = log[t]
      BY <1>2, <2>2
    <3> QED
      BY <1>1, <3>1 DEF ServeTypeOK, LoggedIsTask
  <2> QED
    BY <2>1, <2>2
<1>4. ASSUME NEW t \in TaskIds
      PROVE  /\ log'[t] = None => tasks'[t] = None
             /\ log'[t] # None =>
                  /\ tasks'[t] \in Task /\ tasks'[t].path = tasks[t].path
                  /\ tasks'[t].status \in {"Paused", "Downloading"}
  <2>1. CASE log'[t] = None
    BY <1>2, <2>1
  <2>2. CASE log'[t] # None
    <3> DEFINE st == log'[t].status
               n == log'[t].sent
    <3>1. tasks[t] \in Task /\ st \in {"Paused", "Downloading"} /\ n \in Nat
      BY <1>3, <2>2 DEF Logged
    <3>2. tasks'[t] = [tasks[t] EXCEPT !.status = st, !.sent = n]
      BY <1>2, <2>2
    <3> HIDE DEF st, n
    <3>3. /\ [tasks[t] EXCEPT !.status = st, !.sent = n] \in Task
          /\ [tasks[t] EXCEPT !.status = st, !.sent = n].path = tasks[t].path
          /\ [tasks[t] EXCEPT !.status = st, !.sent = n].status = st
      BY <3>1 DEF Task, Statuses
    <3> QED
      BY <2>2, <3>1, <3>2, <3>3
  <2> QED
    BY <2>1, <2>2
<1>5. ServeTypeOK'
  <2>1. tasks' \in [TaskIds -> Task \cup {None}]
    <3>1. \A t \in TaskIds : tasks'[t] \in Task \cup {None}
      BY <1>4
    <3> QED
      BY <1>2, <3>1
  <2>2. log' \in [TaskIds -> Logged \cup {None}]
    <3>1. \A t \in TaskIds : log'[t] \in Logged \cup {None}
      BY <1>3
    <3> QED
      BY <1>2, <3>1
  <2>3. reqs' \in [Requests -> Request \cup {None}]
    BY <1>2
  <2>4. calls' \in Seq(Call)
    <3>1. calls' = <<>>
      BY <1>2
    <3> QED
      BY <3>1
  <2> QED
    BY <1>1, <1>2, <2>1, <2>2, <2>3, <2>4 DEF ServeTypeOK
<1>6. LoggedIsTask'
  BY <1>4, NoneIsNoRecord DEF LoggedIsTask
<1>7. FindsWait' /\ SentInRange' /\ CompletesServed'
  <2>1. \A r \in Requests : reqs'[r] = None
    BY <1>2
  <2>2. calls' = <<>>
    BY <1>2
  <2>3. DOMAIN calls' = {}
    BY <2>2
  <2> QED
    BY <2>1, <2>3 DEF FindsWait, SentInRange, CompletesServed
<1>8. CompletedIsServed' /\ CompletedIsFull'
  BY <1>4 DEF CompletedIsServed, CompletedIsFull
<1>9. OneTask'
  BY <1>1, <1>3, <1>4 DEF OneTask
<1> QED
  BY <1>5, <1>6, <1>7, <1>8, <1>9 DEF ServeInv

\* The page, and what the user does with shares, touch nothing of this but for
\* the request that a page begins.
LEMMA ServeUnchanged ==
  ASSUME ServeInv, UNCHANGED serveVars
  PROVE  ServeInv'
BY DEF serveVars, ServeInv, ServeTypeOK, LoggedIsTask, FindsWait, SentInRange, Span, CompletesServed,
  CompletedIsServed, CompletedIsFull, OneTask

\* Every step keeps what is said of requests, calls, tasks and log.
LEMMA ServeStep ==
  ASSUME RegistryTypeOK, ServeInv, [DownloadNext]_allVars
  PROVE  ServeInv'
<1>1. CASE RegistryStep
  BY <1>1, ServeUnchanged DEF RegistryStep
<1>2. CASE PageStep
  <2>1. ASSUME NEW t \in Tokens, AskSize(t)
        PROVE  ServeInv'
    BY <2>1, ServeUnchanged DEF AskSize
  <2>2. ASSUME NEW t \in Tokens, Resume(t)
        PROVE  ServeInv'
    <3>1. CASE UNCHANGED serveVars
      BY <3>1, ServeUnchanged
    <3>2. CASE \E r \in Requests : Begin(r, t, FALSE, 0, None)
      BY <3>2, BeginStep
    <3> QED
      BY <2>2, <3>1, <3>2 DEF Resume
  <2>3. ASSUME NEW r \in Requests, ReadBlock(r) \/ EndRead(r) \/ LoseStream(r) \/ CancelDownload(r)
        PROVE  ServeInv'
    BY <2>3, ServeUnchanged DEF ReadBlock, EndRead, LoseStream, CancelDownload
  <2>4. ASSUME NEW v \in Viewers, NEW ok \in BOOLEAN, ShowPage(v, ok)
        PROVE  ServeInv'
    BY <2>4, ServeUnchanged DEF ShowPage
  <2> QED
    BY <1>2, <2>1, <2>2, <2>3, <2>4 DEF PageStep
<1>3. CASE OtherClient
  <2>1. PICK r \in Requests, t \in Tokens :
          \/ Begin(r, t, FALSE, 0, None)
          \/ \E range \in Ranges : Begin(r, t, TRUE, range[1], range[2])
    BY <1>3 DEF OtherClient
  <2>2. ASSUME NEW range \in Ranges, Begin(r, t, TRUE, range[1], range[2])
        PROVE  ServeInv'
    <3>1. range[1] \in Nat /\ range[2] \in Nat \cup {None}
      BY DownloadAssumption
    <3> QED
      BY <2>2, <3>1, BeginStep
  <2> QED
    BY <2>1, <2>2, BeginStep
<1>4. CASE \E r \in Requests : WorkerStep(r)
  BY <1>4, OpenFileStep, BlockStep, EndStep DEF WorkerStep
<1>5. CASE HandleCall
  BY <1>5, FindStep, ReportStep
<1>6. ASSUME NEW t \in TaskIds, PauseTask(t) \/ AutoPause(t) \/ ResumeTask(t)
      PROVE  ServeInv'
  BY <1>6, MarkStep DEF PauseTask, AutoPause, EnginePause, ResumeTask
<1>7. CASE ListStep
  BY <1>6, <1>7, DeleteStep DEF ListStep
<1>8. CASE \E t \in TaskIds : AutoPause(t)
  BY <1>6, <1>8
<1>9. CASE \E p \in Paths : Edit(p)
  BY <1>9, EditStep
<1>10. CASE Restart
  BY <1>10, StartStep
<1>11. CASE UNCHANGED allVars
  BY <1>11, ServeUnchanged DEF allVars
<1> QED
  BY <1>1, <1>2, <1>3, <1>4, <1>5, <1>7, <1>8, <1>9, <1>10, <1>11 DEF DownloadNext

\* Nothing is served and there is no task at the beginning.
LEMMA ServeInit == DownloadInit => ServeInv
<1> SUFFICES ASSUME DownloadInit PROVE ServeInv
  OBVIOUS
<1>1. /\ file \in [Paths -> Sizes]
      /\ reqs = [r \in Requests |-> None]
      /\ calls = <<>>
      /\ tasks = [t \in TaskIds |-> None]
      /\ log = [t \in TaskIds |-> None]
      /\ ended = {} /\ cut = {} /\ drawn = {}
  BY DEF DownloadInit
<1>2. calls \in Seq(Call) /\ DOMAIN calls = {}
  <2>1. calls = <<>>
    BY <1>1
  <2> QED
    BY <2>1
<1>3. file \in [Paths -> Nat]
  BY <1>1, DownloadAssumption
<1>4. ServeTypeOK
  BY <1>1, <1>2, <1>3 DEF ServeTypeOK
<1>5. FindsWait /\ SentInRange /\ CompletesServed
  BY <1>1, <1>2 DEF FindsWait, SentInRange, CompletesServed
<1>6. LoggedIsTask /\ CompletedIsServed /\ CompletedIsFull /\ OneTask
  BY <1>1 DEF LoggedIsTask, CompletedIsServed, CompletedIsFull, OneTask
<1> QED
  BY <1>4, <1>5, <1>6 DEF ServeInv

\* What is said of requests, calls, tasks and log holds in every state.
LEMMA ServeHolds == DownloadSpec => []ServeInv
<1>1. RegistryInv /\ ServeInv /\ [DownloadNext]_allVars => ServeInv'
  BY ServeStep DEF RegistryInv
<1> QED
  BY <1>1, ServeInit, RegistryHolds, PTL DEF DownloadSpec

\* A completed task was served to the end of its file, or to an end of its range
\* that lay before it, in spite of calls that are late.
THEOREM CompletedWereServed == DownloadSpec => []CompletedIsServed
BY ServeHolds, PTL DEF ServeInv

\* Late reports of progress do not take a completed task back.
THEOREM CompletedStaysFull == DownloadSpec => []CompletedIsFull
BY ServeHolds, PTL DEF ServeInv

\* However many requests for a file come, in whatever order the main thread, the
\* buttons, the timer and starts deal with them, the list has one task for it.
THEOREM OneTaskOfFile == DownloadSpec => []OneDownloadTask
<1>1. ServeInv => OneDownloadTask
  <2> SUFFICES ASSUME ServeInv, NEW p \in Paths PROVE Cardinality(Named(p)) <= 1
    BY DEF OneDownloadTask
  <2>1. \A t, u \in Named(p) : t = u
    BY DEF ServeInv, OneTask, Named
  <2>2. CASE Named(p) = {}
    BY <2>2, FS_EmptySet
  <2>3. CASE Named(p) # {}
    <3>1. PICK t \in Named(p) : Named(p) = {t}
      BY <2>1, <2>3
    <3>2. Cardinality({t}) = 1
      BY FS_Singleton
    <3> QED
      BY <3>1, <3>2
  <2> QED
    BY <2>2, <2>3
<1> QED
  BY <1>1, ServeHolds, PTL

-----------------------------------------------------------------------------
(* Ranges *)

\* The blocks of a range are those from its first to its end.
LEMMA RangeIsInterval ==
  ASSUME NEW q \in Request, NEW size \in Nat
  PROVE  Cardinality(RangeOf(q, size)) =
           IF Past(q, size) > q.first THEN Past(q, size) - q.first ELSE 0
<1> DEFINE past == Past(q, size)
<1>1. q.first \in Nat /\ q.to \in Nat \cup {None} /\ None \notin Nat
  BY RegistryAssumption DEF Request
<1>2. past \in Nat
  BY <1>1 DEF Past
<1>3. RangeOf(q, size) = q.first..(past - 1)
  BY <1>1 DEF RangeOf, Past
<1>4. Cardinality(q.first..(past - 1)) = IF q.first > past - 1 THEN 0 ELSE past - 1 - q.first + 1
  <2>1. q.first \in Int /\ past - 1 \in Int
    BY <1>1, <1>2
  <2> QED
    BY <2>1, FS_Interval
<1> HIDE DEF past
<1>5. (IF q.first > past - 1 THEN 0 ELSE past - 1 - q.first + 1) =
        IF past > q.first THEN past - q.first ELSE 0
  BY <1>1, <1>2
<1>6. Cardinality(RangeOf(q, size)) = IF past > q.first THEN past - q.first ELSE 0
  BY <1>3, <1>4, <1>5
<1> QED
  BY <1>6 DEF past

\* Only the opening of its file makes a request send.
LEMMA OnlyOpenSends ==
  ASSUME ServeTypeOK, FindsWait, [DownloadNext]_allVars, NEW r \in Requests,
         reqs[r] # None, reqs[r].phase = "found", reqs'[r] # None, reqs'[r].phase = "sending"
  PROVE  /\ reqs[r] \in Request
         /\ reqs' = [reqs EXCEPT ![r] = [@ EXCEPT !.phase = "sending",
                                                  !.past = Past(reqs[r], file[reqs[r].path])]]
<1>1. reqs[r] \in Request /\ reqs'[r] # reqs[r]
  BY DEF ServeTypeOK
<1>2. ASSUME NEW s \in Requests, NEW x, reqs' = [reqs EXCEPT ![s] = x]
      PROVE  r = s /\ reqs'[r] = x
  BY <1>1, <1>2 DEF ServeTypeOK
<1>3. ASSUME NEW s \in Requests, NEW t, NEW ranged, NEW from, NEW to, Begin(s, t, ranged, from, to)
      PROVE  FALSE
  BY <1>2, <1>3 DEF Begin
<1>4. CASE UNCHANGED serveVars
  BY <1>1, <1>4 DEF serveVars
<1>5. CASE RegistryStep
  BY <1>4, <1>5 DEF RegistryStep
<1>6. CASE PageStep
  <2>1. ASSUME NEW t \in Tokens, AskSize(t) \/ Resume(t)
        PROVE  FALSE
    BY <1>1, <1>3, <2>1 DEF AskSize, Resume, serveVars
  <2>2. ASSUME NEW s \in Requests, ReadBlock(s) \/ EndRead(s) \/ LoseStream(s) \/ CancelDownload(s)
        PROVE  FALSE
    BY <1>1, <2>2 DEF ReadBlock, EndRead, LoseStream, CancelDownload, serveVars
  <2>3. ASSUME NEW v \in Viewers, NEW ok \in BOOLEAN, ShowPage(v, ok)
        PROVE  FALSE
    BY <1>1, <2>3 DEF ShowPage, serveVars
  <2> QED
    BY <1>6, <2>1, <2>2, <2>3 DEF PageStep
<1>7. CASE OtherClient
  BY <1>3, <1>7 DEF OtherClient
<1>8. CASE HandleCall
  <2>1. CASE Head(calls).kind = "find"
    <3> DEFINE s == Head(calls).of
    <3>1. PICK t \in TaskIds : reqs' = [reqs EXCEPT ![s] = [@ EXCEPT !.task = t, !.phase = "found"]]
      BY <1>8, <2>1 DEF HandleCall
    <3>2. s \in Requests /\ reqs[s].phase = "asking"
      <4>1. Head(calls) \in Call /\ 1 \in DOMAIN calls /\ Head(calls) = calls[1]
        BY <1>8, CallTaken DEF HandleCall, ServeTypeOK
      <4> QED
        BY <2>1, <4>1 DEF FindsWait, Call
    <3> HIDE DEF s
    <3>3. r = s
      BY <1>2, <3>1, <3>2
    <3> QED
      BY <3>2, <3>3
  <2>2. CASE Head(calls).kind # "find"
    BY <1>1, <1>8, <2>2 DEF HandleCall
  <2> QED
    BY <2>1, <2>2
<1>9. CASE \E s \in Requests : WorkerStep(s)
  <2> PICK s \in Requests : WorkerStep(s)
    BY <1>9
  <2>1. CASE Open(s)
    <3>1. reqs' # [reqs EXCEPT ![s] = None]
      BY <1>2
    <3>2. reqs' = [reqs EXCEPT ![s] = [@ EXCEPT !.phase = "sending",
                                               !.past = Past(reqs[s], file[reqs[s].path])]]
      BY <2>1, <3>1 DEF Open, Ended
    <3>3. r = s
      BY <1>2, <3>2
    <3> QED
      BY <1>1, <3>2, <3>3
  <2>2. CASE SendBlock(s) \/ \E broken \in BOOLEAN : EndSend(s, broken)
    <3>1. reqs[s].phase = "sending" /\ \E x : reqs' = [reqs EXCEPT ![s] = x]
      BY <2>2 DEF SendBlock, EndSend, Ended
    <3>2. r = s
      BY <1>2, <3>1
    <3> QED
      BY <3>1, <3>2
  <2> QED
    BY <2>1, <2>2 DEF WorkerStep
<1>10. CASE ListStep \/ \E t \in TaskIds : AutoPause(t)
  BY <1>1, <1>10 DEF ListStep, PauseTask, AutoPause, EnginePause, ResumeTask, DeleteTask
<1>11. CASE \E p \in Paths : Edit(p)
  BY <1>1, <1>11 DEF Edit
<1>12. CASE Restart
  BY <1>12 DEF Restart
<1>13. CASE UNCHANGED allVars
  BY <1>4, <1>13 DEF allVars
<1> QED
  BY <1>5, <1>6, <1>7, <1>8, <1>9, <1>10, <1>11, <1>12, <1>13 DEF DownloadNext

\* A request is sent as many blocks as its range has of the file that is opened.
THEOREM AnswersAreRanges == DownloadSpec => AnswerIsRange
<1>1. ServeInv /\ [DownloadNext]_allVars =>
        [\A r \in Requests :
           /\ reqs[r] # None /\ reqs[r].phase = "found"
           /\ reqs'[r] # None /\ reqs'[r].phase = "sending"
           => Span(reqs'[r]) = Cardinality(RangeOf(reqs[r], file[reqs[r].path]))]_allVars
  <2> SUFFICES ASSUME ServeInv, [DownloadNext]_allVars, NEW r \in Requests,
                      reqs[r] # None, reqs[r].phase = "found",
                      reqs'[r] # None, reqs'[r].phase = "sending"
               PROVE  Span(reqs'[r]) = Cardinality(RangeOf(reqs[r], file[reqs[r].path]))
    OBVIOUS
  <2> DEFINE q == reqs[r]
             past == Past(q, file[q.path])
             n == [q EXCEPT !.phase = "sending", !.past = past]
  <2>1. ServeTypeOK /\ FindsWait
    BY DEF ServeInv
  <2>2. q \in Request /\ reqs' = [reqs EXCEPT ![r] = n]
    BY <2>1, OnlyOpenSends
  <2>3. reqs'[r] = n
    BY <2>1, <2>2 DEF ServeTypeOK
  <2>4. file[q.path] \in Nat
    BY <2>1, <2>2 DEF ServeTypeOK, Request
  <2>5. Cardinality(RangeOf(q, file[q.path])) = IF past > q.first THEN past - q.first ELSE 0
    BY <2>2, <2>4, RangeIsInterval
  <2>6. n.past = past /\ n.first = q.first
    BY <2>2 DEF Request
  <2> HIDE DEF n, past
  <2> QED
    BY <2>3, <2>5, <2>6 DEF Span
<1> QED
  BY <1>1, ServeHolds, PTL DEF DownloadSpec, AnswerIsRange

-----------------------------------------------------------------------------
(* The page *)

Stream == [blocks : Seq(Nat), end : {"open", "whole", "broken"}]

Page == [shown : BOOLEAN, asked : Nat, chunks : Seq(Nat), size : Nat,
         cancelled : BOOLEAN, error : BOOLEAN]

PageTypeOK ==
  /\ stream \in [Requests -> Stream \cup {None}]
  /\ page \in Page
  /\ saved \in [chunks : Seq(Nat), size : Nat]

\* A page that asks for a size, gives up an answer, gets a part or saves is a page.
LEMMA PageUpdates ==
  ASSUME NEW k \in Page
  PROVE  /\ \A a, n \in Nat : [k EXCEPT !.asked = a, !.cancelled = FALSE, !.size = n] \in Page
         /\ \A a \in Nat, b \in BOOLEAN : [k EXCEPT !.asked = a, !.error = b] \in Page
         /\ \A s \in Seq(Nat) : [k EXCEPT !.chunks = s] \in Page
         /\ [k EXCEPT !.shown = TRUE] \in Page
<1>1. \A a, n \in Nat : [k EXCEPT !.asked = a, !.cancelled = FALSE, !.size = n] \in Page
  BY DEF Page
<1>2. \A a \in Nat, b \in BOOLEAN : [k EXCEPT !.asked = a, !.error = b] \in Page
  BY DEF Page
<1>3. \A s \in Seq(Nat) : [k EXCEPT !.chunks = s] \in Page
  BY DEF Page
<1>4. [k EXCEPT !.shown = TRUE] \in Page
  BY DEF Page
<1> QED
  BY <1>1, <1>2, <1>3, <1>4

\* What a worker does to the page: something is added to the answer of its
\* request, or the answer ends (sendStreamingFileResponse).
LEMMA WorkerStreams ==
  ASSUME ServeTypeOK, PageTypeOK, NEW r \in Requests, WorkerStep(r)
  PROVE  /\ stream' \in [Requests -> Stream \cup {None}]
         /\ UNCHANGED <<page, saved>>
<1>1. /\ reqs[r] # None => reqs[r] \in Request
      /\ stream[r] # None => stream[r] \in Stream
  BY DEF ServeTypeOK, PageTypeOK
<1>2. CASE Open(r)
  <2>1. \/ UNCHANGED stream
        \/ stream' = [stream EXCEPT ![r] = IF @ = None THEN None ELSE [@ EXCEPT !.end = "broken"]]
    BY <1>2 DEF Open
  <2>2. stream[r] # None => [stream[r] EXCEPT !.end = "broken"] \in Stream
    BY <1>1 DEF Stream
  <2> QED
    BY <1>2, <2>1, <2>2 DEF PageTypeOK, Open
<1>3. CASE SendBlock(r)
  <2> DEFINE b == reqs[r].first + reqs[r].sent
  <2>1. stream' = [stream EXCEPT ![r] =
                       IF @ = None THEN None
                       ELSE [@ EXCEPT !.blocks = Append(stream[r].blocks, b)]]
    BY <1>3 DEF SendBlock
  <2>2. b \in Nat
    BY <1>1, <1>3 DEF SendBlock, Request
  <2> HIDE DEF b
  <2>3. stream[r] # None => [stream[r] EXCEPT !.blocks = Append(stream[r].blocks, b)] \in Stream
    <3>1. stream[r] # None => Append(stream[r].blocks, b) \in Seq(Nat)
      BY <1>1, <2>2 DEF Stream
    <3> QED
      BY <1>1, <3>1 DEF Stream
  <2>4. stream' \in [Requests -> Stream \cup {None}]
    BY <2>1, <2>3 DEF PageTypeOK
  <2>5. UNCHANGED <<page, saved>>
    BY <1>3 DEF SendBlock
  <2> QED
    BY <2>4, <2>5
<1>4. ASSUME NEW broken \in BOOLEAN, EndSend(r, broken)
      PROVE  /\ stream' \in [Requests -> Stream \cup {None}]
             /\ UNCHANGED <<page, saved>>
  <2> DEFINE e == IF ~broken /\ reqs[r].sent = Span(reqs[r]) THEN "whole" ELSE "broken"
  <2>1. stream' = [stream EXCEPT ![r] = IF @ = None THEN None ELSE [@ EXCEPT !.end = e]]
    BY <1>4 DEF EndSend
  <2>2. e \in {"whole", "broken"}
    OBVIOUS
  <2> HIDE DEF e
  <2>3. stream[r] # None => [stream[r] EXCEPT !.end = e] \in Stream
    BY <1>1, <2>2 DEF Stream
  <2> QED
    BY <1>4, <2>1, <2>3 DEF PageTypeOK, EndSend
<1> QED
  BY <1>2, <1>3, <1>4 DEF WorkerStep

\* Every step keeps the types of what the page has and gets.
LEMMA PageTypeStep ==
  ASSUME RegistryTypeOK, ServeTypeOK, PageTypeOK, [DownloadNext]_allVars
  PROVE  PageTypeOK'
<1>0. UNCHANGED pageVars => PageTypeOK'
  BY DEF pageVars, PageTypeOK
<1>1. CASE RegistryStep \/ OtherClient
  BY <1>0, <1>1 DEF RegistryStep, OtherClient
<1>2. CASE PageStep
  <2>1. ASSUME NEW t \in Tokens, AskSize(t)
        PROVE  PageTypeOK'
    <3>1. file[shares[t].path] \in Nat
      BY <2>1 DEF AskSize, IsLive, RegistryTypeOK, ServeTypeOK, Info
    <3>2. page' \in Page
      <4>1. page \in Page /\ page.asked + 1 \in Nat
        BY DEF PageTypeOK, Page
      <4>2. page' = [page EXCEPT !.asked = page.asked + 1, !.cancelled = FALSE,
                                 !.size = file[shares[t].path]]
        BY <2>1 DEF AskSize
      <4> QED
        BY <3>1, <4>1, <4>2, PageUpdates
    <3> QED
      BY <2>1, <3>2 DEF AskSize, PageTypeOK
  <2>2. ASSUME NEW t \in Tokens, Resume(t)
        PROVE  PageTypeOK'
    <3>1. /\ page.asked > 0
          /\ page' = [page EXCEPT !.asked = @ - 1, !.error = Throws]
          /\ UNCHANGED saved
      BY <2>2 DEF Resume
    <3>2. page' \in Page
      <4>1. page \in Page /\ page.asked - 1 \in Nat
        BY <3>1 DEF PageTypeOK, Page
      <4>2. Throws \in BOOLEAN
        BY DEF Throws
      <4> QED
        BY <3>1, <4>1, <4>2, PageUpdates
    <3>3. [blocks |-> <<>>, end |-> "open"] \in Stream
      BY DEF Stream
    <3>4. stream' \in [Requests -> Stream \cup {None}]
      <4>1. \/ UNCHANGED stream
            \/ \E r \in Requests : stream' = [stream EXCEPT ![r] = [blocks |-> <<>>, end |-> "open"]]
        BY <2>2 DEF Resume
      <4> QED
        BY <3>3, <4>1 DEF PageTypeOK
    <3> QED
      BY <3>1, <3>2, <3>4 DEF PageTypeOK
  <2>3. ASSUME NEW r \in Requests, ReadBlock(r)
        PROVE  PageTypeOK'
    <3>1. stream[r] \in Stream /\ stream[r].blocks # <<>> /\ UNCHANGED saved
      BY <2>3 DEF ReadBlock, PageTypeOK
    <3>2. /\ Head(stream[r].blocks) \in Nat
          /\ Tail(stream[r].blocks) \in Seq(Nat)
      BY <3>1 DEF Stream
    <3>3. [stream[r] EXCEPT !.blocks = Tail(@)] \in Stream
      BY <3>1, <3>2 DEF Stream
    <3>4. stream' \in [Requests -> Stream \cup {None}]
      BY <2>3, <3>3 DEF ReadBlock, PageTypeOK
    <3>5. Append(page.chunks, Head(stream[r].blocks)) \in Seq(Nat)
      BY <3>2 DEF PageTypeOK, Page
    <3>6. page' \in Page
      BY <2>3, <3>5 DEF ReadBlock, PageTypeOK, Page
    <3> QED
      BY <3>1, <3>4, <3>6 DEF PageTypeOK
  <2>4. ASSUME NEW r \in Requests, EndRead(r)
        PROVE  PageTypeOK'
    <3>1. stream' \in [Requests -> Stream \cup {None}]
      BY <2>4 DEF EndRead, PageTypeOK
    <3>2. CASE UNCHANGED <<page, saved>>
      BY <3>1, <3>2 DEF PageTypeOK
    <3>3. CASE Save
      <4>1. page' \in Page
        <5>1. <<>> \in Seq(Nat)
          OBVIOUS
        <5> QED
          BY <3>3, <5>1, PageUpdates DEF Save, PageTypeOK
      <4>2. saved' \in [chunks : Seq(Nat), size : Nat]
        BY <3>3 DEF Save, PageTypeOK, Page
      <4> QED
        BY <3>1, <4>1, <4>2 DEF PageTypeOK
    <3> QED
      BY <2>4, <3>2, <3>3 DEF EndRead
  <2>5. ASSUME NEW r \in Requests, LoseStream(r) \/ CancelDownload(r)
        PROVE  PageTypeOK'
    <3>1. page' \in Page
      BY <2>5 DEF LoseStream, CancelDownload, PageTypeOK, Page
    <3> QED
      BY <2>5, <3>1 DEF LoseStream, CancelDownload, PageTypeOK
  <2>6. ASSUME NEW v \in Viewers, NEW ok \in BOOLEAN, ShowPage(v, ok)
        PROVE  PageTypeOK'
    <3>1. NewPage \in Page
      BY DEF NewPage, Page
    <3>2. page' \in Page
      BY <2>6, <3>1, PageUpdates DEF ShowPage
    <3> QED
      BY <2>6, <3>2 DEF ShowPage, PageTypeOK
  <2> QED
    BY <1>2, <2>1, <2>2, <2>3, <2>4, <2>5, <2>6 DEF PageStep
<1>3. CASE \E r \in Requests : WorkerStep(r)
  BY <1>3, WorkerStreams DEF PageTypeOK
<1>4. CASE HandleCall
  BY <1>0, <1>4 DEF HandleCall
<1>5. CASE ListStep
  BY <1>0, <1>5 DEF ListStep, PauseTask, EnginePause, ResumeTask, DeleteTask
<1>6. CASE \E t \in TaskIds : AutoPause(t)
  BY <1>0, <1>6 DEF AutoPause, EnginePause
<1>7. CASE \E p \in Paths : Edit(p)
  BY <1>0, <1>7 DEF Edit
<1>8. CASE Restart
  <2>1. /\ stream' = [r \in Requests |->
             IF stream[r] = None THEN None ELSE [stream[r] EXCEPT !.end = "broken"]]
        /\ UNCHANGED <<page, saved>>
    BY <1>8 DEF Restart
  <2>2. \A r \in Requests : stream[r] # None => [stream[r] EXCEPT !.end = "broken"] \in Stream
    BY DEF PageTypeOK, Stream
  <2> QED
    BY <2>1, <2>2 DEF PageTypeOK
<1>9. CASE UNCHANGED allVars
  BY <1>0, <1>9 DEF allVars
<1> QED
  BY <1>1, <1>2, <1>3, <1>4, <1>5, <1>6, <1>7, <1>8, <1>9 DEF DownloadNext

\* The page is not shown yet at the beginning.
LEMMA PageTypeInit == DownloadInit => PageTypeOK
<1> SUFFICES ASSUME DownloadInit PROVE PageTypeOK
  OBVIOUS
<1>1. page \in Page
  BY DEF DownloadInit, NewPage, Page
<1>2. saved \in [chunks : Seq(Nat), size : Nat]
  BY DEF DownloadInit
<1>3. stream \in [Requests -> Stream \cup {None}]
  BY DEF DownloadInit
<1> QED
  BY <1>1, <1>2, <1>3 DEF PageTypeOK

\* Everything has its type, and the log speaks of tasks that exist: requests,
\* buttons, changes of files and starts in any order cannot leave a request
\* without its task, a restored task without its data, or a page without a list.
THEOREM DownloadsAreTyped == DownloadSpec => []DownloadTypeOK
<1>1. RegistryInv /\ ServeInv /\ PageTypeOK /\ [DownloadNext]_allVars => PageTypeOK'
  BY PageTypeStep DEF RegistryInv, ServeInv
<1>2. RegistryInv /\ ServeInv /\ PageTypeOK => DownloadTypeOK
  BY DEF RegistryInv, ServeInv, ServeTypeOK, LoggedIsTask, Logged, PageTypeOK, Stream,
    Page, DownloadTypeOK
<1> QED
  BY <1>1, <1>2, PageTypeInit, RegistryHolds, ServeHolds, PTL DEF DownloadSpec

\* One answer at a time is read by a page whose user is patient,
OneReader == \A r, u \in Requests : stream[r] # None /\ stream[u] # None => r = u

\* none while it is asked how long the file is;
AskedAlone ==
  /\ page.asked <= 1
  /\ page.asked > 0 => \A r \in Requests : stream[r] = None

\* it has the first blocks of the file,
ChunksInOrder == \A i \in DOMAIN page.chunks : page.chunks[i] = i - 1

\* its answer brings the next ones, and its request, while there is one, will
\* send those that follow.
StreamFollows ==
  \A r \in Requests : stream[r] # None =>
    /\ \A i \in DOMAIN stream[r].blocks : stream[r].blocks[i] = Len(page.chunks) + i - 1
    /\ reqs[r] # None =>
         reqs[r].first = 0 /\ reqs[r].sent = Len(page.chunks) + Len(stream[r].blocks)

PageInv ==
  /\ OneReader
  /\ AskedAlone
  /\ ChunksInOrder
  /\ StreamFollows
  /\ SavedIsWhole

\* An answer that ends or grows keeps the rest.
LEMMA StreamUpdates ==
  ASSUME NEW x \in Stream
  PROVE  /\ \A e \in {"open", "whole", "broken"} : [x EXCEPT !.end = e].blocks = x.blocks
         /\ \A s \in Seq(Nat) : [x EXCEPT !.blocks = s].blocks = s
BY DEF Stream

\* What the page has says nothing of requests that it does not read.
LEMMA OtherRequest ==
  ASSUME PageInv, NEW r \in Requests, stream[r] = None, UNCHANGED pageVars,
         \A u \in Requests \ {r} : reqs'[u] = reqs[u]
  PROVE  PageInv'
BY DEF PageInv, OneReader, AskedAlone, ChunksInOrder, StreamFollows, SavedIsWhole, pageVars

\* A page keeps what it has in order when the answer that it reads has been
\* given another end, and the request is over.
LEMMA EndingAnswer ==
  ASSUME PageTypeOK, PageInv, NEW r \in Requests, NEW e \in {"open", "whole", "broken"},
         stream' = [stream EXCEPT ![r] = IF @ = None THEN None ELSE [@ EXCEPT !.end = e]],
         reqs'[r] = None, \A u \in Requests \ {r} : reqs'[u] = reqs[u],
         UNCHANGED <<page, saved>>
  PROVE  PageInv'
<1>1. \A u \in Requests : stream'[u] # None =>
        stream[u] # None /\ stream'[u].blocks = stream[u].blocks
  <2> SUFFICES ASSUME NEW u \in Requests, stream'[u] # None
               PROVE  stream[u] # None /\ stream'[u].blocks = stream[u].blocks
    OBVIOUS
  <2>1. CASE u = r
    <3>1. stream[r] # None /\ stream[r] \in Stream /\ stream'[r] = [stream[r] EXCEPT !.end = e]
      BY <2>1 DEF PageTypeOK
    <3> QED
      BY <2>1, <3>1, StreamUpdates
  <2>2. CASE u # r
    BY <2>2 DEF PageTypeOK
  <2> QED
    BY <2>1, <2>2
<1>2. OneReader' /\ AskedAlone'
  <2>1. \A u \in Requests : stream[u] = None => stream'[u] = None
    BY <1>1
  <2> QED
    BY <2>1 DEF PageInv, OneReader, AskedAlone
<1>3. ChunksInOrder' /\ SavedIsWhole'
  BY DEF PageInv, ChunksInOrder, SavedIsWhole
<1>4. StreamFollows'
  <2> SUFFICES ASSUME NEW u \in Requests, stream'[u] # None
               PROVE  /\ \A i \in DOMAIN stream'[u].blocks :
                           stream'[u].blocks[i] = Len(page.chunks) + i - 1
                      /\ reqs'[u] # None =>
                           /\ reqs'[u].first = 0
                           /\ reqs'[u].sent = Len(page.chunks) + Len(stream'[u].blocks)
    BY DEF StreamFollows
  <2>1. stream[u] # None /\ stream'[u].blocks = stream[u].blocks
    BY <1>1
  <2>2. reqs'[u] # None => reqs'[u] = reqs[u]
    OBVIOUS
  <2> QED
    BY <2>1, <2>2 DEF PageInv, StreamFollows
<1> QED
  BY <1>2, <1>3, <1>4 DEF PageInv

\* The worker sends the block that the page wants next (sendStreamingFileResponse).
LEMMA SendsNext ==
  ASSUME ServeTypeOK, PageTypeOK, PageInv, NEW r \in Requests, WorkerStep(r)
  PROVE  PageInv'
<1>1. reqs \in [Requests -> Request \cup {None}] /\ stream \in [Requests -> Stream \cup {None}]
  BY DEF ServeTypeOK, PageTypeOK
<1>2. CASE Open(r)
  <2>1. CASE UNCHANGED stream
    <3>1. \E past : reqs' = [reqs EXCEPT ![r] = [@ EXCEPT !.phase = "sending", !.past = past]]
                    \/ reqs' = [reqs EXCEPT ![r] = None]
      BY <1>2 DEF Open, Ended
    <3>2. /\ \A u \in Requests \ {r} : reqs'[u] = reqs[u]
          /\ reqs'[r] # None => /\ reqs[r] # None
                                /\ reqs'[r].first = reqs[r].first /\ reqs'[r].sent = reqs[r].sent
      <4>1. reqs[r] # None /\ reqs[r] \in Request
        BY <1>1, <1>2 DEF Open
      <4> QED
        BY <1>1, <3>1, <4>1 DEF Request
    <3>3. UNCHANGED <<page, saved>>
      BY <1>2 DEF Open
    <3> QED
      BY <2>1, <3>2, <3>3
        DEF PageInv, OneReader, AskedAlone, ChunksInOrder, StreamFollows, SavedIsWhole
  <2>2. CASE ~UNCHANGED stream
    <3>1. /\ stream' = [stream EXCEPT ![r] = IF @ = None THEN None ELSE [@ EXCEPT !.end = "broken"]]
          /\ reqs' = [reqs EXCEPT ![r] = None]
          /\ UNCHANGED <<page, saved>>
      BY <1>2, <2>2 DEF Open, Ended
    <3> QED
      BY <1>1, <3>1, EndingAnswer
  <2> QED
    BY <2>1, <2>2
<1>3. CASE SendBlock(r)
  <2> DEFINE q == reqs[r]
             b == q.first + q.sent
  <2>1. /\ q \in Request
        /\ reqs' = [reqs EXCEPT ![r] = [q EXCEPT !.sent = q.sent + 1]]
        /\ stream' = [stream EXCEPT ![r] =
             IF @ = None THEN None ELSE [@ EXCEPT !.blocks = Append(stream[r].blocks, b)]]
        /\ UNCHANGED <<page, saved>>
    BY <1>1, <1>3 DEF SendBlock
  <2>2. /\ b \in Nat
        /\ reqs'[r].first = q.first /\ reqs'[r].sent = q.sent + 1
        /\ \A u \in Requests \ {r} : reqs'[u] = reqs[u] /\ stream'[u] = stream[u]
    BY <1>1, <2>1 DEF Request
  <2> HIDE DEF b
  <2>3. stream'[r] # None =>
          /\ stream[r] # None /\ stream[r].blocks \in Seq(Nat)
          /\ stream'[r].blocks = Append(stream[r].blocks, b)
    <3> SUFFICES ASSUME stream'[r] # None
                 PROVE  /\ stream[r] # None /\ stream[r].blocks \in Seq(Nat)
                        /\ stream'[r].blocks = Append(stream[r].blocks, b)
      OBVIOUS
    <3>1. /\ stream[r] # None
          /\ stream'[r] = [stream[r] EXCEPT !.blocks = Append(stream[r].blocks, b)]
      BY <1>1, <2>1
    <3>2. stream[r] \in Stream /\ stream[r].blocks \in Seq(Nat)
      BY <1>1, <3>1 DEF Stream
    <3> QED
      BY <2>2, <3>1, <3>2, StreamUpdates
  <2>4. OneReader' /\ AskedAlone'
    <3>1. \A u \in Requests : stream[u] = None => stream'[u] = None
      BY <2>2, <2>3
    <3> QED
      BY <2>1, <3>1 DEF PageInv, OneReader, AskedAlone
  <2>5. ChunksInOrder' /\ SavedIsWhole'
    BY <2>1 DEF PageInv, ChunksInOrder, SavedIsWhole
  <2>6. StreamFollows'
    <3> SUFFICES ASSUME NEW u \in Requests, stream'[u] # None
                 PROVE  /\ \A i \in DOMAIN stream'[u].blocks :
                             stream'[u].blocks[i] = Len(page.chunks) + i - 1
                        /\ reqs'[u] # None =>
                             /\ reqs'[u].first = 0
                             /\ reqs'[u].sent = Len(page.chunks) + Len(stream'[u].blocks)
      BY <2>1 DEF StreamFollows
    <3>1. CASE u # r
      BY <2>2, <3>1 DEF PageInv, StreamFollows
    <3>2. CASE u = r
      <4> DEFINE s == stream[r].blocks
                 n == Len(page.chunks)
      <4>1. /\ s \in Seq(Nat) /\ stream'[r].blocks = Append(s, b)
            /\ \A i \in DOMAIN s : s[i] = n + i - 1
            /\ q.first = 0 /\ q.sent = n + Len(s)
        BY <1>3, <2>3, <3>2 DEF PageInv, StreamFollows, SendBlock
      <4>2. b = n + Len(s) /\ n \in Nat
        BY <4>1 DEF b, PageTypeOK, Page
      <4> HIDE DEF s, n, q
      <4>3. /\ Len(Append(s, b)) = Len(s) + 1 /\ Len(s) \in Nat
            /\ \A i \in DOMAIN Append(s, b) : Append(s, b)[i] = n + i - 1
        BY <2>2, <4>1, <4>2
      <4>4. /\ \A i \in DOMAIN stream'[r].blocks : stream'[r].blocks[i] = n + i - 1
            /\ reqs'[r].first = 0 /\ reqs'[r].sent = n + Len(stream'[r].blocks)
        BY <2>2, <4>1, <4>2, <4>3
      <4> QED
        BY <3>2, <4>4 DEF n
    <3> QED
      BY <3>1, <3>2
  <2> QED
    BY <2>4, <2>5, <2>6 DEF PageInv
<1>4. ASSUME NEW broken \in BOOLEAN, EndSend(r, broken)
      PROVE  PageInv'
  <2> DEFINE e == IF ~broken /\ reqs[r].sent = Span(reqs[r]) THEN "whole" ELSE "broken"
  <2>1. /\ stream' = [stream EXCEPT ![r] = IF @ = None THEN None ELSE [@ EXCEPT !.end = e]]
        /\ reqs' = [reqs EXCEPT ![r] = None]
        /\ UNCHANGED <<page, saved>>
    BY <1>4 DEF EndSend, Ended
  <2>2. e \in {"open", "whole", "broken"}
    OBVIOUS
  <2> HIDE DEF e
  <2> QED
    BY <1>1, <2>1, <2>2, EndingAnswer
<1> QED
  BY <1>2, <1>3, <1>4 DEF WorkerStep

\* A page that reads nothing can ask for a size, or forget what it had.
LEMMA NothingRead ==
  ASSUME PageInv, \A r \in Requests : stream'[r] = None,
         page'.asked = 0 \/ page'.asked = 1, page'.chunks = page.chunks \/ page'.chunks = <<>>,
         UNCHANGED saved
  PROVE  PageInv'
<1>1. AskedAlone'
  BY DEF AskedAlone
<1>2. OneReader' /\ StreamFollows'
  BY DEF OneReader, StreamFollows
<1>3. ChunksInOrder'
  <2>1. CASE page'.chunks = page.chunks
    BY <2>1 DEF PageInv, ChunksInOrder
  <2>2. CASE page'.chunks = <<>>
    <3>1. DOMAIN page'.chunks = {}
      BY <2>2
    <3> QED
      BY <3>1 DEF ChunksInOrder
  <2> QED
    BY <2>1, <2>2
<1>4. SavedIsWhole'
  BY DEF PageInv, SavedIsWhole
<1> QED
  BY <1>1, <1>2, <1>3, <1>4 DEF PageInv

\* What happens to the page keeps its blocks in order: it reads one block after
\* the other, saves them, and starts with none when it asks (receive page of a
\* share, startDownload to saveFile).
LEMMA PageReads ==
  ASSUME ~Impatient, PageTypeOK, PageInv, PageStep
  PROVE  PageInv'
<1> USE DEF PageInv
<1>1. ASSUME NEW t \in Tokens, AskSize(t)
      PROVE  PageInv'
  <2>1. page.asked = 0 /\ \A r \in Requests : stream[r] = None
    BY <1>1 DEF AskSize, Running
  <2>2. page'.asked = 1 /\ page'.chunks = page.chunks
    <3>1. page \in Page /\ page' = [page EXCEPT !.asked = @ + 1, !.cancelled = FALSE,
                                                !.size = file[shares[t].path]]
      BY <1>1 DEF AskSize, PageTypeOK
    <3> QED
      BY <2>1, <3>1 DEF Page
  <2>3. UNCHANGED <<stream, saved>>
    BY <1>1 DEF AskSize
  <2> QED
    BY <2>1, <2>2, <2>3, NothingRead
<1>2. ASSUME NEW t \in Tokens, Resume(t)
      PROVE  PageInv'
  <2>1. /\ page.asked = 1 /\ \A r \in Requests : stream[r] = None
        /\ UNCHANGED saved
    BY <1>2 DEF Resume, AskedAlone, PageTypeOK, Page
  <2>2. page'.asked = 0 /\ page'.chunks = page.chunks
    <3>1. page \in Page /\ page' = [page EXCEPT !.asked = @ - 1, !.error = Throws]
      BY <1>2 DEF Resume, PageTypeOK
    <3> QED
      BY <2>1, <3>1 DEF Page
  <2>3. CASE UNCHANGED stream
    BY <2>1, <2>2, <2>3, NothingRead
  <2>4. CASE ~UNCHANGED stream
    <3>1. PICK r \in Requests :
            /\ page.chunks = <<>>
            /\ Begin(r, t, FALSE, 0, None)
            /\ stream' = [stream EXCEPT ![r] = [blocks |-> <<>>, end |-> "open"]]
      BY <1>2, <2>4 DEF Resume, Throws
    <3>2. /\ \A u \in Requests : stream'[u] # None => u = r
          /\ stream'[r].blocks = <<>>
      BY <2>1, <3>1 DEF PageTypeOK
    <3>3. OneReader' /\ AskedAlone' /\ ChunksInOrder' /\ SavedIsWhole'
      BY <2>1, <2>2, <3>2 DEF OneReader, AskedAlone, ChunksInOrder, SavedIsWhole
    <3>4. reqs'[r] # None => reqs'[r].first = 0 /\ reqs'[r].sent = 0
      BY <3>1 DEF Begin
    <3>5. Len(page'.chunks) = 0 /\ Len(stream'[r].blocks) = 0 /\ DOMAIN stream'[r].blocks = {}
      BY <2>2, <3>1, <3>2
    <3>6. StreamFollows'
      BY <3>2, <3>4, <3>5 DEF StreamFollows
    <3> QED
      BY <3>3, <3>6
  <2> QED
    BY <2>3, <2>4
<1>3. ASSUME NEW r \in Requests, ReadBlock(r)
      PROVE  PageInv'
  <2>1. /\ stream[r] # None /\ stream[r] \in Stream
        /\ stream[r].blocks # <<>> /\ stream[r].blocks \in Seq(Nat)
        /\ \A u \in Requests \ {r} : stream[u] = None
        /\ UNCHANGED <<reqs, saved>>
    BY <1>3 DEF ReadBlock, OneReader, PageTypeOK, Stream, serveVars
  <2>2. CASE page.cancelled
    <3>1. UNCHANGED page /\ \A u \in Requests : stream'[u] = None
      BY <1>3, <2>1, <2>2 DEF ReadBlock, PageTypeOK
    <3> QED
      BY <2>1, <3>1 DEF OneReader, AskedAlone, ChunksInOrder, StreamFollows, SavedIsWhole
  <2>3. CASE ~page.cancelled
    <3> DEFINE s == stream[r].blocks
               c == page.chunks
    <3>1. /\ page'.chunks = Append(c, Head(s)) /\ page'.asked = page.asked
          /\ c \in Seq(Nat)
      BY <1>3, <2>3 DEF ReadBlock, PageTypeOK, Page
    <3>2. /\ stream'[r].blocks = Tail(s)
          /\ \A u \in Requests : stream'[u] # None => u = r
      BY <1>3, <2>1, <2>3 DEF ReadBlock, PageTypeOK, Stream
    <3>3. /\ \A i \in DOMAIN c : c[i] = i - 1
          /\ \A i \in DOMAIN s : s[i] = Len(c) + i - 1
          /\ reqs[r] # None => reqs[r].first = 0 /\ reqs[r].sent = Len(c) + Len(s)
          /\ s \in Seq(Nat) /\ s # <<>>
      BY <2>1 DEF ChunksInOrder, StreamFollows
    <3> HIDE DEF s, c
    <3>4. Head(s) = Len(c) /\ Head(s) \in Nat
      BY <3>1, <3>3
    <3>5. /\ Len(Append(c, Head(s))) = Len(c) + 1 /\ Len(Tail(s)) = Len(s) - 1
          /\ Len(c) \in Nat /\ Len(s) \in Nat
          /\ \A i \in DOMAIN Append(c, Head(s)) : Append(c, Head(s))[i] = i - 1
      BY <3>1, <3>3, <3>4
    <3>6. \A i \in DOMAIN Tail(s) : Tail(s)[i] = Len(c) + 1 + i - 1
      <4>1. \A i \in DOMAIN Tail(s) : i \in Nat /\ i + 1 \in DOMAIN s /\ Tail(s)[i] = s[i + 1]
        BY <3>3
      <4> QED
        BY <3>3, <3>5, <4>1
    <3>7. OneReader' /\ AskedAlone'
      BY <2>1, <3>1, <3>2 DEF OneReader, AskedAlone
    <3>8. ChunksInOrder' /\ SavedIsWhole'
      BY <2>1, <3>1, <3>5 DEF ChunksInOrder, SavedIsWhole
    <3>9. StreamFollows'
      <4>1. \A i \in DOMAIN stream'[r].blocks :
              stream'[r].blocks[i] = Len(page'.chunks) + i - 1
        BY <3>1, <3>2, <3>5, <3>6
      <4>2. reqs'[r] # None =>
              reqs'[r].first = 0 /\ reqs'[r].sent = Len(page'.chunks) + Len(stream'[r].blocks)
        BY <2>1, <3>1, <3>2, <3>3, <3>5
      <4> QED
        BY <3>2, <4>1, <4>2 DEF StreamFollows
    <3> QED
      BY <3>7, <3>8, <3>9
  <2> QED
    BY <2>2, <2>3
<1>4. ASSUME NEW r \in Requests, EndRead(r) \/ LoseStream(r) \/ CancelDownload(r)
      PROVE  PageInv'
  <2>1. \A u \in Requests : stream'[u] = None
    BY <1>4 DEF EndRead, LoseStream, CancelDownload, OneReader, PageTypeOK
  <2>2. page \in Page
    BY DEF PageTypeOK
  <2>3. CASE UNCHANGED saved /\ (UNCHANGED page \/ page' = [page EXCEPT !.cancelled = TRUE])
    <3>1. page'.chunks = page.chunks /\ page'.asked = page.asked
      BY <2>2, <2>3 DEF Page
    <3> QED
      BY <2>1, <2>3, <3>1 DEF OneReader, AskedAlone, ChunksInOrder, StreamFollows, SavedIsWhole
  <2>4. CASE Save /\ IsWhole
    <3>1. page'.chunks = <<>> /\ page'.asked = page.asked
      BY <2>2, <2>4 DEF Save, Page
    <3>2. saved'.chunks = page.chunks /\ saved'.size = page.size
      BY <2>4 DEF Save
    <3>3. SavedIsWhole'
      BY <2>4, <3>2 DEF IsWhole, ChunksInOrder, SavedIsWhole
    <3>4. DOMAIN page'.chunks = {}
      BY <3>1
    <3> QED
      BY <2>1, <3>1, <3>3, <3>4 DEF OneReader, AskedAlone, ChunksInOrder, StreamFollows
  <2> QED
    BY <1>4, <2>3, <2>4 DEF EndRead, LoseStream, CancelDownload
<1>5. ASSUME NEW v \in Viewers, NEW ok \in BOOLEAN, ShowPage(v, ok)
      PROVE  PageInv'
  <2>1. page' = [NewPage EXCEPT !.shown = TRUE] /\ UNCHANGED saved
        /\ \A r \in Requests : stream'[r] = None
    BY <1>5 DEF ShowPage
  <2>2. page'.asked = 0 /\ page'.chunks = <<>>
    BY <2>1 DEF NewPage
  <2> QED
    BY <2>1, <2>2, NothingRead
<1> QED
  BY <1>1, <1>2, <1>3, <1>4, <1>5 DEF PageStep

\* Every step keeps the page's blocks in order.
LEMMA PageInvStep ==
  ASSUME ~Impatient, ServeInv, PageTypeOK, PageInv, [DownloadNext]_allVars
  PROVE  PageInv'
<1>0. reqs \in [Requests -> Request \cup {None}] /\ stream \in [Requests -> Stream \cup {None}]
  BY DEF ServeInv, ServeTypeOK, PageTypeOK
<1>1. ASSUME UNCHANGED <<reqs, pageVars>>
      PROVE  PageInv'
  BY <1>1 DEF pageVars, PageInv, OneReader, AskedAlone, ChunksInOrder, StreamFollows, SavedIsWhole
<1>2. CASE RegistryStep
  BY <1>1, <1>2 DEF RegistryStep, serveVars
<1>3. CASE PageStep
  BY <1>3, PageReads
<1>4. CASE OtherClient
  <2>1. PICK r \in Requests : \E t, ranged, from, to : Begin(r, t, ranged, from, to)
    BY <1>4 DEF OtherClient
  <2>2. stream[r] = None /\ \A u \in Requests \ {r} : reqs'[u] = reqs[u]
    BY <1>0, <2>1 DEF Begin
  <2>3. UNCHANGED pageVars
    BY <1>4 DEF OtherClient
  <2> QED
    BY <2>2, <2>3, OtherRequest
<1>5. CASE \E r \in Requests : WorkerStep(r)
  BY <1>5, SendsNext DEF ServeInv
<1>6. CASE HandleCall
  <2>1. CASE UNCHANGED reqs
    BY <1>1, <1>6, <2>1 DEF HandleCall
  <2>2. CASE ~UNCHANGED reqs
    <3> DEFINE r == Head(calls).of
    <3>1. PICK t \in TaskIds : reqs' = [reqs EXCEPT ![r] = [@ EXCEPT !.task = t, !.phase = "found"]]
      BY <1>6, <2>2 DEF HandleCall
    <3>2. r \in Requests /\ reqs[r] # None
      <4>1. calls # <<>> /\ Head(calls).kind = "find"
        BY <1>6, <2>2 DEF HandleCall
      <4>2. Head(calls) \in Call /\ 1 \in DOMAIN calls /\ Head(calls) = calls[1]
        BY <4>1, CallTaken DEF ServeInv, ServeTypeOK
      <4> QED
        BY <4>1, <4>2 DEF ServeInv, FindsWait, Call
    <3> HIDE DEF r
    <3>3. /\ reqs'[r].first = reqs[r].first /\ reqs'[r].sent = reqs[r].sent
          /\ \A u \in Requests \ {r} : reqs'[u] = reqs[u]
      BY <1>0, <3>1, <3>2 DEF Request
    <3>4. UNCHANGED pageVars
      BY <1>6 DEF HandleCall
    <3> QED
      BY <3>2, <3>3, <3>4
        DEF pageVars, PageInv, OneReader, AskedAlone, ChunksInOrder, StreamFollows, SavedIsWhole
  <2> QED
    BY <2>1, <2>2
<1>7. CASE ListStep \/ \E t \in TaskIds : AutoPause(t)
  BY <1>1, <1>7 DEF ListStep, PauseTask, AutoPause, EnginePause, ResumeTask, DeleteTask
<1>8. CASE \E p \in Paths : Edit(p)
  BY <1>1, <1>8 DEF Edit
<1>9. CASE Restart
  <2>1. /\ stream' = [r \in Requests |->
             IF stream[r] = None THEN None ELSE [stream[r] EXCEPT !.end = "broken"]]
        /\ \A r \in Requests : reqs'[r] = None
        /\ UNCHANGED <<page, saved>>
    BY <1>9 DEF Restart
  <2>2. \A r \in Requests : stream'[r] # None =>
          stream[r] # None /\ stream'[r].blocks = stream[r].blocks
    BY <1>0, <2>1, StreamUpdates
  <2>3. OneReader' /\ AskedAlone' /\ ChunksInOrder' /\ SavedIsWhole'
    BY <2>1, <2>2 DEF PageInv, OneReader, AskedAlone, ChunksInOrder, SavedIsWhole
  <2>4. StreamFollows'
    <3> SUFFICES ASSUME NEW r \in Requests, stream'[r] # None
                 PROVE  /\ \A i \in DOMAIN stream'[r].blocks :
                             stream'[r].blocks[i] = Len(page.chunks) + i - 1
                        /\ reqs'[r] = None
      BY <2>1 DEF StreamFollows
    <3>1. stream[r] # None /\ stream'[r].blocks = stream[r].blocks
      BY <2>2
    <3>2. \A i \in DOMAIN stream[r].blocks : stream[r].blocks[i] = Len(page.chunks) + i - 1
      BY <3>1 DEF PageInv, StreamFollows
    <3> QED
      BY <2>1, <3>1, <3>2
  <2> QED
    BY <2>3, <2>4 DEF PageInv
<1>10. CASE UNCHANGED allVars
  BY <1>1, <1>10 DEF allVars, serveVars
<1> QED
  BY <1>2, <1>3, <1>4, <1>5, <1>6, <1>7, <1>8, <1>9, <1>10 DEF DownloadNext

\* A page that has nothing has it in order.
LEMMA PageInvInit == DownloadInit => PageInv
<1> SUFFICES ASSUME DownloadInit PROVE PageInv
  OBVIOUS
<1>1. /\ \A r \in Requests : stream[r] = None
      /\ page.asked = 0 /\ page.chunks = <<>>
      /\ saved.chunks = <<>> /\ saved.size = 0
  BY DEF DownloadInit, NewPage
<1>2. DOMAIN page.chunks = {} /\ DOMAIN saved.chunks = {} /\ Len(saved.chunks) = 0
  BY <1>1
<1> QED
  BY <1>1, <1>2 DEF PageInv, OneReader, AskedAlone, ChunksInOrder, StreamFollows, SavedIsWhole

\* A page whose user waits for a download before asking for the next saves whole
\* files: over cancelled and broken downloads, files that change under it, other
\* clients and a server that starts again, no block is missing, doubled or out of
\* order.
THEOREM SavedFilesAreWhole ==
  ASSUME ~Impatient
  PROVE  DownloadSpec => []SavedIsWhole
<1>1. RegistryInv /\ ServeInv /\ PageTypeOK /\ [DownloadNext]_allVars => PageTypeOK'
  BY PageTypeStep DEF RegistryInv, ServeInv
<1>2. ServeInv /\ PageTypeOK /\ PageInv /\ [DownloadNext]_allVars => PageInv'
  BY PageInvStep
<1>3. PageInv => SavedIsWhole
  BY DEF PageInv
<1> QED
  BY <1>1, <1>2, <1>3, PageTypeInit, PageInvInit, RegistryHolds, ServeHolds, PTL DEF DownloadSpec
=============================================================================
