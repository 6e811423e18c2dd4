---------------------------- MODULE ShareRegistry ----------------------------
(***************************************************************************)
(* The shares of NetShare: ShareManager keeps them in memory and in the    *)
(* table "shares" of the database, the user interface creates and cancels  *)
(* them, and the worker threads of the web server show their pages, which  *)
(* counts as an access and may use up a share.                             *)
(*                                                                         *)
(* What the main thread calls is one step.  The page of a share is shown   *)
(* by a worker, without a lock: it reads the share, and shareAccessed then *)
(* reads the counter, writes it, compares it with the limit and stores it, *)
(* each a step that other workers and the main thread may come between.    *)
(* Any statement of the database may fail; the application may stop or     *)
(* crash anywhere.                                                         *)
(*                                                                         *)
(* cancelShare deletes the row first and removes the share then.  This is  *)
(* one step: whoever comes between opens the page or counts in memory as   *)
(* before it, and an UPDATE finds no row, as after it.                     *)
(***************************************************************************)
EXTENDS Naturals, FiniteSets

CONSTANTS
  Tokens,   \* the tokens that generateToken may draw, each at most once
  Paths,    \* files and folders
  Viewers,  \* worker threads that show the page of a share
  Hours,    \* lifetimes of shares in hours: 0 is for ever
  Limits,   \* values of maxDownloads: 0 is no limit
  MaxTime,  \* the clock stops here
  MaxViews, \* a page that was shown so often is not opened again
  MaxFailed, \* at most so many shares meet a statement that fails
  None

Second == 2  \* ticks of the clock in a second,
Hour == 1    \* and in an "hour"

ASSUME RegistryAssumption ==
  /\ Hours \subseteq Nat
  /\ Limits \subseteq Nat
  /\ MaxTime \in Nat
  /\ MaxViews \in Nat
  /\ MaxFailed \in Nat
  /\ IsFiniteSet(Viewers)
  /\ None \notin Tokens \cup Paths \cup Nat

VARIABLES
  shares,  \* m_shares
  rows,    \* the rows of the table
  disk,    \* the paths that exist
  views,   \* the share whose page a worker has checked and not yet shown
  access,  \* how far this worker is in shareAccessed
  now,     \* the clock
  \* What happened, for the properties:
  made,    \* the limit with which a token was created
  served,  \* how often the page of a share was shown
  failed,  \* the tokens for which a statement failed
  lost,    \* the tokens whose count was overwritten with an older one
  copies   \* the shares that shareReceivedFile created

regVars == <<shares, rows, disk, views, access, now, made, served, failed, lost, copies>>

\* ShareInfo, with source 0 for shares and 1 for received files.
Info ==
  [path : Paths, source : {0, 1}, expires : Nat \cup {None},
   limit : Nat, count : Nat]

\* A worker in shareAccessed is about to add one, to compare, to store the
\* count or to close the share; own is the count as this worker has it, stored
\* the one that its UPDATE will write.
Access ==
  [stage : {"add", "compare", "store", "close"}, own : Nat, stored : Nat]

ASSUME NoneIsNoShare == None \notin Info \cup Access

RegistryTypeOK ==
  /\ shares \in [Tokens -> Info \cup {None}]
  /\ rows \in [Tokens -> Info \cup {None}]
  /\ disk \subseteq Paths
  /\ views \in [Viewers -> Tokens \cup {None}]
  /\ access \in [Viewers -> Access \cup {None}]
  /\ \A v \in Viewers : access[v] # None => views[v] # None
  /\ now \in 0..MaxTime
  /\ made \in [Tokens -> Nat \cup {None}]
  /\ served \in [Tokens -> Nat]
  /\ failed \cup lost \cup copies \subseteq Tokens

RegistryInit ==
  /\ shares = [t \in Tokens |-> None]
  /\ rows = [t \in Tokens |-> None]
  /\ disk = Paths
  /\ views = [v \in Viewers |-> None]
  /\ access = [v \in Viewers |-> None]
  /\ now = 0
  /\ made = [t \in Tokens |-> None]
  /\ served = [t \in Tokens |-> 0]
  /\ failed = {}
  /\ lost = {}
  /\ copies = {}

Expired(info) == info.expires # None /\ now > info.expires
IsLive(t) == shares[t] # None /\ ~Expired(shares[t])

\* What getActiveShares lists, and /api/shares with it.
ActiveShares == {t \in Tokens : IsLive(t) /\ shares[t].source = 0}

-----------------------------------------------------------------------------
(* The database *)

\* The row of a share: Qt::ISODate drops the fraction of the second.
Row(info) ==
  [info EXCEPT !.expires = IF @ = None THEN None ELSE @ - (@ % Second)]

\* A statement about token t succeeds or fails.
Statement(t, ok) ==
  /\ failed' = IF ok THEN failed ELSE failed \cup {t}
  /\ Cardinality(failed') <= MaxFailed

saveShareToDb(t, info, ok) ==
  /\ Statement(t, ok)
  /\ rows' = IF ok THEN [rows EXCEPT ![t] = Row(info)] ELSE rows

deleteShareFromDb(t, ok) ==
  /\ Statement(t, ok)
  /\ rows' = IF ok THEN [rows EXCEPT ![t] = None] ELSE rows

\* UPDATE changes the count of a row that is there.
updateShareInDb(t, n, ok) ==
  /\ Statement(t, ok)
  /\ rows' = IF ok /\ rows[t] # None THEN [rows EXCEPT ![t].count = n] ELSE rows

-----------------------------------------------------------------------------
(* ShareManager *)

\* A share is in memory even if it could not be stored.
createShare(t, p, hours, limit, source, ok) ==
  LET info == [path |-> p, source |-> source, limit |-> limit, count |-> 0,
               expires |-> IF hours > 0 THEN now + hours * Hour ELSE None]
  IN  /\ made[t] = None
      /\ saveShareToDb(t, info, ok)
      /\ shares' = [shares EXCEPT ![t] = info]
      /\ made' = [made EXCEPT ![t] = limit]

\* Mutant: a share that is used up or cancelled is removed from memory alone.
MutForget(t, ok) ==
  /\ Statement(t, ok)
  /\ shares' = [shares EXCEPT ![t] = None]
  /\ UNCHANGED rows

\* The row goes first; if that fails the share is removed all the same.
Forget(t, ok) ==
  /\ deleteShareFromDb(t, ok)
  /\ shares' = [shares EXCEPT ![t] = None]

\* The user shares a file or a folder.
Share(t, p, hours, limit, ok) ==
  /\ createShare(t, p, hours, limit, 0, ok)
  /\ UNCHANGED <<disk, views, access, now, served, lost, copies>>

\* An upload was stored: the received file gets an entry without end.
Receive(t, p, ok) ==
  /\ createShare(t, p, 0, 0, 1, ok)
  /\ disk' = disk \cup {p}
  /\ UNCHANGED <<views, access, now, served, lost, copies>>

cancelShare(t, ok) ==
  /\ shares[t] # None
  /\ Forget(t, ok)
  /\ UNCHANGED <<disk, views, access, now, made, served, lost, copies>>

\* No part of the application calls this; it is offered to the user interface.
cleanupExpiredShares ==
  LET old == {t \in Tokens : shares[t] # None /\ Expired(shares[t])}
  IN  /\ old # {}
      /\ \E gone \in SUBSET old :
           /\ rows' = [t \in Tokens |-> IF t \in gone THEN None ELSE rows[t]]
           /\ failed' = failed \cup (old \ gone)
           /\ Cardinality(failed') <= MaxFailed
      /\ shares' = [t \in Tokens |-> IF t \in old THEN None ELSE shares[t]]
      /\ UNCHANGED <<disk, views, access, now, made, served, lost, copies>>

\* Only the entry of this token is removed, whoever else has the path.
deleteReceivedFile(t, ok) ==
  /\ shares[t] # None
  /\ shares[t].source = 1
  /\ disk' = disk \ {shares[t].path}
  /\ Forget(t, ok)
  /\ UNCHANGED <<views, access, now, made, served, lost, copies>>

\* Mutant: only shares that never end are looked for.
MutSharesOf(p) == {t \in ActiveShares : shares[t].path = p /\ shares[t].expires = None}

SharesOf(p) == {t \in ActiveShares : shares[t].path = p}

\* A received file that has a share already keeps it: nothing changes then.
shareReceivedFile(r, t, hours, ok) ==
  /\ shares[r] # None
  /\ shares[r].source = 1
  /\ shares[r].path \in disk
  /\ SharesOf(shares[r].path) = {}
  /\ createShare(t, shares[r].path, hours, 0, 0, ok)
  /\ copies' = copies \cup {t}
  /\ UNCHANGED <<disk, views, access, now, served, lost>>

-----------------------------------------------------------------------------
(* The page of a share *)

\* The worker has read the share; the visitor knows the password if it has one.
OpenPage(v, t) ==
  /\ views[v] = None
  /\ IsLive(t)
  /\ served[t] < MaxViews
  /\ views' = [views EXCEPT ![v] = t]
  /\ UNCHANGED <<shares, rows, disk, access, now, made, served, failed, lost, copies>>

\* The worker v has come to a stage of shareAccessed for the share t.
At(v, t, stage) ==
  /\ views[v] = t
  /\ t # None
  /\ access[v] # None
  /\ access[v].stage = stage

\* shareAccessed finds the share and reads its counter.
AccessReads(v) ==
  /\ views[v] # None
  /\ access[v] = None
  /\ shares[views[v]] # None
  /\ access' = [access EXCEPT ![v] =
       [stage |-> "add", own |-> shares[views[v]].count + 1, stored |-> 0]]
  /\ UNCHANGED <<shares, rows, disk, views, now, made, served, failed, lost, copies>>

\* The incremented counter is written, over what others wrote meanwhile.
AccessAdds(v) ==
  LET t == views[v]
  IN  /\ At(v, t, "add")
      /\ shares[t] # None
      /\ shares' = [shares EXCEPT ![t].count = access[v].own]
      /\ lost' = IF access[v].own = shares[t].count + 1 THEN lost ELSE lost \cup {t}
      /\ access' = [access EXCEPT ![v].stage = "compare"]
      /\ UNCHANGED <<rows, disk, views, now, made, served, failed, copies>>

\* The counter is compared with the limit, as the worker wrote it or as it is
\* now (the build may do either), and read again for the UPDATE.
AccessCompares(v) ==
  LET t == views[v]
  IN  /\ At(v, t, "compare")
      /\ shares[t] # None
      /\ \E n \in {access[v].own, shares[t].count} :
           access' = [access EXCEPT ![v] =
             [stage |-> IF shares[t].limit > 0 /\ n >= shares[t].limit THEN "close" ELSE "store",
              own |-> access[v].own,
              stored |-> shares[t].count]]
      /\ UNCHANGED <<shares, rows, disk, views, now, made, served, failed, lost, copies>>

\* The worker leaves shareAccessed and sends the page.
Shown(v) ==
  /\ views' = [views EXCEPT ![v] = None]
  /\ access' = [access EXCEPT ![v] = None]
  /\ served' = [served EXCEPT ![views[v]] = @ + 1]
  /\ UNCHANGED <<disk, now, made, copies>>

\* The share is gone before it is found, or while its entry is used: then the
\* worker writes to memory that was freed, which changes no share and no row.
AccessMisses(v) ==
  LET t == views[v]
  IN  /\ t # None
      /\ shares[t] = None
      /\ access[v] = None \/ At(v, t, "add") \/ At(v, t, "compare")
      /\ Shown(v)
      /\ UNCHANGED <<shares, rows, failed, lost>>

\* Mutant: the new count stays in memory.
MutStores(v, ok) ==
  LET t == views[v]
  IN  /\ At(v, t, "store")
      /\ Statement(t, ok)
      /\ Shown(v)
      /\ UNCHANGED <<shares, rows, lost>>

\* Others may have stored a newer count meanwhile.
AccessStores(v, ok) ==
  LET t == views[v]
  IN  /\ At(v, t, "store")
      /\ updateShareInDb(t, access[v].stored, ok)
      /\ lost' = IF rows[t] # None /\ access[v].stored < rows[t].count
                 THEN lost \cup {t} ELSE lost
      /\ Shown(v)
      /\ UNCHANGED shares

\* A share that was used up is cancelled, by the first of those who find it so.
AccessCancels(v, ok) ==
  LET t == views[v]
  IN  /\ At(v, t, "close")
      /\ IF shares[t] = None THEN UNCHANGED <<shares, rows, failed>> ELSE Forget(t, ok)
      /\ Shown(v)
      /\ UNCHANGED lost

\* The steps of shareAccessed, and those that end it.
AccessGoesOn(v) == AccessReads(v) \/ AccessAdds(v) \/ AccessCompares(v)
AccessEnds(v, ok) == AccessMisses(v) \/ AccessStores(v, ok) \/ AccessCancels(v, ok)

-----------------------------------------------------------------------------
(* The application *)

\* Mutant: the rows of expired shares are not loaded.
MutLoaded == [t \in Tokens |-> IF rows[t] # None /\ Expired(rows[t]) THEN None ELSE rows[t]]

\* loadSharesFromDb, with the expired ones.
Loaded == rows

\* The application stops or crashes, and starts again: a page that was being
\* shown is lost.
RestartRegistry ==
  /\ shares' = Loaded
  /\ views' = [v \in Viewers |-> None]
  /\ access' = [v \in Viewers |-> None]
  /\ UNCHANGED <<rows, disk, now, made, served, failed, lost, copies>>

Tick ==
  /\ now < MaxTime
  /\ now' = now + 1
  /\ UNCHANGED <<shares, rows, disk, views, access, made, served, failed, lost, copies>>

UserRegistry ==
  \E t \in Tokens, ok \in BOOLEAN :
    \/ \E p \in Paths, h \in Hours, n \in Limits : Share(t, p, h, n, ok)
    \/ \E p \in Paths : Receive(t, p, ok)
    \/ \E r \in Tokens, h \in Hours \ {0} : shareReceivedFile(r, t, h, ok)
    \/ cancelShare(t, ok)
    \/ deleteReceivedFile(t, ok)

RegistryNext ==
  \/ UserRegistry
  \/ cleanupExpiredShares
  \/ \E v \in Viewers, t \in Tokens : OpenPage(v, t)
  \/ \E v \in Viewers : AccessGoesOn(v)
  \/ \E v \in Viewers, ok \in BOOLEAN : AccessEnds(v, ok)
  \/ RestartRegistry
  \/ Tick

RegistrySpec == RegistryInit /\ [][RegistryNext]_regVars

-----------------------------------------------------------------------------
(* Properties *)

\* The count of this share will still be written, or the share closed.
CountUnderWay(t) ==
  \E v \in Viewers :
    \/ At(v, t, "compare")
    \/ At(v, t, "close")
    \/ At(v, t, "store") /\ access[v].stored = shares[t].count

\* Memory and table have the same shares, and the same of each up to the
\* fraction of a second and the count; the table may be behind with the count
\* only while a worker is about to store it or to close the share, unless two
\* workers wrote it in the wrong order.  So a start brings back every share, its
\* end and its count (saveShareToDb, shareAccessed, loadSharesFromDb).
RowsFollowMemory ==
  \A t \in Tokens \ failed :
    /\ shares[t] = None <=> rows[t] = None
    /\ shares[t] # None =>
         /\ [rows[t] EXCEPT !.count = 0] = [Row(shares[t]) EXCEPT !.count = 0]
         /\ t \notin lost =>
              \/ rows[t].count = shares[t].count
              \/ rows[t].count < shares[t].count /\ CountUnderWay(t)

\* The page of a share with a limit is shown no more often than the limit
\* allows, but for the pages that were checked before the share was closed,
\* unless two workers wrote its count in the wrong order: neither a start nor a
\* cancellation resets the count, and no worker stays uncounted (shareAccessed).
LimitHolds ==
  \A t \in Tokens \ (failed \cup lost) :
    made[t] # None /\ made[t] > 0 =>
      served[t] + Cardinality({v \in Viewers : views[v] = t})
        < made[t] + Cardinality(Viewers)

\* A share that was cancelled, deleted or used up does not come back, not even
\* with a start, unless its row could not be deleted (cancelShare).
GoneStaysGone ==
  [][\A t \in Tokens \ failed' :
       made[t] # None /\ shares[t] = None => shares'[t] = None]_regVars

\* Sharing a received file again returns the share it has: a file has one
\* share of this kind at a time, unless the row of one could not be deleted
\* and a start brought it back (shareReceivedFile).
OneShareOfReceived ==
  \A t, u \in (copies \cap ActiveShares) \ failed :
    shares[t].path = shares[u].path => t = u
=============================================================================
