-------------------------- MODULE UploadSystemProofs -------------------------
(***************************************************************************)
(* Theorems about UploadSystem, for every value of its constants: the      *)
(* types of the pages, that the pages use the server as UploadServer has   *)
(* it, that the transfer list has one unfinished task of a name, and that  *)
(* an undisturbed page and the transfer list tell the truth of what is     *)
(* stored.  The last two rest on StoredInv: it relates the lists of the    *)
(* page, the requests, the chunk files, the lists of completed chunks and  *)
(* the merges; its lemmas follow the actions of the system one by one.     *)
(***************************************************************************)
EXTENDS UploadSystem, UploadServerProofs

-----------------------------------------------------------------------------
(* The types of the pages *)

\* The chunks of a file of a page.
LEMMA ChunksAreIndices ==
  ASSUME NEW b \in Browsers, NEW f \in Files
  PROVE  0 .. Length[b][f] - 1 \subseteq Index
BY SystemAssumption DEF Index

\* The reply of a check leaves a page.
LEMMA CheckedType ==
  ASSUME NEW p \in Client!Page, NEW b \in Browsers, NEW S \in SUBSET Files, NEW sid \in Sids,
         NEW existing, NEW have
  PROVE  Client!Checked(p, b, S, sid, existing, have) \in Client!Page
<1> DEFINE status == [f \in Files |-> IF f \in existing THEN "done"
                                      ELSE IF f \in S THEN "pending" ELSE p.status[f]]
           left == [f \in Files |-> IF f \in (S \ existing) \ p.active
                                    THEN (0 .. Length[b][f] - 1) \ have[f] ELSE p.left[f]]
<1>1. status \in [Files -> Client!Chosen \cup {None}]
  BY DEF Client!Page, Client!Chosen
<1>2. left \in [Files -> SUBSET Index]
  BY ChunksAreIndices DEF Client!Page
<1>3. Client!Checked(p, b, S, sid, existing, have) =
        [p EXCEPT !.phase = "run", !.sid = sid, !.status = status, !.failed = {},
                  !.todo = S \ existing, !.left = left]
  BY DEF Client!Checked
<1> HIDE DEF status, left
<1> QED
  BY <1>1, <1>2, <1>3 DEF Client!Page

\* So do a pause and a disconnection.
LEMMA StoppedType ==
  ASSUME NEW p \in Client!Page, NEW mark \in Client!Chosen
  PROVE  Client!Stopped(p, mark) \in Client!Page
<1> DEFINE hit == {f \in Files : p.status[f] \in {"uploading", "pending"}}
           status == [f \in Files |-> IF f \in hit THEN mark ELSE p.status[f]]
<1>1. status \in [Files -> Client!Chosen \cup {None}]
  BY DEF Client!Page
<1>2. Client!Stopped(p, mark) =
        [p EXCEPT !.on = FALSE, !.status = status, !.failed = @ \cup hit]
  BY DEF Client!Stopped
<1>3. hit \in SUBSET Files
  OBVIOUS
<1> HIDE DEF status, hit
<1> QED
  BY <1>1, <1>2, <1>3 DEF Client!Page

\* A new page.
LEMMA NewPageType == Client!NewPage \in Client!Page
BY SystemAssumption DEF Client!NewPage, Client!Page

\* startUpload and retryFailed
LEMMA StartType ==
  ASSUME Client!PageTypeOK, NEW b \in Browsers, NEW S \in SUBSET Files, NEW sid \in Sids,
         NEW existing, NEW have,
         \/ Client!Start(b, S, sid, existing, have)
         \/ Client!Retry(b, sid, existing, have)
  PROVE  Client!PageTypeOK'
<1>1. CASE Client!Start(b, S, sid, existing, have)
  <2> DEFINE p == Client!Checked(Client!NewPage, b, S, sid, existing, have)
  <2>1. p \in Client!Page
    BY NewPageType, CheckedType
  <2>2. pages' = [pages EXCEPT ![b] = [p EXCEPT !.on = TRUE]] /\ wire' = wire
    BY <1>1 DEF Client!Start
  <2> HIDE DEF p
  <2>3. [p EXCEPT !.on = TRUE] \in Client!Page
    BY <2>1 DEF Client!Page
  <2> QED
    BY <2>2, <2>3 DEF Client!PageTypeOK
<1>2. CASE Client!Retry(b, sid, existing, have)
  <2> DEFINE F == pages[b].failed
             p == Client!Checked(pages[b], b, F, sid, existing, have)
  <2>0. pages[b] \in Client!Page
    BY DEF Client!PageTypeOK
  <2>1. F \in SUBSET Files
    BY <2>0 DEF Client!Page
  <2>2. p \in Client!Page
    BY <2>0, <2>1, CheckedType
  <2>3. pages' = [pages EXCEPT ![b] = [p EXCEPT !.retry = FALSE]] /\ wire' = wire
    BY <1>2 DEF Client!Retry
  <2> HIDE DEF p
  <2>4. [p EXCEPT !.retry = FALSE] \in Client!Page
    BY <2>2 DEF Client!Page
  <2> QED
    BY <2>3, <2>4 DEF Client!PageTypeOK
<1> QED
  BY <1>1, <1>2

\* The requests of a page and their answers
LEMMA ChunkStepType ==
  ASSUME Client!PageTypeOK, NEW b \in Browsers, NEW f \in Files, NEW i \in Index,
         NEW c,
         \/ Client!Send(b, f, i, c) \/ Client!Skipped(b, f, i)
         \/ Client!Refused(b, f, i) \/ Client!Rejected(b, f, i)
  PROVE  Client!PageTypeOK'
<1>0. pages[b] \in Client!Page
  BY DEF Client!PageTypeOK
<1> DEFINE sent == [pages[b] EXCEPT !.left[f] = @ \ {i}]
<1>1. sent \in Client!Page
  BY <1>0 DEF Client!Page
<1>2. CASE Client!Send(b, f, i, c)
  <2>1. pages' = [pages EXCEPT ![b] = sent]
    BY <1>2 DEF Client!Send
  <2>2. [page |-> b, file |-> f, index |-> i] \in Client!Request
    BY DEF Client!Request
  <2> HIDE DEF sent
  <2> QED
    BY <1>1, <1>2, <2>1, <2>2 DEF Client!Send, Client!PageTypeOK
<1>3. CASE Client!Skipped(b, f, i)
  <2>1. pages' = [pages EXCEPT ![b] = sent] /\ wire' = wire
    BY <1>3 DEF Client!Skipped
  <2> HIDE DEF sent
  <2> QED
    BY <1>1, <2>1 DEF Client!PageTypeOK
<1>4. CASE Client!Refused(b, f, i)
  <2> DEFINE p == Client!Stopped(pages[b], "paused")
  <2>1. p \in Client!Page
    BY <1>0, StoppedType DEF Client!Chosen
  <2>2. /\ pages' = [pages EXCEPT ![b] = [p EXCEPT !.left[f] = {}, !.active = @ \ {f},
                                                   !.retry = TRUE]]
        /\ wire' = wire
    BY <1>4 DEF Client!Refused
  <2> HIDE DEF p
  <2>3. [p EXCEPT !.left[f] = {}, !.active = @ \ {f}, !.retry = TRUE] \in Client!Page
    BY <2>1 DEF Client!Page
  <2> QED
    BY <2>2, <2>3 DEF Client!PageTypeOK
<1>5. CASE Client!Rejected(b, f, i)
  <2> DEFINE p == [sent EXCEPT !.bad[f] = @ \cup {i}]
  <2>1. pages' = [pages EXCEPT ![b] = p] /\ wire' = wire
    BY <1>0, <1>5 DEF Client!Rejected, Client!Page, Client!PageTypeOK
  <2> HIDE DEF sent
  <2>2. p \in Client!Page
    BY <1>1 DEF Client!Page
  <2> HIDE DEF p
  <2> QED
    BY <2>1, <2>2 DEF Client!PageTypeOK
<1> QED
  BY <1>2, <1>3, <1>4, <1>5

\* An answer that arrives, or a network error
LEMMA AnswerType ==
  ASSUME Client!PageTypeOK, NEW c \in Conns, Client!Answered(c) \/ Client!Failed(c)
  PROVE  Client!PageTypeOK'
<1> DEFINE r == wire[c]
           p == [pages[r.page] EXCEPT !.bad[r.file] =
                   IF r.file \in pages[r.page].active THEN @ \cup {r.index} ELSE @]
<1>1. wire' = [wire EXCEPT ![c] = None] /\ wire[c] # None
  BY DEF Client!Answered, Client!Failed
<1>2. wire' \in [Conns -> Client!Request \cup {None}]
  BY <1>1 DEF Client!PageTypeOK
<1>3. CASE Client!Answered(c)
  BY <1>2, <1>3 DEF Client!Answered, Client!PageTypeOK
<1>4. CASE Client!Failed(c)
  <2>1. r \in Client!Request
    BY <1>1 DEF Client!PageTypeOK
  <2>2. r.page \in Browsers /\ r.file \in Files /\ r.index \in Index
    BY <2>1 DEF Client!Request
  <2>3. pages' = [pages EXCEPT ![r.page] = p]
    BY <1>4 DEF Client!Failed
  <2> HIDE DEF r
  <2>4. pages[r.page] \in Client!Page
    BY <2>2 DEF Client!PageTypeOK
  <2>5. p \in Client!Page
    BY <2>2, <2>4 DEF Client!Page
  <2> HIDE DEF p
  <2> QED
    BY <1>2, <2>3, <2>5 DEF Client!PageTypeOK
<1> QED
  BY <1>3, <1>4

\* What a page does by itself, and what else happens to it
LEMMA OwnStepType ==
  ASSUME Client!PageTypeOK, NEW b \in Browsers, NEW f \in Files,
         \/ Client!TakeFile(b, f) \/ Client!NextRound(b, f) \/ Client!EndFile(b, f)
         \/ Client!EndCall(b) \/ Client!Finalized(b) \/ Client!PauseUpload(b)
         \/ Client!Disconnected(b) \/ Client!Reload(b)
  PROVE  Client!PageTypeOK'
<1>0. pages[b] \in Client!Page
  BY DEF Client!PageTypeOK
<1> SUFFICES ASSUME NEW p \in Client!Page, pages' = [pages EXCEPT ![b] = p],
                    wire' \in [Conns -> Client!Request \cup {None}]
             PROVE  Client!PageTypeOK'
  <2>1. CASE Client!Reload(b)
    BY <2>1, NewPageType DEF Client!Reload, Client!PageTypeOK
  <2>2. CASE Client!PauseUpload(b) \/ Client!Disconnected(b)
    <3>1. PICK mark \in Client!Chosen :
            pages' = [pages EXCEPT ![b] = [Client!Stopped(pages[b], mark) EXCEPT !.retry = TRUE]]
      BY <2>2 DEF Client!PauseUpload, Client!Disconnected, Client!Chosen
    <3> DEFINE p == Client!Stopped(pages[b], mark)
    <3>2. p \in Client!Page
      BY <1>0, StoppedType
    <3> HIDE DEF p
    <3>3. [p EXCEPT !.retry = TRUE] \in Client!Page
      BY <3>2 DEF Client!Page
    <3>4. wire' = wire
      BY <2>2 DEF Client!PauseUpload, Client!Disconnected
    <3> QED
      BY <3>1, <3>3, <3>4 DEF Client!PageTypeOK, p
  <2>3. CASE Client!TakeFile(b, f)
    <3> DEFINE q == [pages[b] EXCEPT !.todo = @ \ {f}, !.active = @ \cup {f},
                                     !.status[f] = "uploading"]
               all == [pages EXCEPT ![b].todo = @ \ {f}, ![b].active = @ \cup {f},
                                    ![b].status[f] = "uploading"]
    <3>1. q \in Client!Page
      BY <1>0 DEF Client!Page, Client!Chosen
    <3>2. all = [pages EXCEPT ![b] = q]
      BY <1>0 DEF Client!Page, Client!PageTypeOK
    <3>3. pages' = [all EXCEPT ![b].bad[f] = {}, ![b].rounds[f] = Rounds] /\ wire' = wire
      BY <2>3 DEF Client!TakeFile
    <3> HIDE DEF q, all
    <3>4. [q EXCEPT !.bad[f] = {}, !.rounds[f] = Rounds] \in Client!Page
      <4>1. Rounds \in 0 .. Rounds
        BY SystemAssumption
      <4> QED
        BY <3>1, <4>1 DEF Client!Page
    <3>5. pages' = [pages EXCEPT ![b] = [q EXCEPT !.bad[f] = {}, !.rounds[f] = Rounds]]
      BY <3>1, <3>2, <3>3 DEF Client!Page, Client!PageTypeOK
    <3> QED
      BY <3>3, <3>4, <3>5 DEF Client!PageTypeOK
  <2>4. CASE Client!NextRound(b, f)
    <3> DEFINE p == [pages[b] EXCEPT !.left[f] = pages[b].bad[f], !.bad[f] = {},
                                     !.rounds[f] = @ - 1]
    <3>1. pages[b].rounds[f] \in 1 .. Rounds
      BY <1>0, <2>4, SystemAssumption DEF Client!NextRound, Client!Page
    <3>2. p \in Client!Page
      <4>1. pages[b].rounds[f] - 1 \in 0 .. Rounds
        BY <3>1, SystemAssumption
      <4> QED
        BY <1>0, <4>1 DEF Client!Page
    <3>3. pages' = [pages EXCEPT ![b] = p] /\ wire' = wire
      BY <1>0, <2>4 DEF Client!NextRound, Client!Page, Client!PageTypeOK
    <3> HIDE DEF p
    <3> QED
      BY <3>2, <3>3 DEF Client!PageTypeOK
  <2>5. CASE Client!EndFile(b, f)
    <3> DEFINE p == [pages[b] EXCEPT !.active = @ \ {f}]
               q == [p EXCEPT !.status[f] = "failed", !.failed = @ \cup {f}]
               r == [p EXCEPT !.status[f] = "done"]
    <3>1. p \in Client!Page
      BY <1>0 DEF Client!Page
    <3>2. /\ \/ pages' = [pages EXCEPT ![b] = p]
             \/ pages' = [pages EXCEPT ![b] = q]
             \/ pages' = [pages EXCEPT ![b] = r]
          /\ wire' = wire
      BY <2>5 DEF Client!EndFile
    <3> HIDE DEF p
    <3>3. q \in Client!Page /\ r \in Client!Page
      BY <3>1 DEF Client!Page, Client!Chosen
    <3> HIDE DEF q, r
    <3> QED
      BY <3>1, <3>2, <3>3 DEF Client!PageTypeOK
  <2>6. CASE Client!EndCall(b)
    <3> DEFINE some(mark) == \E g \in Files : pages[b].status[g] = mark
               x == IF \E g \in Files : pages[b].status[g] \in Client!Chosen \ {"done"}
                    THEN "over" ELSE "finalizing"
               y == pages[b].retry \/ some("paused") \/ some("failed")
    <3>1. pages' = [pages EXCEPT ![b].phase = x, ![b].retry = y] /\ wire' = wire
      BY <2>6 DEF Client!EndCall
    <3>2. x \in {"over", "finalizing"}
      OBVIOUS
    <3>3. y \in BOOLEAN
      OBVIOUS
    <3> HIDE DEF x, y
    <3>4. [pages[b] EXCEPT !.phase = x, !.retry = y] \in Client!Page
      BY <1>0, <3>2, <3>3 DEF Client!Page
    <3>5. pages' = [pages EXCEPT ![b] = [pages[b] EXCEPT !.phase = x, !.retry = y]]
      BY <1>0, <3>1 DEF Client!Page, Client!PageTypeOK
    <3> QED
      BY <3>1, <3>4, <3>5 DEF Client!PageTypeOK
  <2>7. CASE Client!Finalized(b)
    <3>1. [pages[b] EXCEPT !.phase = "sent"] \in Client!Page
      BY <1>0 DEF Client!Page
    <3>2. pages' = [pages EXCEPT ![b] = [pages[b] EXCEPT !.phase = "sent"]] /\ wire' = wire
      BY <2>7 DEF Client!Finalized
    <3> QED
      BY <3>1, <3>2 DEF Client!PageTypeOK
  <2> QED
    BY <2>1, <2>2, <2>3, <2>4, <2>5, <2>6, <2>7
<1> QED
  BY DEF Client!PageTypeOK

-----------------------------------------------------------------------------
(* The requests of the pages are requests of the server *)

\* The files that the user of page b selected.
Picked(b) == {f \in Files : pages[b].status[f] # None}

\* Whatever the script has to do is part of one selection, so that a retry is
\* for a part of it, too.
FilesArePicked ==
  \A b \in Browsers :
    /\ pages[b].failed \cup pages[b].todo \cup pages[b].active \subseteq Picked(b)
    /\ Picked(b) # {} => \E S \in Picks[b] : Picked(b) \subseteq S

\* A retry is a check that the server knows.
LEMMA RetrySelection ==
  ASSUME FilesArePicked, NEW b \in Browsers, pages[b].failed # {}
  PROVE  pages[b].failed \in Selections
<1>1. PICK S \in Picks[b] : Picked(b) \subseteq S
  BY DEF FilesArePicked
<1>2. pages[b].failed \in (SUBSET S) \ {{}}
  BY <1>1 DEF FilesArePicked
<1> QED
  BY <1>2, SystemAssumption

\* What a user may select is a check that the server knows.
LEMMA PickIsSelection ==
  ASSUME NEW b \in Browsers, NEW S \in Picks[b]
  PROVE  S \in Selections /\ S \in SUBSET Files
BY SystemAssumption, ConstantsAssumption

\* The sizes that a check lists
LEMMA LengthsType ==
  ASSUME NEW b \in Browsers, NEW S \in SUBSET Files
  PROVE  Lengths(b, S) \in [S -> Sizes]
BY SystemAssumption DEF Lengths

\* A page b whose record becomes p keeps FilesArePicked if p does.
LEMMA PickedByOne ==
  ASSUME FilesArePicked, Client!PageTypeOK, NEW b \in Browsers, NEW p,
         pages' = [pages EXCEPT ![b] = p],
         p.failed \cup p.todo \cup p.active \subseteq {f \in Files : p.status[f] # None},
         {f \in Files : p.status[f] # None} # {} =>
           \E S \in Picks[b] : {f \in Files : p.status[f] # None} \subseteq S
  PROVE  FilesArePicked'
<1> SUFFICES ASSUME NEW a \in Browsers
             PROVE  /\ pages'[a].failed \cup pages'[a].todo \cup pages'[a].active
                         \subseteq {f \in Files : pages'[a].status[f] # None}
                    /\ {f \in Files : pages'[a].status[f] # None} # {} =>
                         \E S \in Picks[a] : {f \in Files : pages'[a].status[f] # None} \subseteq S
  BY DEF FilesArePicked, Picked
<1>1. CASE a = b
  <2>1. pages'[a] = p
    BY <1>1 DEF Client!PageTypeOK
  <2> QED
    BY <1>1, <2>1
<1>2. CASE a # b
  <2>1. pages'[a] = pages[a]
    BY <1>2 DEF Client!PageTypeOK
  <2> QED
    BY <2>1 DEF FilesArePicked, Picked
<1> QED
  BY <1>1, <1>2
\* The reply of a check
LEMMA CheckKeepsPicks ==
  ASSUME FilesArePicked, Client!PageTypeOK, NEW b \in Browsers, NEW S \in SUBSET Files,
         NEW sid \in Sids, NEW existing \in SUBSET S, NEW have,
         \/ S \in Picks[b] /\ Client!Start(b, S, sid, existing, have)
         \/ S = pages[b].failed /\ Client!Retry(b, sid, existing, have)
  PROVE  FilesArePicked'
<1>0. pages[b] \in Client!Page
  BY DEF Client!PageTypeOK
<1>1. CASE S \in Picks[b] /\ Client!Start(b, S, sid, existing, have)
  <2> DEFINE q == Client!Checked(Client!NewPage, b, S, sid, existing, have)
             p == [q EXCEPT !.on = TRUE]
  <2>1. pages' = [pages EXCEPT ![b] = p]
    BY <1>1 DEF Client!Start
  <2>2. q \in Client!Page
    BY NewPageType, CheckedType
  <2>3. /\ q.failed = {} /\ q.todo \subseteq S /\ q.active = {}
        /\ \A f \in Files : q.status[f] # None <=> f \in S
    BY NewPageType, NoneIsNoMark
       DEF Client!Checked, Client!NewPage, Client!Chosen
  <2> HIDE DEF q
  <2>4. /\ p.failed = {} /\ p.todo \subseteq S /\ p.active = {}
        /\ {f \in Files : p.status[f] # None} = S
    BY <2>2, <2>3 DEF Client!Page
  <2> HIDE DEF p
  <2> QED
    BY <1>1, <2>1, <2>4, PickedByOne
<1>2. CASE S = pages[b].failed /\ Client!Retry(b, sid, existing, have)
  <2> DEFINE q == Client!Checked(pages[b], b, S, sid, existing, have)
             p == [q EXCEPT !.retry = FALSE]
  <2>1. pages' = [pages EXCEPT ![b] = p]
    BY <1>2 DEF Client!Retry
  <2>2. q \in Client!Page
    BY <1>0, CheckedType
  <2>3. /\ q.failed = {} /\ q.todo \subseteq S /\ q.active = pages[b].active
        /\ \A f \in Files : q.status[f] # None <=> f \in S \/ pages[b].status[f] # None
    BY <1>0, NoneIsNoMark DEF Client!Checked, Client!Chosen, Client!Page
  <2> HIDE DEF q
  <2>4. S \cup pages[b].active \subseteq Picked(b)
    BY <1>2 DEF FilesArePicked
  <2>5. /\ p.failed \cup p.todo \cup p.active \subseteq Picked(b)
        /\ {f \in Files : p.status[f] # None} = Picked(b)
    BY <2>2, <2>3, <2>4 DEF Client!Page, Picked
  <2> HIDE DEF p
  <2> QED
    BY <2>1, <2>5, PickedByOne DEF FilesArePicked
<1> QED
  BY <1>1, <1>2

\* A step that leaves the picked files as they are, and that gives the script no
\* others to do, keeps FilesArePicked.
LEMMA SamePicks ==
  ASSUME FilesArePicked, Client!PageTypeOK, NEW b \in Browsers, NEW p,
         pages' = [pages EXCEPT ![b] = p],
         \A f \in Files : p.status[f] # None <=> pages[b].status[f] # None,
         p.failed \cup p.todo \cup p.active \subseteq Picked(b)
  PROVE  FilesArePicked'
<1>1. {f \in Files : p.status[f] # None} = Picked(b)
  BY DEF Picked
<1> QED
  BY <1>1, PickedByOne DEF FilesArePicked

\* A pause or a disconnection, as the script sees it
LEMMA StoppedPicks ==
  ASSUME FilesArePicked, Client!PageTypeOK, NEW b \in Browsers, NEW mark \in Client!Chosen
  PROVE  LET p == Client!Stopped(pages[b], mark)
         IN  /\ \A f \in Files : p.status[f] # None <=> pages[b].status[f] # None
             /\ p.failed \cup p.todo \cup p.active \subseteq Picked(b)
             /\ p \in Client!Page
<1>0. pages[b] \in Client!Page
  BY DEF Client!PageTypeOK
<1> DEFINE p == Client!Stopped(pages[b], mark)
           hit == {f \in Files : pages[b].status[f] \in {"uploading", "pending"}}
<1>1. p \in Client!Page
  BY <1>0, StoppedType
<1>2. /\ p.failed = pages[b].failed \cup hit /\ p.todo = pages[b].todo
      /\ p.active = pages[b].active
      /\ \A f \in Files : p.status[f] = IF f \in hit THEN mark ELSE pages[b].status[f]
  BY <1>0 DEF Client!Stopped, Client!Page
<1>3. hit \subseteq Picked(b)
  BY NoneIsNoMark DEF Picked, Client!Chosen
<1> HIDE DEF p
<1>4. \A f \in Files : p.status[f] # None <=> pages[b].status[f] # None
  BY <1>2, NoneIsNoMark DEF Client!Chosen
<1>5. p.failed \cup p.todo \cup p.active \subseteq Picked(b)
  BY <1>2, <1>3 DEF FilesArePicked
<1> QED
  BY <1>1, <1>4, <1>5 DEF p

\* A step after which every page has the same picked files, and no others to do,
\* keeps FilesArePicked.
LEMMA PicksKept ==
  ASSUME FilesArePicked,
         \A a \in Browsers :
           /\ \A f \in Files : pages'[a].status[f] # None <=> pages[a].status[f] # None
           /\ pages'[a].failed \cup pages'[a].todo \cup pages'[a].active \subseteq Picked(a)
  PROVE  FilesArePicked'
<1> SUFFICES ASSUME NEW a \in Browsers
             PROVE  /\ pages'[a].failed \cup pages'[a].todo \cup pages'[a].active
                         \subseteq {f \in Files : pages'[a].status[f] # None}
                    /\ {f \in Files : pages'[a].status[f] # None} # {} =>
                         \E S \in Picks[a] : {f \in Files : pages'[a].status[f] # None} \subseteq S
  BY DEF FilesArePicked, Picked
<1>1. {f \in Files : pages'[a].status[f] # None} = Picked(a)
  BY DEF Picked
<1> QED
  BY <1>1 DEF FilesArePicked

\* The requests of a page and their answers
LEMMA RequestPicks ==
  ASSUME FilesArePicked, Client!PageTypeOK, NEW b \in Browsers, NEW f \in Files,
         NEW i, NEW c,
         \/ Client!Send(b, f, i, c) \/ Client!Skipped(b, f, i)
         \/ Client!Refused(b, f, i) \/ Client!Rejected(b, f, i)
         \/ Client!Answered(c) \/ Client!Failed(c)
  PROVE  FilesArePicked'
<1>0. \A a \in Browsers : pages[a] \in Client!Page
  BY DEF Client!PageTypeOK
<1>1. CASE Client!Refused(b, f, i)
  <2> DEFINE q == Client!Stopped(pages[b], "paused")
             p == [q EXCEPT !.left[f] = {}, !.active = @ \ {f}, !.retry = TRUE]
  <2>1. pages' = [pages EXCEPT ![b] = p]
    BY <1>1 DEF Client!Refused
  <2>2. /\ q \in Client!Page
        /\ \A g \in Files : q.status[g] # None <=> pages[b].status[g] # None
        /\ q.failed \cup q.todo \cup q.active \subseteq Picked(b)
    BY StoppedPicks DEF Client!Chosen
  <2> HIDE DEF q
  <2>3. /\ p.status = q.status /\ p.failed = q.failed /\ p.todo = q.todo
        /\ p.active \subseteq q.active
    BY <2>2 DEF Client!Page
  <2> HIDE DEF p
  <2>4. /\ \A g \in Files : p.status[g] # None <=> pages[b].status[g] # None
        /\ p.failed \cup p.todo \cup p.active \subseteq Picked(b)
    BY <2>2, <2>3
  <2> QED
    BY <2>1, <2>4, SamePicks
<1>2. CASE ~Client!Refused(b, f, i)
  <2>1. \A a \in Browsers : /\ pages'[a].status = pages[a].status
                            /\ pages'[a].failed = pages[a].failed
                            /\ pages'[a].todo = pages[a].todo
                            /\ pages'[a].active = pages[a].active
    <3>1. CASE Client!Send(b, f, i, c) \/ Client!Skipped(b, f, i)
      <4>1. pages' = [pages EXCEPT ![b].left[f] = @ \ {i}]
        BY <3>1 DEF Client!Send, Client!Skipped
      <4> QED
        BY <1>0, <4>1 DEF Client!Page, Client!PageTypeOK
    <3>2. CASE Client!Rejected(b, f, i)
      BY <1>0, <3>2 DEF Client!Rejected, Client!Page, Client!PageTypeOK
    <3>3. CASE Client!Answered(c)
      BY <3>3 DEF Client!Answered
    <3>4. CASE Client!Failed(c)
      BY <1>0, <3>4 DEF Client!Failed, Client!Page, Client!PageTypeOK
    <3> QED
      BY <1>2, <3>1, <3>2, <3>3, <3>4
  <2> QED
    BY <2>1, PicksKept DEF FilesArePicked
<1> QED
  BY <1>1, <1>2

\* What a page does by itself, and what else happens to it
LEMMA OwnStepPicks ==
  ASSUME FilesArePicked, Client!PageTypeOK, NEW b \in Browsers, NEW f \in Files,
         \/ Client!TakeFile(b, f) \/ Client!NextRound(b, f) \/ Client!EndFile(b, f)
         \/ Client!EndCall(b) \/ Client!Finalized(b) \/ Client!PauseUpload(b)
         \/ Client!Disconnected(b) \/ Client!Reload(b)
  PROVE  FilesArePicked'
<1>0. \A a \in Browsers : pages[a] \in Client!Page
  BY DEF Client!PageTypeOK
<1>1. CASE Client!Reload(b)
  BY <1>1, PickedByOne DEF Client!Reload, Client!NewPage
<1>2. CASE Client!PauseUpload(b) \/ Client!Disconnected(b)
  <2>1. PICK mark \in Client!Chosen :
          pages' = [pages EXCEPT ![b] = [Client!Stopped(pages[b], mark) EXCEPT !.retry = TRUE]]
    BY <1>2 DEF Client!PauseUpload, Client!Disconnected, Client!Chosen
  <2> DEFINE q == Client!Stopped(pages[b], mark)
             p == [q EXCEPT !.retry = TRUE]
  <2>2. /\ q \in Client!Page
        /\ \A g \in Files : q.status[g] # None <=> pages[b].status[g] # None
        /\ q.failed \cup q.todo \cup q.active \subseteq Picked(b)
    BY StoppedPicks
  <2>3. pages' = [pages EXCEPT ![b] = p]
    BY <2>1
  <2> HIDE DEF q
  <2>4. /\ p.status = q.status /\ p.failed = q.failed /\ p.todo = q.todo
        /\ p.active = q.active
    BY <2>2 DEF Client!Page
  <2> HIDE DEF p
  <2>5. /\ \A g \in Files : p.status[g] # None <=> pages[b].status[g] # None
        /\ p.failed \cup p.todo \cup p.active \subseteq Picked(b)
    BY <2>2, <2>4
  <2> QED
    BY <2>3, <2>5, SamePicks
<1>3. CASE Client!TakeFile(b, f)
  <2>1. f \in Picked(b)
    BY <1>3 DEF Client!TakeFile, FilesArePicked
  <2>2. \A a \in Browsers :
          /\ \A g \in Files : \/ pages'[a].status[g] = pages[a].status[g]
                              \/ a = b /\ g = f /\ pages'[a].status[g] = "uploading"
          /\ pages'[a].failed = pages[a].failed
          /\ pages'[a].todo \subseteq pages[a].todo
          /\ pages'[a].active \subseteq pages[a].active \cup (IF a = b THEN {f} ELSE {})
    BY <1>0, <1>3 DEF Client!TakeFile, Client!Page, Client!PageTypeOK
  <2>3. \A a \in Browsers :
          /\ \A g \in Files : pages'[a].status[g] # None <=> pages[a].status[g] # None
          /\ pages'[a].failed \cup pages'[a].todo \cup pages'[a].active \subseteq Picked(a)
    BY <2>1, <2>2, NoneIsNoMark DEF FilesArePicked, Picked, Client!Chosen
  <2> QED
    BY <2>3, PicksKept
<1>4. CASE Client!EndFile(b, f)
  <2>1. f \in Picked(b)
    BY <1>4 DEF Client!EndFile, Client!Settled, FilesArePicked
  <2>2. \A a \in Browsers :
          /\ \A g \in Files : \/ pages'[a].status[g] = pages[a].status[g]
                              \/ a = b /\ g = f /\ pages'[a].status[g] \in {"failed", "done"}
          /\ pages'[a].failed \subseteq pages[a].failed \cup (IF a = b THEN {f} ELSE {})
          /\ pages'[a].todo = pages[a].todo
          /\ pages'[a].active \subseteq pages[a].active
    <3> DEFINE p == [pages[b] EXCEPT !.active = @ \ {f}]
    <3>1. p \in Client!Page /\ p.status = pages[b].status /\ p.failed = pages[b].failed
          /\ p.todo = pages[b].todo /\ p.active = pages[b].active \ {f}
      BY <1>0 DEF Client!Page
    <3>2. \/ pages' = [pages EXCEPT ![b] = p]
          \/ pages' = [pages EXCEPT ![b] = [p EXCEPT !.status[f] = "failed",
                                                     !.failed = @ \cup {f}]]
          \/ pages' = [pages EXCEPT ![b] = [p EXCEPT !.status[f] = "done"]]
      BY <1>4 DEF Client!EndFile
    <3> DEFINE q == [p EXCEPT !.status[f] = "failed", !.failed = @ \cup {f}]
               r == [p EXCEPT !.status[f] = "done"]
    <3> HIDE DEF p
    <3>3. /\ \A g \in Files : \/ q.status[g] = p.status[g]
                              \/ g = f /\ q.status[g] = "failed"
          /\ q.failed = p.failed \cup {f} /\ q.todo = p.todo /\ q.active = p.active
      BY <3>1 DEF Client!Page
    <3>4. /\ \A g \in Files : \/ r.status[g] = p.status[g]
                              \/ g = f /\ r.status[g] = "done"
          /\ r.failed = p.failed /\ r.todo = p.todo /\ r.active = p.active
      BY <3>1 DEF Client!Page
    <3>5. \/ pages' = [pages EXCEPT ![b] = p]
          \/ pages' = [pages EXCEPT ![b] = q]
          \/ pages' = [pages EXCEPT ![b] = r]
      BY <3>2
    <3> HIDE DEF q, r
    <3> QED
      BY <3>1, <3>3, <3>4, <3>5 DEF Client!PageTypeOK
  <2>3. \A a \in Browsers :
          /\ \A g \in Files : pages'[a].status[g] # None <=> pages[a].status[g] # None
          /\ pages'[a].failed \cup pages'[a].todo \cup pages'[a].active \subseteq Picked(a)
    BY <2>1, <2>2, NoneIsNoMark DEF FilesArePicked, Picked, Client!Chosen
  <2> QED
    BY <2>3, PicksKept
<1>5. CASE Client!NextRound(b, f) \/ Client!EndCall(b) \/ Client!Finalized(b)
  <2>1. \A a \in Browsers : /\ pages'[a].status = pages[a].status
                            /\ pages'[a].failed = pages[a].failed
                            /\ pages'[a].todo = pages[a].todo
                            /\ pages'[a].active = pages[a].active
    <3>1. CASE Client!NextRound(b, f)
      BY <1>0, <3>1 DEF Client!NextRound, Client!Page, Client!PageTypeOK
    <3>2. CASE Client!EndCall(b)
      <4> DEFINE x == IF \E g \in Files : pages[b].status[g] \in Client!Chosen \ {"done"}
                      THEN "over" ELSE "finalizing"
                 y == \/ pages[b].retry
                      \/ \E g \in Files : pages[b].status[g] = "paused"
                      \/ \E g \in Files : pages[b].status[g] = "failed"
      <4>1. pages' = [pages EXCEPT ![b].phase = x, ![b].retry = y]
        BY <3>2 DEF Client!EndCall
      <4> HIDE DEF x, y
      <4> QED
        BY <1>0, <4>1 DEF Client!Page, Client!PageTypeOK
    <3>3. CASE Client!Finalized(b)
      BY <1>0, <3>3 DEF Client!Finalized, Client!Page, Client!PageTypeOK
    <3> QED
      BY <1>5, <3>1, <3>2, <3>3
  <2> QED
    BY <2>1, PicksKept DEF FilesArePicked
<1> QED
  BY <1>1, <1>2, <1>3, <1>4, <1>5

-----------------------------------------------------------------------------
(* The session of a page *)

\* A page that has files to send, or that is past its first check, has a session.
SidsAreSet ==
  \A b \in Browsers : pages[b].sid = None =>
    pages[b].phase = "idle" /\ pages[b].todo = {} /\ pages[b].active = {}

\* What a pause and a disconnection leave alone
LEMMA StoppedRest ==
  ASSUME NEW p \in Client!Page, NEW mark \in Client!Chosen
  PROVE  LET q == Client!Stopped(p, mark)
         IN  /\ q \in Client!Page
             /\ q.sid = p.sid /\ q.phase = p.phase /\ q.todo = p.todo /\ q.active = p.active
<1> DEFINE hit == {f \in Files : p.status[f] \in {"uploading", "pending"}}
           x == [f \in Files |-> IF f \in hit THEN mark ELSE p.status[f]]
           y == p.failed \cup hit
<1>1. Client!Stopped(p, mark) = [p EXCEPT !.on = FALSE, !.status = x, !.failed = y]
  BY DEF Client!Stopped, Client!Page
<1>2. Client!Stopped(p, mark) \in Client!Page
  BY StoppedType
<1> HIDE DEF x, y
<1> QED
  BY <1>1, <1>2 DEF Client!Page

\* The reply of a check names a session.
LEMMA CheckSetsSid ==
  ASSUME SidsAreSet, Client!PageTypeOK, NEW b \in Browsers, NEW S \in SUBSET Files,
         NEW sid \in Sids, NEW existing, NEW have,
         Client!Start(b, S, sid, existing, have) \/ Client!Retry(b, sid, existing, have)
  PROVE  SidsAreSet'
<1> SUFFICES ASSUME NEW q \in Client!Page, NEW p, q.sid = sid, p.sid = q.sid,
                    pages' = [pages EXCEPT ![b] = p]
             PROVE  SidsAreSet'
  <2>1. CASE Client!Start(b, S, sid, existing, have)
    <3> DEFINE q == Client!Checked(Client!NewPage, b, S, sid, existing, have)
               p == [q EXCEPT !.on = TRUE]
    <3>1. q \in Client!Page
      BY NewPageType, CheckedType
    <3>2. q.sid = sid
      BY NewPageType DEF Client!Checked, Client!Page
    <3>3. pages' = [pages EXCEPT ![b] = p]
      BY <2>1 DEF Client!Start
    <3> HIDE DEF q
    <3>4. p.sid = q.sid
      BY <3>1 DEF Client!Page
    <3> HIDE DEF p
    <3> QED
      BY <3>1, <3>2, <3>3, <3>4
  <2>2. CASE Client!Retry(b, sid, existing, have)
    <3> DEFINE q == Client!Checked(pages[b], b, pages[b].failed, sid, existing, have)
               p == [q EXCEPT !.retry = FALSE]
    <3>0. pages[b] \in Client!Page /\ pages[b].failed \in SUBSET Files
      BY DEF Client!PageTypeOK, Client!Page
    <3>1. q \in Client!Page
      BY <3>0, CheckedType
    <3>2. q.sid = sid
      BY <3>0 DEF Client!Checked, Client!Page
    <3>3. pages' = [pages EXCEPT ![b] = p]
      BY <2>2 DEF Client!Retry
    <3> HIDE DEF q
    <3>4. p.sid = q.sid
      BY <3>1 DEF Client!Page
    <3> HIDE DEF p
    <3> QED
      BY <3>1, <3>2, <3>3, <3>4
  <2> QED
    BY <2>1, <2>2
<1>1. sid # None
  BY NoneAssumption
<1> QED
  BY <1>1 DEF SidsAreSet, Client!PageTypeOK

\* Every other step of the script keeps the session it has.
LEMMA SidsKept ==
  ASSUME SidsAreSet, Client!PageTypeOK, NEW b \in Browsers, NEW f \in Files,
         NEW i, NEW c,
         \/ Client!Send(b, f, i, c) \/ Client!Skipped(b, f, i)
         \/ Client!Refused(b, f, i) \/ Client!Rejected(b, f, i)
         \/ Client!Answered(c) \/ Client!Failed(c)
         \/ Client!TakeFile(b, f) \/ Client!NextRound(b, f) \/ Client!EndFile(b, f)
         \/ Client!EndCall(b) \/ Client!Finalized(b) \/ Client!PauseUpload(b)
         \/ Client!Disconnected(b) \/ Client!Reload(b)
  PROVE  SidsAreSet'
<1>0. \A a \in Browsers : pages[a] \in Client!Page
  BY DEF Client!PageTypeOK
<1> SUFFICES ASSUME ~Client!Reload(b)
             PROVE  \A a \in Browsers :
                      /\ pages'[a].sid = pages[a].sid
                      /\ pages'[a].phase = pages[a].phase \/ pages[a].phase # "idle"
                      /\ pages'[a].todo \subseteq pages[a].todo
                      /\ pages'[a].active \subseteq pages[a].active \cup pages[a].todo
  <2>1. CASE Client!Reload(b)
    BY <2>1 DEF Client!Reload, Client!NewPage, SidsAreSet, Client!PageTypeOK
  <2> QED
    BY <2>1 DEF SidsAreSet
<1>1. CASE Client!Send(b, f, i, c) \/ Client!Skipped(b, f, i)
  <2>1. pages' = [pages EXCEPT ![b].left[f] = @ \ {i}]
    BY <1>1 DEF Client!Send, Client!Skipped
  <2> QED
    BY <1>0, <2>1 DEF Client!Page, Client!PageTypeOK
<1>2. CASE Client!Rejected(b, f, i)
  BY <1>0, <1>2 DEF Client!Rejected, Client!Page, Client!PageTypeOK
<1>3. CASE Client!Answered(c)
  BY <1>3 DEF Client!Answered
<1>4. CASE Client!Failed(c)
  BY <1>0, <1>4 DEF Client!Failed, Client!Page, Client!PageTypeOK
<1>5. CASE Client!Refused(b, f, i)
  <2> DEFINE q == Client!Stopped(pages[b], "paused")
             p == [q EXCEPT !.left[f] = {}, !.active = @ \ {f}, !.retry = TRUE]
  <2>1. pages' = [pages EXCEPT ![b] = p]
    BY <1>5 DEF Client!Refused
  <2>2. /\ q \in Client!Page /\ q.sid = pages[b].sid /\ q.phase = pages[b].phase
        /\ q.todo = pages[b].todo /\ q.active = pages[b].active
    BY <1>0, StoppedRest DEF Client!Chosen
  <2> HIDE DEF q
  <2>3. /\ p.sid = q.sid /\ p.phase = q.phase /\ p.todo = q.todo /\ p.active \subseteq q.active
    BY <2>2 DEF Client!Page
  <2> HIDE DEF p
  <2> QED
    BY <2>1, <2>2, <2>3 DEF Client!PageTypeOK
<1>6. CASE Client!PauseUpload(b) \/ Client!Disconnected(b)
  <2>1. PICK mark \in Client!Chosen :
          pages' = [pages EXCEPT ![b] = [Client!Stopped(pages[b], mark) EXCEPT !.retry = TRUE]]
    BY <1>6 DEF Client!PauseUpload, Client!Disconnected, Client!Chosen
  <2> DEFINE q == Client!Stopped(pages[b], mark)
             p == [q EXCEPT !.retry = TRUE]
  <2>2. /\ q \in Client!Page /\ q.sid = pages[b].sid /\ q.phase = pages[b].phase
        /\ q.todo = pages[b].todo /\ q.active = pages[b].active
    BY <1>0, StoppedRest
  <2>3. pages' = [pages EXCEPT ![b] = p]
    BY <2>1
  <2> HIDE DEF q
  <2>4. p.sid = q.sid /\ p.phase = q.phase /\ p.todo = q.todo /\ p.active = q.active
    BY <2>2 DEF Client!Page
  <2> HIDE DEF p
  <2> QED
    BY <2>2, <2>3, <2>4 DEF Client!PageTypeOK
<1>7. CASE Client!TakeFile(b, f)
  BY <1>0, <1>7 DEF Client!TakeFile, Client!Page, Client!PageTypeOK
<1>8. CASE Client!NextRound(b, f)
  BY <1>0, <1>8 DEF Client!NextRound, Client!Page, Client!PageTypeOK
<1>9. CASE Client!EndFile(b, f)
  <2> DEFINE p == [pages[b] EXCEPT !.active = @ \ {f}]
             q == [p EXCEPT !.status[f] = "failed", !.failed = @ \cup {f}]
             r == [p EXCEPT !.status[f] = "done"]
  <2>1. /\ p \in Client!Page /\ p.sid = pages[b].sid /\ p.phase = pages[b].phase
        /\ p.todo = pages[b].todo /\ p.active \subseteq pages[b].active
    BY <1>0 DEF Client!Page
  <2>2. \/ pages' = [pages EXCEPT ![b] = p]
        \/ pages' = [pages EXCEPT ![b] = q]
        \/ pages' = [pages EXCEPT ![b] = r]
    BY <1>9 DEF Client!EndFile
  <2> HIDE DEF p
  <2>3. /\ q.sid = p.sid /\ q.phase = p.phase /\ q.todo = p.todo /\ q.active = p.active
        /\ r.sid = p.sid /\ r.phase = p.phase /\ r.todo = p.todo /\ r.active = p.active
    BY <2>1 DEF Client!Page
  <2> HIDE DEF q, r
  <2> QED
    BY <2>1, <2>2, <2>3 DEF Client!PageTypeOK
<1>10. CASE Client!EndCall(b)
  <2> DEFINE x == IF \E g \in Files : pages[b].status[g] \in Client!Chosen \ {"done"}
                  THEN "over" ELSE "finalizing"
             y == \/ pages[b].retry
                  \/ \E g \in Files : pages[b].status[g] = "paused"
                  \/ \E g \in Files : pages[b].status[g] = "failed"
  <2>1. pages' = [pages EXCEPT ![b].phase = x, ![b].retry = y] /\ pages[b].phase = "run"
    BY <1>10 DEF Client!EndCall
  <2> HIDE DEF x, y
  <2> QED
    BY <1>0, <2>1 DEF Client!Page, Client!PageTypeOK
<1>11. CASE Client!Finalized(b)
  BY <1>0, <1>11 DEF Client!Finalized, Client!Page, Client!PageTypeOK
<1> QED
  BY <1>1, <1>2, <1>3, <1>4, <1>5, <1>6, <1>7, <1>8, <1>9, <1>10, <1>11

-----------------------------------------------------------------------------
(* The system *)

\* The pages, with what they know of the server
PageInv == Client!PageTypeOK /\ FilesArePicked /\ SidsAreSet

SystemInv == TypeInv /\ PageInv /\ mail \subseteq Browsers

\* A check that a page makes is a check of the server, and leaves a page.
LEMMA PageChecks ==
  ASSUME SystemInv, NEW b \in Browsers, StartUpload(b) \/ RetryFailed(b)
  PROVE  Check /\ PageInv'
<1> USE DEF SystemInv, PageInv
<1>1. PICK S \in Selections, s0 \in Sids, t0 \in Tasks, t \in Tasks :
        /\ UploadCheck(S, Lengths(b, S), s0, t0, t)
        /\ \/ /\ S \in Picks[b]
              /\ Client!Start(b, S, ChosenSid(S, Lengths(b, S), s0), Existing(b, S), Have(b, S))
           \/ /\ S = pages[b].failed
              /\ Client!Retry(b, ChosenSid(S, Lengths(b, S), s0), Existing(b, S), Have(b, S))
  <2>1. CASE StartUpload(b)
    BY <2>1, PickIsSelection DEF StartUpload
  <2>2. CASE RetryFailed(b)
    <3>1. PICK s0 \in Sids, t0 \in Tasks, t \in Tasks :
            /\ UploadCheck(pages[b].failed, Lengths(b, pages[b].failed), s0, t0, t)
            /\ Client!Retry(b, ChosenSid(pages[b].failed, Lengths(b, pages[b].failed), s0),
                            Existing(b, pages[b].failed), Have(b, pages[b].failed))
      BY <2>2 DEF RetryFailed
    <3>2. pages[b].failed \in Selections
      BY <3>1, RetrySelection DEF Client!Retry
    <3> QED
      BY <3>1, <3>2
  <2> QED
    BY <2>1, <2>2
<1> DEFINE size == Lengths(b, S)
           sid == ChosenSid(S, size, s0)
           existing == Existing(b, S)
           have == Have(b, S)
<1>2. S \in SUBSET Files
  BY ConstantsAssumption
<1>3. size \in [S -> Sizes]
  BY <1>2, LengthsType
<1>4. sid \in Sids
  BY <1>3, ChosenSidType DEF TypeInv
<1>5. existing \in SUBSET S
  BY DEF Existing
<1>6. Check
  BY <1>1, <1>3 DEF Check
<1> HIDE DEF size, sid, existing, have
<1>7. \/ S \in Picks[b] /\ Client!Start(b, S, sid, existing, have)
      \/ S = pages[b].failed /\ Client!Retry(b, sid, existing, have)
  BY <1>1 DEF size, sid, existing, have
<1>8. Client!Start(b, S, sid, existing, have) \/ Client!Retry(b, sid, existing, have)
  BY <1>7
<1>9. Client!PageTypeOK'
  BY <1>2, <1>4, <1>8, StartType
<1>10. FilesArePicked'
  BY <1>2, <1>4, <1>5, <1>7, CheckKeepsPicks
<1>11. SidsAreSet'
  BY <1>2, <1>4, <1>8, CheckSetsSid
<1> QED
  BY <1>6, <1>9, <1>10, <1>11

\* So are the chunks that a page sends and the upload that it finalizes; the
\* answers leave a page.
LEMMA PageRequests ==
  ASSUME SystemInv, NEW b \in Browsers, NEW f \in Files, NEW i \in Index,
         SendChunk(b, f, i) \/ FinalizeUpload(b)
  PROVE  [Upload \/ Finalize]_vars /\ PageInv'
<1> USE DEF SystemInv, PageInv
<1>1. CASE SendChunk(b, f, i)
  <2>1. pages[b].sid \in Sids
    BY <1>1 DEF SendChunk, Client!Due, SidsAreSet, Client!PageTypeOK, Client!Page
  <2>2. \/ \E c \in Conns : BeginChunk(c, pages[b].sid, f, i, Content[b]) /\ Client!Send(b, f, i, c)
        \/ UNCHANGED vars /\ (\/ Client!Refused(b, f, i) \/ Client!Skipped(b, f, i)
                              \/ Client!Rejected(b, f, i))
    BY <1>1 DEF SendChunk
  <2>3. CASE \E c \in Conns :
               BeginChunk(c, pages[b].sid, f, i, Content[b]) /\ Client!Send(b, f, i, c)
    <3>1. PICK c \in Conns :
            BeginChunk(c, pages[b].sid, f, i, Content[b]) /\ Client!Send(b, f, i, c)
      BY <2>3
    <3>2. Upload
      BY <2>1, <3>1, SystemAssumption DEF Upload
    <3> QED
      BY <3>1, <3>2, ChunkStepType, RequestPicks, SidsKept
  <2>4. CASE UNCHANGED vars /\ (\/ Client!Refused(b, f, i) \/ Client!Skipped(b, f, i)
                                \/ Client!Rejected(b, f, i))
    <3>1. Client!PageTypeOK'
      BY <2>4, ChunkStepType
    <3>2. FilesArePicked' /\ SidsAreSet'
      BY <2>4, RequestPicks, SidsKept
    <3> QED
      BY <2>4, <3>1, <3>2
  <2> QED
    BY <2>2, <2>3, <2>4
<1>2. CASE FinalizeUpload(b)
  <2>1. pages[b].sid \in Sids
    BY <1>2 DEF FinalizeUpload, SidsAreSet, Client!PageTypeOK, Client!Page
  <2>2. [Finalize]_vars
    BY <1>2, <2>1 DEF FinalizeUpload, Finalize
  <2>3. Client!Finalized(b)
    BY <1>2 DEF FinalizeUpload
  <2>4. Client!PageTypeOK' /\ FilesArePicked' /\ SidsAreSet'
    BY <2>3, OwnStepType, OwnStepPicks, SidsKept
  <2> QED
    BY <2>2, <2>4
<1> QED
  BY <1>1, <1>2

\* What the pages have is left as it is.
LEMMA PagesUnchanged ==
  ASSUME PageInv, UNCHANGED <<pages, wire>>
  PROVE  PageInv'
BY DEF PageInv, Client!PageTypeOK, FilesArePicked, Picked, SidsAreSet

\* The blocks and the answers of a connection
LEMMA ConnectionSteps ==
  ASSUME SystemInv, NEW c \in Conns,
         ReceiveData(c) \/ AnswerChunk(c) \/ LoseConnection(c) \/ ConnectionGone(c)
  PROVE  [Upload]_vars /\ PageInv'
<1> USE DEF SystemInv, PageInv
<1>1. [Upload]_vars
  BY DEF ReceiveData, AnswerChunk, LoseConnection, ConnectionGone, Upload
<1>2. \/ UNCHANGED <<pages, wire>>
      \/ Client!Answered(c) \/ Client!Failed(c)
  BY DEF ReceiveData, AnswerChunk, LoseConnection, ConnectionGone
<1>3. CASE UNCHANGED <<pages, wire>>
  BY <1>1, <1>3, PagesUnchanged
<1>4. CASE Client!Answered(c) \/ Client!Failed(c)
  <2>1. Client!PageTypeOK'
    BY <1>4, AnswerType
  <2>2. PICK b \in Browsers, f \in Files : TRUE
    BY <1>4, ConstantsAssumption DEF Client!Answered, Client!Failed, Client!PageTypeOK,
                                     Client!Request
  <2>3. FilesArePicked' /\ SidsAreSet'
    BY <1>4, <2>2, RequestPicks, SidsKept
  <2> QED
    BY <1>1, <2>1, <2>3
<1> QED
  BY <1>2, <1>3, <1>4

\* What happens to a page without a request
LEMMA OwnSteps ==
  ASSUME SystemInv, NEW b \in Browsers,
         PageStep(b) \/ PauseMessage(b) \/ DisconnectPage(b) \/ ReloadPage(b)
  PROVE  UNCHANGED vars /\ PageInv' /\ mail' \subseteq Browsers
<1> USE DEF SystemInv, PageInv
<1>1. UNCHANGED vars /\ mail' \subseteq Browsers
  BY DEF PageStep, PauseMessage, DisconnectPage, ReloadPage
<1>2. PICK f \in Files :
        \/ Client!TakeFile(b, f) \/ Client!NextRound(b, f) \/ Client!EndFile(b, f)
        \/ Client!EndCall(b) \/ Client!PauseUpload(b)
        \/ Client!Disconnected(b) \/ Client!Reload(b)
  BY ConstantsAssumption DEF PageStep, PauseMessage, DisconnectPage, ReloadPage
<1>3. Client!PageTypeOK' /\ FilesArePicked' /\ SidsAreSet'
  BY <1>2, OwnStepType, OwnStepPicks, SidsKept
<1> QED
  BY <1>1, <1>3

\* The transfer list, the application and its restarts
LEMMA ApplicationSteps ==
  ASSUME SystemInv, (\E t \in Tasks : UserStep(t)) \/ ServerStep \/ RestartStep
  PROVE  Next /\ PageInv' /\ mail' \subseteq Browsers
<1>1. UNCHANGED <<pages, wire>>
  BY DEF UserStep, ServerStep, RestartStep
<1>2. PageInv'
  BY <1>1, PagesUnchanged DEF SystemInv
<1>3. CASE \E t \in Tasks : UserStep(t)
  <2>1. Control \/ Timers
    BY <1>3 DEF UserStep, Control, Timers
  <2>2. mail' \subseteq Browsers
    BY <1>3 DEF UserStep, Subscribers, SystemInv
  <2> QED
    BY <1>2, <2>1, <2>2 DEF Next
<1>4. CASE ServerStep
  BY <1>2, <1>4 DEF ServerStep, SystemInv, Next, Timers
<1>5. CASE RestartStep
  <2>1. Restarts
    BY <1>5 DEF RestartStep, Restarts
  <2> QED
    BY <1>2, <1>5, <2>1 DEF RestartStep, Next
<1> QED
  BY <1>3, <1>4, <1>5

\* The pages start unloaded, with nothing selected.
LEMMA InitSystemInv == SystemInit => SystemInv
<1> SUFFICES ASSUME SystemInit PROVE SystemInv
  OBVIOUS
<1>1. TypeInv
  BY InitType DEF SystemInit
<1>2. pages = [b \in Browsers |-> Client!NewPage] /\ wire = [c \in Conns |-> None]
  BY DEF SystemInit, Client!PageInit
<1>3. Client!PageTypeOK
  BY <1>2, NewPageType DEF Client!PageTypeOK
<1>4. FilesArePicked /\ SidsAreSet
  BY <1>2 DEF FilesArePicked, Picked, SidsAreSet, Client!NewPage
<1> QED
  BY <1>1, <1>3, <1>4 DEF SystemInv, PageInv, SystemInit

\* Every step of the system is a step of the server, or leaves it alone.
LEMMA SystemSteps ==
  ASSUME SystemInv, [SystemNext]_sysVars
  PROVE  [Next]_vars /\ SystemInv'
<1> SUFFICES [Next]_vars /\ PageInv' /\ mail' \subseteq Browsers
  BY NextType DEF SystemInv
<1>1. CASE UNCHANGED sysVars
  BY <1>1, PagesUnchanged DEF sysVars, SystemInv
<1>2. ASSUME NEW b \in Browsers, StartUpload(b) \/ RetryFailed(b)
      PROVE  [Next]_vars /\ PageInv' /\ mail' \subseteq Browsers
  BY <1>2, PageChecks DEF SystemInv, Next, StartUpload, RetryFailed
<1>3. ASSUME NEW b \in Browsers,
             FinalizeUpload(b) \/ \E f \in Files, i \in Index : SendChunk(b, f, i)
      PROVE  [Next]_vars /\ PageInv' /\ mail' \subseteq Browsers
  <2>1. mail' = mail
    BY <1>3 DEF FinalizeUpload, SendChunk
  <2>2. PICK f \in Files, i \in Index : FinalizeUpload(b) \/ SendChunk(b, f, i)
    <3>1. Files # {} /\ Index # {}
      <4>1. PICK n \in Sizes : n \in Nat \ {0}
        BY ConstantsAssumption
      <4>2. 0 \in 0 .. n - 1
        BY <4>1
      <4> QED
        BY <4>2, ConstantsAssumption DEF Index
    <3> QED
      BY <1>3, <3>1
  <2>3. [Upload \/ Finalize]_vars /\ PageInv'
    BY <2>2, PageRequests
  <2> QED
    BY <2>1, <2>3 DEF SystemInv, Next
<1>4. ASSUME NEW b \in Browsers,
             PageStep(b) \/ PauseMessage(b) \/ DisconnectPage(b) \/ ReloadPage(b)
      PROVE  [Next]_vars /\ PageInv' /\ mail' \subseteq Browsers
  BY <1>4, OwnSteps
<1>5. ASSUME NEW c \in Conns,
             ReceiveData(c) \/ AnswerChunk(c) \/ LoseConnection(c) \/ ConnectionGone(c)
      PROVE  [Next]_vars /\ PageInv' /\ mail' \subseteq Browsers
  <2>1. mail' = mail
    BY <1>5 DEF ReceiveData, AnswerChunk, LoseConnection, ConnectionGone
  <2> QED
    BY <1>5, <2>1, ConnectionSteps DEF SystemInv, Next
<1>6. CASE (\E t \in Tasks : UserStep(t)) \/ ServerStep \/ RestartStep
  BY <1>6, ApplicationSteps
<1> QED
  BY <1>1, <1>2, <1>3, <1>4, <1>5, <1>6 DEF SystemNext

\* The system keeps the invariant on which its other theorems rest.
LEMMA SystemInvariant == SystemSpec => []SystemInv
<1>1. SystemInv /\ [SystemNext]_sysVars => SystemInv'
  BY SystemSteps
<1> QED
  BY <1>1, InitSystemInv, PTL DEF SystemSpec

\* The types of pages, requests and messages: whatever the order of answers,
\* pauses, disconnections, reloads and restarts, the script of receive.html
\* stays in the states that its variables are meant for.
THEOREM SystemTypes == SystemSpec => []SystemTypeOK
<1>1. SystemInv => SystemTypeOK
  BY DEF SystemInv, PageInv, SystemTypeOK
<1> QED
  BY <1>1, SystemInvariant, PTL

\* The pages use the server as UploadServer describes it: every request that the
\* scripts make, also a retry after any interruption, is one that the server's
\* specification has, so that what is proved of the server holds with the pages.
THEOREM PagesUseServer == SystemSpec => Spec
<1>1. SystemInit => Init
  BY DEF SystemInit
<1>2. SystemInv /\ [SystemNext]_sysVars => [Next]_vars
  BY SystemSteps
<1> QED
  BY <1>1, <1>2, SystemInvariant, PTL DEF SystemSpec, Spec

-----------------------------------------------------------------------------
(* The transfer list *)

Unfinished(t) == tasks[t] # None /\ tasks[t].status \in {"Uploading", "Paused"}

\* A step after which every unfinished task was one before, with the same name,
\* keeps OneTaskPerName.
LEMMA NamesKept ==
  ASSUME OneTaskPerName,
         \A t \in Tasks : Unfinished(t)' => Unfinished(t) /\ tasks'[t].name = tasks[t].name
  PROVE  OneTaskPerName'
BY DEF OneTaskPerName, Unfinished

\* pauseTask and resumeTask, for a task that is not finished
LEMMA SetTaskNames ==
  ASSUME TypeOK, OneTaskPerName, NEW t \in Tasks, Unfinished(t),
         NEW taskStatus, NEW logStatus, SetTask(t, taskStatus, logStatus)
  PROVE  OneTaskPerName'
<1>1. tasks' = [tasks EXCEPT ![t].status = taskStatus]
  BY NoneAssumption DEF Unfinished, SetTask
<1>2. \A u \in Tasks : tasks[u] # None => tasks[u] \in Task
  BY DEF TypeOK
<1>3. \A u \in Tasks :
        /\ tasks'[u].name = tasks[u].name
        /\ Unfinished(u)' => Unfinished(u)
  BY <1>1, <1>2 DEF TypeOK, Task, Unfinished
<1> QED
  BY <1>3, NamesKept

\* A check adopts the paused task of its name, or it replaces every unfinished one.
LEMMA CheckNames ==
  ASSUME TypeOK, OneTaskPerName, Check
  PROVE  OneTaskPerName'
<1>1. PICK S \in Selections, t \in Tasks : AdoptTask(t, S) \/ NewTask(t, S)
  BY DEF Check, UploadCheck
<1>2. CASE AdoptTask(t, S)
  BY <1>2, SetTaskNames DEF AdoptTask, PausedTasks, EngineResume, Unfinished
<1>3. CASE NewTask(t, S)
  <2> DEFINE names == {TaskName(S)} \cup {<<"file", f>> : f \in S}
  <2>1. tasks' = [WithoutUnfinished(names)
                    EXCEPT ![t] = [name |-> TaskName(S), status |-> "Uploading"]]
    BY <1>3 DEF NewTask
  <2>2. TaskName(S) \in names
    OBVIOUS
  <2> HIDE DEF names
  <2>3. /\ tasks'[t].name = TaskName(S)
        /\ \A u \in Tasks \ {t} : tasks'[u] = WithoutUnfinished(names)[u]
    BY <2>1 DEF WithoutUnfinished
  <2>4. \A u \in Tasks \ {t} : Unfinished(u)' =>
          Unfinished(u) /\ tasks'[u] = tasks[u] /\ tasks[u].name # TaskName(S)
    BY <2>2, <2>3 DEF WithoutUnfinished, Unfinished
  <2> QED
    BY <2>3, <2>4 DEF OneTaskPerName, Unfinished
<1> QED
  BY <1>1, <1>2, <1>3

\* A start restores one task per name: of the log entries of a name only the
\* first, and of the state files only those whose name has no log entry.
LEMMA RestartNames ==
  ASSUME NEW l, NEW Old, NEW Torn, Restart(l, Old, Torn)
  PROVE  OneTaskPerName'
<1> DEFINE st == StateWithout(Old \cup Torn)
<1>1. PICK R \in RestoredFrom(l) : tasks' = RestoredTasks(R, l, st)
  BY DEF Restart
<1> DEFINE listed(t) == {f \in Files : /\ st[f] # None
                                       /\ st[f].task = t
                                       /\ \A u \in R : l[u].name # <<"file", f>>}
           last(F) == CHOOSE f \in F : \A g \in F : g <= f
<1> HIDE DEF st
<1>2. \A t \in Tasks : listed(t) # {} => last(listed(t)) \in listed(t)
  BY FilesAreOrdered
<1>3. \A t \in Tasks : tasks'[t] =
        IF listed(t) # {} THEN [name |-> <<"file", last(listed(t))>>, status |-> "Paused"]
        ELSE IF t \in R
        THEN [name   |-> l[t].name,
              status |-> IF l[t].status = "Paused" THEN "Paused" ELSE "Uploading"]
        ELSE None
  BY <1>1 DEF RestoredTasks
<1>4. \A t \in Tasks : listed(t) # {} =>
        /\ st[last(listed(t))].task = t
        /\ \A u \in R : l[u].name # <<"file", last(listed(t))>>
  BY <1>2
<1> HIDE DEF last, listed
<1>5. \A t \in Tasks : tasks'[t] # None =>
        \/ listed(t) # {} /\ tasks'[t].name = <<"file", last(listed(t))>>
        \/ t \in R /\ tasks'[t].name = l[t].name
  <2> SUFFICES ASSUME NEW t \in Tasks, tasks'[t] # None
               PROVE  \/ listed(t) # {} /\ tasks'[t].name = <<"file", last(listed(t))>>
                      \/ t \in R /\ tasks'[t].name = l[t].name
    OBVIOUS
  <2>1. CASE listed(t) # {}
    <3>1. tasks'[t] = [name |-> <<"file", last(listed(t))>>, status |-> "Paused"]
      BY <1>3, <2>1
    <3> QED
      BY <2>1, <3>1
  <2>2. CASE listed(t) = {}
    <3> DEFINE x == IF l[t].status = "Paused" THEN "Paused" ELSE "Uploading"
    <3>1. tasks'[t] = IF t \in R THEN [name |-> l[t].name, status |-> x] ELSE None
      BY <1>3, <2>2
    <3> HIDE DEF x
    <3> QED
      BY <3>1
  <2> QED
    BY <2>1, <2>2
<1>6. \A t, u \in R : l[t].name = l[u].name => t = u
  BY <1>1 DEF RestoredFrom
<1> SUFFICES ASSUME NEW t \in Tasks, NEW u \in Tasks, tasks'[t] # None, tasks'[u] # None,
                    tasks'[t].name = tasks'[u].name
             PROVE  t = u
  BY DEF OneTaskPerName
<1>7. \/ listed(t) # {} /\ tasks'[t].name = <<"file", last(listed(t))>>
      \/ t \in R /\ tasks'[t].name = l[t].name
  BY <1>5
<1>8. \/ listed(u) # {} /\ tasks'[u].name = <<"file", last(listed(u))>>
      \/ u \in R /\ tasks'[u].name = l[u].name
  BY <1>5
<1>9. ASSUME listed(t) # {}, tasks'[t].name = <<"file", last(listed(t))>>,
             listed(u) # {}, tasks'[u].name = <<"file", last(listed(u))>>
      PROVE  t = u
  <2>1. <<"file", last(listed(t))>> = <<"file", last(listed(u))>>
    BY <1>9
  <2>2. last(listed(t)) = last(listed(u))
    BY <2>1
  <2> QED
    BY <1>4, <1>9, <2>2
<1> QED
  BY <1>4, <1>6, <1>7, <1>8, <1>9

\* The other steps of the system
LEMMA OtherNames ==
  ASSUME TypeOK, OneTaskPerName,
         \/ Finalize \/ Publish \/ Upload
         \/ \E s \in Sids : ExpireSession(s)
         \/ \E t \in Tasks : PauseTask(t) \/ ResumeTask(t) \/ DeleteTask(t) \/ AutoPause(t)
  PROVE  OneTaskPerName'
<1>0. \A u \in Tasks : tasks[u] # None => tasks[u] \in Task
  BY DEF TypeOK
<1>1. CASE UNCHANGED tasks
  BY <1>1 DEF OneTaskPerName
<1>2. CASE Finalize \/ Upload \/ \E w \in Merges : MergeStep(w)
  BY <1>1, <1>2 DEF Finalize, UploadFinalize, Upload, BeginChunk, ReceiveBlock, EndChunk,
                    MergeStep, OpenMerged, CopyMerged, EndMerge
<1>3. CASE FinalizeReady
  <2>1. \E t : tasks' = IF t # None /\ tasks[t] # None
                        THEN [tasks EXCEPT ![t].status = "Completed"] ELSE tasks
    BY <1>3 DEF FinalizeReady
  <2>2. \A u \in Tasks : Unfinished(u)' => tasks'[u] = tasks[u]
    BY <1>0, <2>1 DEF TypeOK, Task, Unfinished
  <2> QED
    BY <2>2, NamesKept DEF Unfinished
<1>4. CASE \E s \in Sids : ExpireSession(s)
  <2>1. \E t : tasks' = IF t # None /\ tasks[t] # None
                        THEN [tasks EXCEPT ![t].status = "Failed"] ELSE tasks
    BY <1>4 DEF ExpireSession, Discard, EngineFail
  <2>2. \A u \in Tasks : Unfinished(u)' => tasks'[u] = tasks[u]
    BY <1>0, <2>1 DEF TypeOK, Task, Unfinished
  <2> QED
    BY <2>2, NamesKept DEF Unfinished
<1>5. CASE \E t \in Tasks : PauseTask(t) \/ ResumeTask(t) \/ AutoPause(t)
  <2>1. PICK t \in Tasks : PauseTask(t) \/ ResumeTask(t) \/ AutoPause(t)
    BY <1>5
  <2>2. Unfinished(t)
    BY <2>1 DEF PauseTask, ResumeTask, AutoPause, Unfinished
  <2>3. SetTask(t, "Paused", "Paused") \/ SetTask(t, "Uploading", "Started")
    BY <2>1 DEF PauseTask, ResumeTask, AutoPause, EnginePause, EngineResume
  <2> QED
    BY <2>2, <2>3, SetTaskNames
<1>6. CASE \E t \in Tasks : DeleteTask(t)
  <2>1. \A u \in Tasks : tasks'[u] # None => tasks'[u] = tasks[u]
    BY <1>6 DEF DeleteTask
  <2> QED
    BY <2>1, NamesKept DEF Unfinished
<1> QED
  BY <1>2, <1>3, <1>4, <1>5, <1>6 DEF Publish

\* The steps that the server takes in the system: no page aborts, pauses or
\* resumes an upload.
LEMMA KindsOfSystemSteps ==
  ASSUME SystemInv, [SystemNext]_sysVars
  PROVE  \/ Check \/ Finalize \/ Publish \/ Upload \/ RestartStep
         \/ \E s \in Sids : ExpireSession(s)
         \/ \E t \in Tasks : PauseTask(t) \/ ResumeTask(t) \/ DeleteTask(t) \/ AutoPause(t)
         \/ UNCHANGED vars
<1>1. ASSUME NEW b \in Browsers, StartUpload(b) \/ RetryFailed(b)
      PROVE  Check
  BY <1>1, PageChecks
<1>2. ASSUME NEW b \in Browsers, NEW f \in Files, NEW i \in Index,
             FinalizeUpload(b) \/ SendChunk(b, f, i)
      PROVE  [Upload \/ Finalize]_vars
  BY <1>2, PageRequests
<1>3. ASSUME NEW b \in Browsers, FinalizeUpload(b)
      PROVE  [Upload \/ Finalize]_vars
  <2>1. pages[b].sid \in Sids
    BY <1>3 DEF FinalizeUpload, SystemInv, PageInv, SidsAreSet, Client!PageTypeOK, Client!Page
  <2> QED
    BY <1>3, <2>1 DEF FinalizeUpload, Finalize
<1>4. ASSUME NEW b \in Browsers,
             PageStep(b) \/ PauseMessage(b) \/ DisconnectPage(b) \/ ReloadPage(b)
      PROVE  UNCHANGED vars
  BY <1>4 DEF PageStep, PauseMessage, DisconnectPage, ReloadPage
<1>5. ASSUME NEW c \in Conns,
             ReceiveData(c) \/ AnswerChunk(c) \/ LoseConnection(c) \/ ConnectionGone(c)
      PROVE  [Upload]_vars
  BY <1>5 DEF ReceiveData, AnswerChunk, LoseConnection, ConnectionGone, Upload
<1> QED
  BY <1>1, <1>2, <1>3, <1>4, <1>5 DEF SystemNext, UserStep, ServerStep, sysVars

\* No two tasks of the transfer list are unfinished uploads of the same name,
\* with any number of pages, whatever is paused, deleted, expired or restarted.
\* (handleUploadCheck adopts a paused task or removes the unfinished ones, and
\* initialize restores one task per name.)
THEOREM OneTaskEach == SystemSpec => []OneTaskPerName
<1>1. SystemInit => OneTaskPerName
  BY DEF SystemInit, Init, OneTaskPerName
<1>2. ASSUME SystemInv, OneTaskPerName, [SystemNext]_sysVars
      PROVE  OneTaskPerName'
  <2>0. TypeOK
    BY <1>2 DEF SystemInv, TypeInv
  <2>1. CASE Check
    BY <1>2, <2>0, <2>1, CheckNames
  <2>2. CASE RestartStep
    BY <2>2, RestartNames DEF RestartStep, Shutdown, Crash
  <2>3. CASE UNCHANGED vars
    BY <1>2, <2>3 DEF vars, OneTaskPerName
  <2>4. CASE \/ Finalize \/ Publish \/ Upload
             \/ \E s \in Sids : ExpireSession(s)
             \/ \E t \in Tasks : PauseTask(t) \/ ResumeTask(t) \/ DeleteTask(t) \/ AutoPause(t)
    BY <1>2, <2>0, <2>4, OtherNames
  <2> QED
    BY <1>2, <2>1, <2>2, <2>3, <2>4, KindsOfSystemSteps
<1> QED
  BY <1>1, <1>2, SystemInvariant, PTL DEF SystemSpec

-----------------------------------------------------------------------------
(* What is sent is stored: the invariant *)

\* One page, whose selections are single files, and none of the events that take
\* away what it sent: its connections break only after the body has arrived,
\* and nobody deletes tasks, lets sessions expire or stops the application.
OnePage == Browsers # {} /\ \A a, b \in Browsers : a = b
GentleEvents == {"lost", "reload", "disconnect", "pause", "inactive"}
Undisturbed == OnePage /\ SingleFileChecks /\ Events \subseteq GentleEvents

\* The script: a page that was not interrupted has no files to do unless it runs,
\* what is done has not failed, and with a page that finalizes all is done.
SoundScript(p) ==
  /\ p.phase = "idle" => \A f \in Files : p.status[f] = None
  /\ p.on /\ p.phase # "run" => p.todo = {} /\ p.active = {}
  /\ p.on => /\ p.todo \cap p.active = {}
             /\ p.failed \cap (p.todo \cup p.active) = {}
  /\ \A f \in p.failed : p.status[f] # "done"
  /\ p.phase \in {"finalizing", "sent"} => \A f \in Files : p.status[f] \in {"done", None}

ScriptInv == \A b \in Browsers : SoundScript(pages[b])

\* The requests: each is for another chunk, that is not due again, and while the
\* page was not interrupted it is for the session of the page.
WiresInv ==
  \A c \in Conns : wire[c] # None =>
    LET r == wire[c]
        p == pages[r.page]
    IN  /\ conns[c] # None /\ conns[c].file = r.file /\ conns[c].index = r.index
        /\ p.phase # "idle"
        /\ p.on => conns[c].sid = p.sid /\ r.file \in p.active
        /\ r.file \in p.active => r.index \notin p.left[r.file]
        /\ \A d \in Conns : wire[d] # None /\ wire[d].file = r.file /\ wire[d].index = r.index =>
             d = c

\* The bodies: a request that the server still receives is waited for, and no
\* other request writes the same chunk file.
BodiesInv ==
  \A c \in Conns : conns[c] # None =>
    /\ \A b \in Browsers : conns[c].data = Content[b]
    /\ conns[c].received < Blocks =>
         /\ wire[c] # None
         /\ store[conns[c].sid][conns[c].file][conns[c].index].len = conns[c].received

\* The chunk files have the content of the page's files.
WrittenInv ==
  \A s \in Sids, f \in Files, i \in Index, b \in Browsers : HasChunk(s, f, i) =>
    \A k \in 1 .. store[s][f][i].len : store[s][f][i].blocks[k] = Content[b]

\* The lists of completed chunks, in the sessions and in the state files, are of
\* files of the right size, equal, and name whole chunks only.
ListsInv ==
  /\ \A s \in Sids, f \in Files : Live(s) /\ sessions[s].files[f] # None =>
       /\ \A b \in Browsers : sessions[s].files[f].size = Length[b][f]
       /\ \A i \in sessions[s].files[f].done :
            i < sessions[s].files[f].size /\ HasSize(s, f, i, Blocks)
  /\ \A f \in Files : state[f] # None =>
       /\ \A b \in Browsers : state[f].size = Length[b][f]
       /\ state[f].done = sessions[state[f].dir].files[f].done

\* The state file of an upload names the directory to which its requests go.
DirsInv ==
  /\ \A c \in Conns : conns[c] # None /\ Live(conns[c].sid) =>
       state[conns[c].file] # None /\ state[conns[c].file].dir = conns[c].sid
  /\ \A b \in Browsers, f \in Files :
       pages[b].sid # None /\ Live(pages[b].sid) /\ sessions[pages[b].sid].files[f] # None =>
         state[f] # None /\ state[f].dir = pages[b].sid

\* Whatever the page does not have to send any more is completed in its session,
\* failed or on its way; what is done is completed, or was stored before.
AtWork == {"run", "over", "finalizing"}
Chunks(b, f) == 0 .. Length[b][f] - 1
Entry(b, f)  == sessions[pages[b].sid].files[f]

Underway(b) ==
  LET p == pages[b]
  IN  \A f \in p.todo \cup p.active :
        /\ Entry(b, f) # None
        /\ Chunks(b, f) \subseteq p.left[f] \cup Entry(b, f).done \cup
             (IF f \in p.active THEN p.bad[f] \cup Client!InFlight(b, f) ELSE {})

Accounted(b) ==
  \A f \in Files :
    /\ Entry(b, f) # None => f \in Picked(b)
    /\ pages[b].status[f] = "done" =>
         IF Entry(b, f) = None THEN final[f] # None ELSE Chunks(b, f) \subseteq Entry(b, f).done

ProgressInv ==
  \A b \in Browsers :
    /\ pages[b].phase \in AtWork => Live(pages[b].sid) /\ Accounted(b)
    /\ pages[b].on => Underway(b)

\* There is one merge, after the page has sent; it has all chunks of its files.
\* Every file of the upload directory that it does not write is as it should be.
ToMerge(f) == \E w \in Merges : jobs[w] # None /\ jobs[w].todo[f] > 0

MergersInv ==
  /\ \A b \in Browsers : pages[b].phase # "sent" => Idle
  /\ \A v, w \in Merges : jobs[v] # None /\ jobs[w] # None => v = w
  /\ \A w \in Merges : jobs[w] # None =>
       /\ jobs[w].file # None => jobs[w].todo[jobs[w].file] > 0
       /\ \A f \in Files : jobs[w].todo[f] > 0 =>
            /\ jobs[w].sid # None /\ Whole(jobs[w].sid, f, jobs[w].todo[f])
            /\ \A b \in Browsers : jobs[w].todo[f] = Length[b][f]
  /\ \A f \in Files, b \in Browsers :
       /\ final[f] # None =>
            ToMerge(f) \/ final[f] = [size |-> Length[b][f], data |-> Content[b]]
       /\ pages[b].phase = "sent" /\ f \in Picked(b) => ToMerge(f) \/ final[f] # None

\* The task of an upload ends completed only after its file is there.
IsTaskOf(t, f) == t # None /\ tasks[t] # None /\ tasks[t].name = <<"file", f>>

TasksInv ==
  /\ \A b \in Browsers, f \in Files :
       pages[b].phase \in AtWork /\ IsTaskOf(sessions[pages[b].sid].task, f) => f \in Picked(b)
  /\ \A t \in Tasks, f \in Files : IsTaskOf(t, f) =>
       /\ tasks[t].status = "Completed" => final[f] # None
       /\ \A w \in Merges : jobs[w] # None /\ jobs[w].task = t =>
            final[f] # None \/ jobs[w].todo[f] > 0
       /\ \A k \in 1 .. Len(ready) : ready[k].task = t => final[f] # None

StoredInv ==
  /\ ScriptInv /\ WiresInv /\ BodiesInv /\ WrittenInv /\ ListsInv /\ DirsInv
  /\ ProgressInv /\ MergersInv /\ TasksInv

-----------------------------------------------------------------------------
(* What the steps of the page do *)

\* The fields that the requests and their answers leave alone
SameScript(b) ==
  /\ pages'[b].phase = pages[b].phase /\ pages'[b].sid = pages[b].sid
  /\ pages'[b].on = pages[b].on /\ pages'[b].status = pages[b].status
  /\ pages'[b].failed = pages[b].failed /\ pages'[b].todo = pages[b].todo
  /\ pages'[b].active = pages[b].active

\* A chunk is sent, or the server has it: it is not due any more.
LEMMA SendEffect ==
  ASSUME Client!PageTypeOK, NEW b \in Browsers, NEW f \in Files, NEW i, NEW c,
         Client!Send(b, f, i, c) \/ Client!Skipped(b, f, i)
  PROVE  /\ SameScript(b)
         /\ pages'[b].bad = pages[b].bad
         /\ pages'[b].left[f] = pages[b].left[f] \ {i}
         /\ \A g \in Files : g # f => pages'[b].left[g] = pages[b].left[g]
<1>1. pages[b] \in Client!Page
  BY DEF Client!PageTypeOK
<1>2. pages' = [pages EXCEPT ![b].left[f] = @ \ {i}]
  BY DEF Client!Send, Client!Skipped
<1> QED
  BY <1>1, <1>2 DEF Client!Page, Client!PageTypeOK, SameScript

\* The server answers 400 at once: the chunk counts as failed.
LEMMA RejectedEffect ==
  ASSUME Client!PageTypeOK, NEW b \in Browsers, NEW f \in Files, NEW i,
         Client!Rejected(b, f, i)
  PROVE  /\ SameScript(b)
         /\ pages'[b].left[f] = pages[b].left[f] \ {i}
         /\ pages'[b].bad[f] = pages[b].bad[f] \cup {i}
         /\ \A g \in Files : g # f => /\ pages'[b].left[g] = pages[b].left[g]
                                      /\ pages'[b].bad[g] = pages[b].bad[g]
<1>1. pages[b] \in Client!Page
  BY DEF Client!PageTypeOK
<1> DEFINE p == [pages[b] EXCEPT !.left[f] = @ \ {i}]
<1>2. /\ p.phase = pages[b].phase /\ p.sid = pages[b].sid /\ p.on = pages[b].on
      /\ p.status = pages[b].status /\ p.failed = pages[b].failed /\ p.todo = pages[b].todo
      /\ p.active = pages[b].active /\ p.bad = pages[b].bad
      /\ p.left = [pages[b].left EXCEPT ![f] = @ \ {i}]
      /\ p = [pages[b] EXCEPT !.left = [pages[b].left EXCEPT ![f] = @ \ {i}]]
  BY <1>1 DEF Client!Page
<1>3. pages' = [pages EXCEPT ![b] = [p EXCEPT !.bad[f] = @ \cup {i}]]
  BY <1>1 DEF Client!Rejected, Client!Page, Client!PageTypeOK
<1>4. p \in Client!Page
  <2>1. [pages[b].left EXCEPT ![f] = @ \ {i}] \in [Files -> SUBSET Index]
    BY <1>1 DEF Client!Page
  <2> QED
    BY <1>1, <1>2, <2>1 DEF Client!Page
<1> HIDE DEF p
<1>5. /\ pages'[b].phase = p.phase /\ pages'[b].sid = p.sid /\ pages'[b].on = p.on
      /\ pages'[b].status = p.status /\ pages'[b].failed = p.failed /\ pages'[b].todo = p.todo
      /\ pages'[b].active = p.active /\ pages'[b].left = p.left
      /\ pages'[b].bad = [p.bad EXCEPT ![f] = @ \cup {i}]
  BY <1>3, <1>4 DEF Client!Page, Client!PageTypeOK
<1> QED
  BY <1>1, <1>2, <1>5 DEF Client!Page, SameScript

\* An answer or a network error: at most the chunk of that request counts as failed.
LEMMA AnswerEffect ==
  ASSUME Client!PageTypeOK, NEW c \in Conns, Client!Answered(c) \/ Client!Failed(c),
         NEW b \in Browsers
  PROVE  /\ SameScript(b)
         /\ pages'[b].left = pages[b].left
         /\ \A g \in Files : /\ pages[b].bad[g] \subseteq pages'[b].bad[g]
                             /\ \/ pages'[b].bad[g] = pages[b].bad[g]
                                \/ g \in pages[b].active
         /\ wire'[c] = None /\ \A d \in Conns : d # c => wire'[d] = wire[d]
         /\ Client!Failed(c) /\ wire[c].page = b /\ wire[c].file \in pages[b].active =>
              wire[c].index \in pages'[b].bad[wire[c].file]
<1>1. pages[b] \in Client!Page
  BY DEF Client!PageTypeOK
<1>2. wire' = [wire EXCEPT ![c] = None]
  BY DEF Client!Answered, Client!Failed
<1>3. wire'[c] = None /\ \A d \in Conns : d # c => wire'[d] = wire[d]
  BY <1>2 DEF Client!PageTypeOK
<1>4. CASE pages'[b] = pages[b] /\ ~Client!Failed(c)
  BY <1>3, <1>4 DEF SameScript
<1>5. CASE Client!Failed(c)
  <2> DEFINE x == IF wire[c].file \in pages[wire[c].page].active
                  THEN pages[wire[c].page].bad[wire[c].file] \cup {wire[c].index}
                  ELSE pages[wire[c].page].bad[wire[c].file]
  <2>1. wire[c] \in Client!Request
    BY <1>5 DEF Client!Failed, Client!PageTypeOK
  <2>2. wire[c].page \in Browsers /\ wire[c].file \in Files
    BY <2>1 DEF Client!Request
  <2>3. pages' = [pages EXCEPT ![wire[c].page].bad[wire[c].file] = x]
    BY <1>5, <2>2 DEF Client!Failed, Client!PageTypeOK, Client!Page
  <2>4. CASE wire[c].page # b
    <3>1. pages'[b] = pages[b]
      BY <2>3, <2>4 DEF Client!PageTypeOK
    <3> QED
      BY <1>3, <2>4, <3>1 DEF SameScript
  <2>5. CASE wire[c].page = b
    <3> DEFINE h == wire[c].file
    <3>1. /\ SameScript(b)
          /\ pages'[b].left = pages[b].left
          /\ pages'[b].bad = [pages[b].bad EXCEPT ![h] = x]
      <4> HIDE DEF x
      <4> QED
        BY <1>1, <2>2, <2>3, <2>5 DEF Client!Page, Client!PageTypeOK, SameScript
    <3>2. pages'[b].bad[h] = x /\ \A g \in Files : g # h => pages'[b].bad[g] = pages[b].bad[g]
      <4> HIDE DEF x
      <4> QED
        BY <1>1, <2>2, <3>1 DEF Client!Page
    <3> QED
      BY <1>3, <2>5, <3>1, <3>2
  <2> QED
    BY <2>4, <2>5
<1> QED
  BY <1>4, <1>5 DEF Client!Answered

\* A pause, a disconnection and a refused chunk stop the script.
Interrupted(b) ==
  /\ pages'[b].phase = pages[b].phase /\ pages'[b].sid = pages[b].sid
  /\ pages'[b].on = FALSE
  /\ pages'[b].todo = pages[b].todo /\ pages'[b].active \subseteq pages[b].active
  /\ \A g \in Files :
       /\ pages'[b].left[g] \subseteq pages[b].left[g]
       /\ \/ pages'[b].status[g] = pages[b].status[g]
          \/ /\ pages[b].status[g] \in {"uploading", "pending"}
             /\ pages'[b].status[g] \in {"paused", "failed"}
       /\ g \in pages'[b].failed =>
            g \in pages[b].failed \/ pages[b].status[g] \in {"uploading", "pending"}

\* What markAllActiveAsPaused and markAllActiveAsFailed make of page p
StopsAs(p, q) ==
  /\ q \in Client!Page
  /\ q.phase = p.phase /\ q.sid = p.sid /\ q.on = FALSE
  /\ q.todo = p.todo /\ q.active = p.active /\ q.left = p.left
  /\ \A g \in Files :
       /\ \/ q.status[g] = p.status[g]
          \/ p.status[g] \in {"uploading", "pending"} /\ q.status[g] \in {"paused", "failed"}
       /\ g \in q.failed => g \in p.failed \/ p.status[g] \in {"uploading", "pending"}

\* markAllActiveAsPaused and markAllActiveAsFailed
LEMMA StoppedEffect ==
  ASSUME NEW p \in Client!Page, NEW mark \in {"paused", "failed"}
  PROVE  StopsAs(p, Client!Stopped(p, mark))
<1> DEFINE hit == {f \in Files : p.status[f] \in {"uploading", "pending"}}
           x == [f \in Files |-> IF f \in hit THEN mark ELSE p.status[f]]
           y == p.failed \cup hit
<1>1. Client!Stopped(p, mark) = [p EXCEPT !.on = FALSE, !.status = x, !.failed = y]
  BY DEF Client!Stopped, Client!Page
<1>2. Client!Stopped(p, mark) \in Client!Page
  BY StoppedType DEF Client!Chosen
<1>3. \A g \in Files :
        /\ \/ x[g] = p.status[g]
           \/ p.status[g] \in {"uploading", "pending"} /\ x[g] = mark
        /\ g \in y => g \in p.failed \/ p.status[g] \in {"uploading", "pending"}
  <2> TAKE g \in Files
  <2>1. x[g] = IF p.status[g] \in {"uploading", "pending"} THEN mark ELSE p.status[g]
    OBVIOUS
  <2>2. g \in y => g \in p.failed \/ p.status[g] \in {"uploading", "pending"}
    OBVIOUS
  <2> QED
    BY <2>1, <2>2
<1> HIDE DEF x, y
<1> QED
  BY <1>1, <1>2, <1>3 DEF Client!Page, StopsAs

\* A pause, a disconnection and the answer 409 interrupt the script.
LEMMA InterruptEffect ==
  ASSUME Client!PageTypeOK, NEW b \in Browsers, NEW f \in Files, NEW i,
         Client!PauseUpload(b) \/ Client!Disconnected(b) \/ Client!Refused(b, f, i)
  PROVE  Interrupted(b) /\ wire' = wire
<1>0. pages[b] \in Client!Page
  BY DEF Client!PageTypeOK
<1>1. PICK mark \in {"paused", "failed"} :
        \/ pages' = [pages EXCEPT ![b] = [Client!Stopped(pages[b], mark) EXCEPT !.retry = TRUE]]
        \/ pages' = [pages EXCEPT ![b] = [Client!Stopped(pages[b], mark) EXCEPT
                       !.left[f] = {}, !.active = @ \ {f}, !.retry = TRUE]]
  BY DEF Client!PauseUpload, Client!Disconnected, Client!Refused
<1> DEFINE q == Client!Stopped(pages[b], mark)
           r == [q EXCEPT !.retry = TRUE]
           u == [q EXCEPT !.left[f] = {}, !.active = @ \ {f}, !.retry = TRUE]
<1>2. StopsAs(pages[b], q)
  BY <1>0, StoppedEffect
<1>3. q \in Client!Page
  BY <1>2 DEF StopsAs
<1>4. pages' = [pages EXCEPT ![b] = r] \/ pages' = [pages EXCEPT ![b] = u]
  BY <1>1
<1> HIDE DEF q
<1>5. /\ r.phase = q.phase /\ r.sid = q.sid /\ r.on = q.on /\ r.todo = q.todo
      /\ r.active = q.active /\ r.left = q.left /\ r.status = q.status /\ r.failed = q.failed
  BY <1>3 DEF Client!Page
<1>6. /\ u.phase = q.phase /\ u.sid = q.sid /\ u.on = q.on /\ u.todo = q.todo
      /\ u.active = q.active \ {f} /\ u.status = q.status /\ u.failed = q.failed
      /\ \A g \in Files : u.left[g] \subseteq q.left[g]
  BY <1>3 DEF Client!Page
<1> HIDE DEF r, u
<1>7. pages'[b] = r \/ pages'[b] = u
  BY <1>4 DEF Client!PageTypeOK
<1>8. wire' = wire
  BY DEF Client!PauseUpload, Client!Disconnected, Client!Refused
<1>9. CASE pages'[b] = r
  BY <1>2, <1>5, <1>8, <1>9 DEF Interrupted, StopsAs
<1>10. CASE pages'[b] = u
  BY <1>2, <1>6, <1>8, <1>10 DEF Interrupted, StopsAs
<1> QED
  BY <1>7, <1>9, <1>10

\* A worker of uploadConcurrent takes a file.
LEMMA TakeFileEffect ==
  ASSUME Client!PageTypeOK, NEW b \in Browsers, NEW f \in Files, Client!TakeFile(b, f)
  PROVE  /\ wire' = wire
         /\ pages[b].phase = "run" /\ pages[b].on /\ f \in pages[b].todo
         /\ pages'[b].phase = pages[b].phase /\ pages'[b].sid = pages[b].sid
         /\ pages'[b].on = pages[b].on /\ pages'[b].failed = pages[b].failed
         /\ pages'[b].todo = pages[b].todo \ {f}
         /\ pages'[b].active = pages[b].active \cup {f}
         /\ pages'[b].left = pages[b].left
         /\ pages'[b].status[f] = "uploading"
         /\ \A g \in Files : g # f => /\ pages'[b].bad[g] = pages[b].bad[g]
                                      /\ pages'[b].status[g] = pages[b].status[g]
<1>0. pages[b] \in Client!Page
  BY DEF Client!PageTypeOK
<1> QED
  BY <1>0 DEF Client!TakeFile, Client!Page, Client!PageTypeOK

\* The failed chunks of a file are due again.
LEMMA NextRoundEffect ==
  ASSUME Client!PageTypeOK, NEW b \in Browsers, NEW f \in Files, Client!NextRound(b, f)
  PROVE  /\ wire' = wire /\ Client!Settled(b, f)
         /\ SameScript(b)
         /\ pages'[b].left[f] = pages[b].bad[f]
         /\ \A g \in Files : g # f => /\ pages'[b].bad[g] = pages[b].bad[g]
                                      /\ pages'[b].left[g] = pages[b].left[g]
<1>0. pages[b] \in Client!Page
  BY DEF Client!PageTypeOK
<1> DEFINE x == pages[b].bad[f]
           y == pages[b].rounds[f] - 1
<1>1. pages' = [pages EXCEPT ![b].left[f] = x, ![b].bad[f] = {}, ![b].rounds[f] = y]
  BY <1>0 DEF Client!NextRound, Client!PageTypeOK, Client!Page
<1>2. wire' = wire /\ Client!Settled(b, f)
  BY DEF Client!NextRound
<1> HIDE DEF x, y
<1>3. /\ SameScript(b)
      /\ pages'[b].left[f] = x
      /\ \A g \in Files : g # f => /\ pages'[b].bad[g] = pages[b].bad[g]
                                   /\ pages'[b].left[g] = pages[b].left[g]
  BY <1>0, <1>1 DEF Client!Page, Client!PageTypeOK, SameScript
<1> QED
  BY <1>2, <1>3 DEF x

\* uploadOne ends: the file is done or failed, if the script still counts it.
LEMMA EndFileEffect ==
  ASSUME Client!PageTypeOK, NEW b \in Browsers, NEW f \in Files, Client!EndFile(b, f)
  PROVE  /\ wire' = wire /\ Client!Settled(b, f)
         /\ pages'[b].phase = pages[b].phase /\ pages'[b].sid = pages[b].sid
         /\ pages'[b].on = pages[b].on /\ pages'[b].todo = pages[b].todo
         /\ pages'[b].active = pages[b].active \ {f}
         /\ pages'[b].left = pages[b].left /\ pages'[b].bad = pages[b].bad
         /\ \A g \in Files : g # f =>
              /\ pages'[b].status[g] = pages[b].status[g]
              /\ g \in pages'[b].failed <=> g \in pages[b].failed
         /\ \/ /\ ~pages[b].on
               /\ pages'[b].status = pages[b].status /\ pages'[b].failed = pages[b].failed
            \/ /\ pages[b].on
               /\ pages'[b].status[f] = "failed"
            \/ /\ pages[b].on /\ pages[b].bad[f] = {}
               /\ pages'[b].status[f] = "done" /\ pages'[b].failed = pages[b].failed
<1>0. pages[b] \in Client!Page
  BY DEF Client!PageTypeOK
<1> DEFINE p == [pages[b] EXCEPT !.active = @ \ {f}]
           q == [p EXCEPT !.status[f] = "failed", !.failed = @ \cup {f}]
           r == [p EXCEPT !.status[f] = "done"]
<1>1. /\ p \in Client!Page /\ p.status = pages[b].status /\ p.failed = pages[b].failed
      /\ p.todo = pages[b].todo /\ p.active = pages[b].active \ {f} /\ p.on = pages[b].on
      /\ p.phase = pages[b].phase /\ p.sid = pages[b].sid /\ p.left = pages[b].left
      /\ p.bad = pages[b].bad
  BY <1>0 DEF Client!Page
<1>2. /\ \/ ~p.on /\ pages' = [pages EXCEPT ![b] = p]
         \/ p.on /\ pages' = [pages EXCEPT ![b] = q]
         \/ p.on /\ pages[b].bad[f] = {} /\ pages' = [pages EXCEPT ![b] = r]
      /\ wire' = wire /\ Client!Settled(b, f)
  BY DEF Client!EndFile
<1> HIDE DEF p
<1>3. /\ \A g \in Files : g # f => q.status[g] = p.status[g]
      /\ q.status[f] = "failed" /\ q.failed = p.failed \cup {f}
      /\ q.todo = p.todo /\ q.active = p.active /\ q.on = p.on /\ q.phase = p.phase
      /\ q.sid = p.sid /\ q.left = p.left /\ q.bad = p.bad
  BY <1>1 DEF Client!Page
<1>4. /\ \A g \in Files : g # f => r.status[g] = p.status[g]
      /\ r.status[f] = "done" /\ r.failed = p.failed
      /\ r.todo = p.todo /\ r.active = p.active /\ r.on = p.on /\ r.phase = p.phase
      /\ r.sid = p.sid /\ r.left = p.left /\ r.bad = p.bad
  BY <1>1 DEF Client!Page
<1> HIDE DEF q, r
<1>5. \/ ~p.on /\ pages'[b] = p
      \/ p.on /\ pages'[b] = q
      \/ p.on /\ pages[b].bad[f] = {} /\ pages'[b] = r
  BY <1>2 DEF Client!PageTypeOK
<1>6. CASE ~p.on /\ pages'[b] = p
  BY <1>1, <1>2, <1>6
<1>7. CASE p.on /\ pages'[b] = q
  BY <1>1, <1>2, <1>3, <1>7
<1>8. CASE p.on /\ pages[b].bad[f] = {} /\ pages'[b] = r
  BY <1>1, <1>2, <1>4, <1>8
<1> QED
  BY <1>5, <1>6, <1>7, <1>8

\* The end of startUpload or retryFailed, and of finalize
LEMMA EndCallEffect ==
  ASSUME Client!PageTypeOK, NEW b \in Browsers, Client!EndCall(b) \/ Client!Finalized(b)
  PROVE  /\ wire' = wire
         /\ pages'[b].sid = pages[b].sid /\ pages'[b].on = pages[b].on
         /\ pages'[b].status = pages[b].status /\ pages'[b].failed = pages[b].failed
         /\ pages'[b].todo = pages[b].todo /\ pages'[b].active = pages[b].active
         /\ pages'[b].left = pages[b].left /\ pages'[b].bad = pages[b].bad
         /\ \/ /\ Client!EndCall(b)
               /\ pages[b].phase = "run" /\ pages'[b].phase \in {"over", "finalizing"}
               /\ pages[b].on => pages[b].todo = {} /\ pages[b].active = {}
               /\ pages'[b].phase = "finalizing" =>
                    \A f \in Files : pages[b].status[f] \in {"done", None}
            \/ /\ Client!Finalized(b)
               /\ pages[b].phase = "finalizing" /\ pages'[b].phase = "sent"
<1>0. pages[b] \in Client!Page
  BY DEF Client!PageTypeOK
<1>1. CASE Client!EndCall(b)
  <2> DEFINE rest == \E g \in Files : pages[b].status[g] \in Client!Chosen \ {"done"}
             x == IF rest THEN "over" ELSE "finalizing"
             y == \/ pages[b].retry
                  \/ \E g \in Files : pages[b].status[g] = "paused"
                  \/ \E g \in Files : pages[b].status[g] = "failed"
  <2>1. /\ pages' = [pages EXCEPT ![b].phase = x, ![b].retry = y] /\ wire' = wire
        /\ pages[b].phase = "run" /\ (pages[b].on => pages[b].todo = {} /\ pages[b].active = {})
    BY <1>1 DEF Client!EndCall
  <2>2. x \in {"over", "finalizing"}
    OBVIOUS
  <2>3. x = "finalizing" => \A f \in Files : pages[b].status[f] \in {"done", None}
    BY <1>0 DEF Client!Page
  <2> HIDE DEF x, y
  <2> QED
    BY <1>0, <1>1, <2>1, <2>2, <2>3 DEF Client!Page, Client!PageTypeOK
<1>2. CASE Client!Finalized(b)
  BY <1>0, <1>2 DEF Client!Finalized, Client!Page, Client!PageTypeOK
<1> QED
  BY <1>1, <1>2

-----------------------------------------------------------------------------
(* The script, after every step but a check *)

\* Where selections are single files, a page has one file.
LEMMA OnePickedFile ==
  ASSUME FilesArePicked, SingleFileChecks, NEW b \in Browsers,
         NEW f \in Picked(b), NEW g \in Picked(b)
  PROVE  f = g
<1>1. PICK S \in Picks[b] : Picked(b) \subseteq S
  BY DEF FilesArePicked
<1>2. PICK h \in Files : S = {h}
  BY PickIsSelection DEF SingleFileChecks
<1> QED
  BY <1>1, <1>2

\* A step that changes only the lists of chunks keeps the script sound.
LEMMA SameScriptSound ==
  ASSUME NEW b \in Browsers, SoundScript(pages[b]), SameScript(b)
  PROVE  SoundScript(pages'[b])
BY DEF SoundScript, SameScript

\* So does an interruption, ...
LEMMA InterruptedSound ==
  ASSUME NEW b \in Browsers, pages[b] \in Client!Page, pages'[b] \in Client!Page,
         SoundScript(pages[b]), Interrupted(b)
  PROVE  SoundScript(pages'[b])
<1>1. pages'[b].phase = "idle" => \A g \in Files : pages'[b].status[g] = None
  BY NoneIsNoMark DEF SoundScript, Interrupted, Client!Chosen
<1>2. ~pages'[b].on
  BY DEF Interrupted
<1>3. \A g \in pages'[b].failed : pages'[b].status[g] # "done"
  <2> TAKE g \in pages'[b].failed
  <2>1. g \in Files
    BY DEF Client!Page
  <2> QED
    BY <2>1 DEF SoundScript, Interrupted
<1>4. pages'[b].phase \in {"finalizing", "sent"} =>
        \A g \in Files : pages'[b].status[g] \in {"done", None}
  BY NoneIsNoMark DEF SoundScript, Interrupted, Client!Chosen
<1> QED
  BY <1>1, <1>2, <1>3, <1>4 DEF SoundScript

\* ... so do the steps that the script takes by itself, ...
LEMMA OwnStepSound ==
  ASSUME Client!PageTypeOK, FilesArePicked, NEW b \in Browsers, NEW f \in Files,
         SoundScript(pages[b]),
         \/ Client!TakeFile(b, f) \/ Client!NextRound(b, f) \/ Client!EndFile(b, f)
         \/ Client!EndCall(b) \/ Client!Finalized(b) \/ Client!PauseUpload(b)
         \/ Client!Disconnected(b) \/ Client!Reload(b)
  PROVE  SoundScript(pages'[b])
<1>0. pages[b] \in Client!Page /\ pages'[b] \in Client!Page
  BY OwnStepType DEF Client!PageTypeOK
<1>1. CASE Client!TakeFile(b, f)
  <2>1. f \notin pages[b].active /\ f \notin pages[b].failed
    BY <1>1, TakeFileEffect DEF SoundScript
  <2> QED
    BY <1>0, <1>1, <2>1, TakeFileEffect DEF SoundScript, Client!Page
<1>2. CASE Client!NextRound(b, f)
  BY <1>2, NextRoundEffect, SameScriptSound
<1>3. CASE Client!EndFile(b, f)
  <2>1. /\ f \in pages[b].active
        /\ pages[b].on => pages[b].phase = "run" /\ f \notin pages[b].failed
    BY <1>3, EndFileEffect DEF SoundScript, Client!Settled
  <2>2. pages[b].phase # "idle"
    BY <2>1, <1>0, NoneIsNoMark DEF SoundScript, FilesArePicked, Picked, Client!Page
  <2> QED
    BY <1>0, <1>3, <2>1, <2>2, EndFileEffect DEF SoundScript, Client!Page
<1>4. CASE Client!EndCall(b) \/ Client!Finalized(b)
  BY <1>0, <1>4, EndCallEffect DEF SoundScript, Client!Page
<1>5. CASE Client!PauseUpload(b) \/ Client!Disconnected(b)
  BY <1>0, <1>5, InterruptEffect, InterruptedSound
<1>6. CASE Client!Reload(b)
  <2>1. pages'[b] = Client!NewPage
    BY <1>6 DEF Client!Reload, Client!PageTypeOK
  <2> QED
    BY <2>1 DEF Client!NewPage, SoundScript
<1> QED
  BY <1>1, <1>2, <1>3, <1>4, <1>5, <1>6

\* ... and so do the requests and their answers.
LEMMA RequestSound ==
  ASSUME Client!PageTypeOK, Client!PageTypeOK', NEW b \in Browsers, NEW f \in Files, NEW i, NEW c,
         SoundScript(pages[b]),
         \/ Client!Send(b, f, i, c) \/ Client!Skipped(b, f, i)
         \/ Client!Refused(b, f, i) \/ Client!Rejected(b, f, i)
         \/ c \in Conns /\ (Client!Answered(c) \/ Client!Failed(c))
  PROVE  SoundScript(pages'[b])
<1>0. pages[b] \in Client!Page /\ pages'[b] \in Client!Page
  BY DEF Client!PageTypeOK
<1>1. CASE Client!Refused(b, f, i)
  BY <1>0, <1>1, InterruptEffect, InterruptedSound
<1>2. CASE ~Client!Refused(b, f, i)
  BY <1>2, SendEffect, RejectedEffect, AnswerEffect, SameScriptSound
<1> QED
  BY <1>1, <1>2

-----------------------------------------------------------------------------
(* What a check does to the page *)

\* The page after the reply of a check of the files S
IsChecked(p, q, b, S, sid, existing, have) ==
  /\ q.phase = "run" /\ q.sid = sid /\ q.failed = {} /\ q.todo = S \ existing
  /\ q.active = p.active
  /\ \A f \in Files :
       /\ q.status[f] = IF f \in existing THEN "done"
                        ELSE IF f \in S THEN "pending" ELSE p.status[f]
       /\ q.left[f] = IF f \in (S \ existing) \ p.active
                      THEN (0 .. Length[b][f] - 1) \ have[f] ELSE p.left[f]

\* The record of a page after the reply of a check
LEMMA CheckedRecord ==
  ASSUME NEW p \in Client!Page, NEW b \in Browsers, NEW S \in SUBSET Files, NEW sid \in Sids,
         NEW existing, NEW have
  PROVE  LET q == Client!Checked(p, b, S, sid, existing, have)
         IN  q \in Client!Page /\ IsChecked(p, q, b, S, sid, existing, have) /\ q.on = p.on
<1> DEFINE x == [f \in Files |-> IF f \in existing THEN "done"
                                 ELSE IF f \in S THEN "pending" ELSE p.status[f]]
           y == [f \in Files |-> IF f \in (S \ existing) \ p.active
                                 THEN (0 .. Length[b][f] - 1) \ have[f] ELSE p.left[f]]
<1>1. Client!Checked(p, b, S, sid, existing, have) =
        [p EXCEPT !.phase = "run", !.sid = sid, !.status = x, !.failed = {},
                  !.todo = S \ existing, !.left = y]
  BY DEF Client!Checked
<1>2. Client!Checked(p, b, S, sid, existing, have) \in Client!Page
  BY CheckedType
<1>3. \A f \in Files :
        /\ x[f] = IF f \in existing THEN "done"
                  ELSE IF f \in S THEN "pending" ELSE p.status[f]
        /\ y[f] = IF f \in (S \ existing) \ p.active
                  THEN (0 .. Length[b][f] - 1) \ have[f] ELSE p.left[f]
  OBVIOUS
<1> HIDE DEF x, y
<1> QED
  BY <1>1, <1>2, <1>3 DEF IsChecked, Client!Page

\* startUpload makes a new record of the page, retryFailed goes on with the old one.
LEMMA CheckEffect ==
  ASSUME Client!PageTypeOK, NEW b \in Browsers, NEW S \in SUBSET Files,
         NEW sid \in Sids, NEW existing, NEW have,
         \/ Client!Start(b, S, sid, existing, have)
         \/ S = pages[b].failed /\ Client!Retry(b, sid, existing, have)
  PROVE  /\ wire' = wire
         /\ \/ /\ pages[b].phase = "idle"
               /\ IsChecked(Client!NewPage, pages'[b], b, S, sid, existing, have)
            \/ /\ S = pages[b].failed /\ S # {}
               /\ IsChecked(pages[b], pages'[b], b, S, sid, existing, have)
               /\ pages'[b].on = pages[b].on
<1>1. CASE Client!Start(b, S, sid, existing, have)
  <2> DEFINE q == Client!Checked(Client!NewPage, b, S, sid, existing, have)
             p == [q EXCEPT !.on = TRUE]
  <2>1. q \in Client!Page /\ IsChecked(Client!NewPage, q, b, S, sid, existing, have)
    BY NewPageType, CheckedRecord
  <2>2. pages' = [pages EXCEPT ![b] = p] /\ wire' = wire /\ pages[b].phase = "idle"
    BY <1>1 DEF Client!Start
  <2> HIDE DEF q
  <2>3. /\ p.phase = q.phase /\ p.sid = q.sid /\ p.failed = q.failed /\ p.todo = q.todo
        /\ p.active = q.active /\ p.status = q.status /\ p.left = q.left
    BY <2>1 DEF Client!Page
  <2> HIDE DEF p
  <2>4. pages'[b] = p
    BY <2>2 DEF Client!PageTypeOK
  <2>5. IsChecked(Client!NewPage, p, b, S, sid, existing, have)
    BY <2>1, <2>3 DEF IsChecked
  <2> QED
    BY <2>2, <2>4, <2>5
<1>2. CASE S = pages[b].failed /\ Client!Retry(b, sid, existing, have)
  <2> DEFINE q == Client!Checked(pages[b], b, S, sid, existing, have)
             p == [q EXCEPT !.retry = FALSE]
  <2>0. pages[b] \in Client!Page
    BY DEF Client!PageTypeOK
  <2>1. q \in Client!Page /\ IsChecked(pages[b], q, b, S, sid, existing, have)
        /\ q.on = pages[b].on
    BY <2>0, CheckedRecord
  <2>2. pages' = [pages EXCEPT ![b] = p] /\ wire' = wire /\ S # {}
    BY <1>2 DEF Client!Retry
  <2> HIDE DEF q
  <2>3. /\ p.phase = q.phase /\ p.sid = q.sid /\ p.failed = q.failed /\ p.todo = q.todo
        /\ p.active = q.active /\ p.status = q.status /\ p.left = q.left /\ p.on = q.on
    BY <2>1 DEF Client!Page
  <2> HIDE DEF p
  <2>4. pages'[b] = p
    BY <2>2 DEF Client!PageTypeOK
  <2>5. IsChecked(pages[b], p, b, S, sid, existing, have)
    BY <2>1, <2>3 DEF IsChecked
  <2> QED
    BY <1>2, <2>1, <2>2, <2>3, <2>4, <2>5
<1> QED
  BY <1>1, <1>2

\* The reply of a check leaves a sound script.
LEMMA CheckSound ==
  ASSUME Client!PageTypeOK, NEW b \in Browsers, NEW S \in SUBSET Files, SoundScript(pages[b]),
         NEW sid \in Sids, NEW existing, NEW have,
         \/ Client!Start(b, S, sid, existing, have)
         \/ S = pages[b].failed /\ Client!Retry(b, sid, existing, have)
  PROVE  SoundScript(pages'[b])
<1>1. CASE /\ pages[b].phase = "idle"
           /\ IsChecked(Client!NewPage, pages'[b], b, S, sid, existing, have)
  BY <1>1 DEF IsChecked, Client!NewPage, SoundScript
<1>2. CASE /\ S = pages[b].failed /\ S # {}
           /\ IsChecked(pages[b], pages'[b], b, S, sid, existing, have)
           /\ pages'[b].on = pages[b].on
  BY <1>2 DEF IsChecked, SoundScript
<1> QED
  BY <1>1, <1>2, CheckEffect

-----------------------------------------------------------------------------
(* Steps that the page takes by itself *)

\* The server does nothing, and the page keeps its session and its files.
LEMMA ServerUnchanged ==
  ASSUME OnePage, NEW b \in Browsers, UNCHANGED vars,
         pages'[b].sid = pages[b].sid,
         \/ pages'[b].phase = pages[b].phase
         \/ pages[b].phase = "run" /\ pages'[b].phase \in {"over", "finalizing"},
         \A f \in Files : pages'[b].status[f] # None <=> pages[b].status[f] # None,
         \A c \in Conns : wire[c] # None /\ conns[c] # None /\ conns[c].received < Blocks =>
           wire'[c] # None,
         BodiesInv, WrittenInv, ListsInv, DirsInv, MergersInv, TasksInv
  PROVE  BodiesInv' /\ WrittenInv' /\ ListsInv' /\ DirsInv' /\ MergersInv' /\ TasksInv'
<1>0. /\ \A a \in Browsers : a = b
      /\ UNCHANGED <<store, final, state, sessions, tasks, conns, jobs, ready>>
  BY DEF OnePage, vars
<1>1. BodiesInv'
  BY <1>0 DEF BodiesInv
<1>2. WrittenInv' /\ ListsInv'
  BY <1>0 DEF WrittenInv, ListsInv, HasChunk, HasSize, Live
<1>3. DirsInv'
  BY <1>0 DEF DirsInv, Live
<1>4. MergersInv'
  BY <1>0 DEF MergersInv, ToMerge, Idle, Whole, HasSize, HasChunk, Picked
<1>5. TasksInv'
  BY <1>0 DEF TasksInv, IsTaskOf, AtWork, Picked
<1> QED
  BY <1>1, <1>2, <1>3, <1>4, <1>5

\* The requests that are left are as they were.
LEMMA WiresKept ==
  ASSUME OnePage, NEW b \in Browsers, Client!PageTypeOK, WiresInv, UNCHANGED conns,
         \A c \in Conns : wire'[c] # None =>
           /\ wire'[c] = wire[c]
           /\ pages'[b].phase # "idle"
           /\ pages'[b].on => /\ pages[b].on /\ pages'[b].sid = pages[b].sid
                              /\ wire[c].file \in pages'[b].active
           /\ wire[c].file \in pages'[b].active =>
                wire[c].index \notin pages'[b].left[wire[c].file]
  PROVE  WiresInv'
<1>1. \A c \in Conns : wire[c] # None => wire[c].page = b
  BY DEF OnePage, Client!PageTypeOK, Client!Request
<1> QED
  BY <1>1 DEF WiresInv

\* What is under way and what is done stay accounted for.
LEMMA ProgressKept ==
  ASSUME OnePage, NEW b \in Browsers, UNCHANGED <<sessions, final>>, ProgressInv,
         pages'[b].sid = pages[b].sid,
         \/ pages'[b].phase = pages[b].phase
         \/ pages[b].phase = "run" /\ pages'[b].phase \in {"over", "finalizing"},
         \A f \in Files :
           /\ pages'[b].status[f] # None <=> pages[b].status[f] # None
           /\ pages'[b].status[f] = "done" =>
                \/ pages[b].status[f] = "done"
                \/ Entry(b, f) # None /\ Chunks(b, f) \subseteq Entry(b, f).done,
         pages'[b].on => Underway(b)'
  PROVE  ProgressInv'
<1>0. \A a \in Browsers : a = b
  BY DEF OnePage
<1>1. ASSUME pages'[b].phase \in AtWork
      PROVE  Live(pages[b].sid)' /\ Accounted(b)'
  <2>1. Live(pages[b].sid) /\ Accounted(b)
    BY <1>1 DEF ProgressInv, AtWork
  <2> QED
    BY <2>1 DEF Live, Accounted, Entry, Picked, Chunks
<1> QED
  BY <1>0, <1>1 DEF ProgressInv

\* A settled file has no request.
LEMMA SettledWires ==
  ASSUME OnePage, Client!PageTypeOK, NEW b \in Browsers, NEW f \in Files, Client!Settled(b, f),
         NEW c \in Conns, wire[c] # None
  PROVE  wire[c].file # f
BY DEF OnePage, Client!PageTypeOK, Client!Request, Client!Settled, Client!InFlight

\* A worker takes a file.
LEMMA TakeFileStored ==
  ASSUME OnePage, SystemInv, StoredInv, NEW b \in Browsers, NEW f \in Files,
         Client!TakeFile(b, f), UNCHANGED vars
  PROVE  WiresInv' /\ ProgressInv'
<1>0. Client!PageTypeOK /\ SoundScript(pages[b]) /\ ProgressInv /\ WiresInv
      /\ pages[b] \in Client!Page
  BY DEF SystemInv, PageInv, StoredInv, ScriptInv, Client!PageTypeOK
<1>1. /\ f \notin pages[b].active /\ f \in pages[b].todo /\ pages[b].on
      /\ pages[b].status[f] # None
  BY <1>0, TakeFileEffect DEF SoundScript, SystemInv, PageInv, FilesArePicked, Picked
<1>2. \A c \in Conns : wire[c] # None => wire[c].page = b /\ wire[c].file \in pages[b].active
  BY <1>0, <1>1 DEF OnePage, Client!PageTypeOK, Client!Request, WiresInv
<1>3. WiresInv'
  <2>1. UNCHANGED conns
    BY DEF vars
  <2>2. ASSUME NEW c \in Conns, wire'[c] # None
        PROVE  /\ wire'[c] = wire[c]
               /\ pages'[b].phase # "idle"
               /\ pages'[b].on => /\ pages[b].on /\ pages'[b].sid = pages[b].sid
                                  /\ wire[c].file \in pages'[b].active
               /\ wire[c].file \in pages'[b].active =>
                    wire[c].index \notin pages'[b].left[wire[c].file]
    BY <1>0, <1>2, <2>2, TakeFileEffect DEF WiresInv
  <2> QED
    BY <1>0, <2>1, <2>2, WiresKept
<1>4. Underway(b)'
  <2>1. Underway(b) /\ UNCHANGED <<sessions, wire>>
    BY <1>0, <1>1, TakeFileEffect DEF ProgressInv, vars
  <2> SUFFICES ASSUME NEW g \in pages'[b].todo \cup pages'[b].active
               PROVE  /\ Entry(b, g)' # None
                      /\ Chunks(b, g) \subseteq pages'[b].left[g] \cup Entry(b, g)'.done \cup
                           (IF g \in pages'[b].active
                            THEN pages'[b].bad[g] \cup Client!InFlight(b, g)' ELSE {})
    BY DEF Underway, Chunks
  <2>2. /\ Entry(b, g)' = Entry(b, g) /\ Client!InFlight(b, g)' = Client!InFlight(b, g)
        /\ g \in pages[b].todo \cup pages[b].active /\ g \in Files
        /\ pages'[b].left = pages[b].left
        /\ g # f => /\ pages'[b].bad[g] = pages[b].bad[g]
                    /\ g \in pages'[b].active <=> g \in pages[b].active
    BY <1>0, <2>1, TakeFileEffect DEF Entry, Client!InFlight, Client!Page
  <2>3. /\ Entry(b, g) # None
        /\ Chunks(b, g) \subseteq pages[b].left[g] \cup Entry(b, g).done \cup
             (IF g \in pages[b].active THEN pages[b].bad[g] \cup Client!InFlight(b, g) ELSE {})
    BY <2>1, <2>2 DEF Underway
  <2> QED
    BY <1>1, <2>2, <2>3
<1>5. ProgressInv'
  <2>1. UNCHANGED <<sessions, final>>
    BY DEF vars
  <2>2. /\ pages'[b].sid = pages[b].sid
        /\ pages'[b].phase = pages[b].phase
        /\ \A g \in Files :
             /\ pages'[b].status[g] # None <=> pages[b].status[g] # None
             /\ pages'[b].status[g] = "done" => pages[b].status[g] = "done"
    BY <1>0, <1>1, NoneIsNoMark, TakeFileEffect DEF Client!Chosen
  <2> QED
    BY <1>0, <1>4, <2>1, <2>2, ProgressKept
<1> QED
  BY <1>3, <1>5

\* The failed chunks of a file are tried again.
LEMMA NextRoundStored ==
  ASSUME OnePage, SystemInv, StoredInv, NEW b \in Browsers, NEW f \in Files,
         Client!NextRound(b, f), UNCHANGED vars
  PROVE  WiresInv' /\ ProgressInv'
<1>0. Client!PageTypeOK /\ ProgressInv /\ WiresInv /\ pages[b] \in Client!Page
  BY DEF SystemInv, PageInv, StoredInv, Client!PageTypeOK
<1>1. \A c \in Conns : wire[c] # None => /\ wire[c].page = b /\ wire[c].file # f
                                         /\ wire[c].file \in Files
  BY <1>0, NextRoundEffect, SettledWires DEF OnePage, Client!PageTypeOK, Client!Request
<1>2. WiresInv'
  <2>1. UNCHANGED conns
    BY DEF vars
  <2>2. ASSUME NEW c \in Conns, wire'[c] # None
        PROVE  /\ wire'[c] = wire[c]
               /\ pages'[b].phase # "idle"
               /\ pages'[b].on => /\ pages[b].on /\ pages'[b].sid = pages[b].sid
                                  /\ wire[c].file \in pages'[b].active
               /\ wire[c].file \in pages'[b].active =>
                    wire[c].index \notin pages'[b].left[wire[c].file]
    BY <1>0, <1>1, <2>2, NextRoundEffect DEF WiresInv, SameScript
  <2> QED
    BY <1>0, <2>1, <2>2, WiresKept
<1>3. ASSUME pages'[b].on
      PROVE  Underway(b)'
  <2>1. Underway(b) /\ UNCHANGED <<sessions, wire>>
    BY <1>0, <1>3, NextRoundEffect DEF ProgressInv, vars, SameScript
  <2> SUFFICES ASSUME NEW g \in pages'[b].todo \cup pages'[b].active
               PROVE  /\ Entry(b, g)' # None
                      /\ Chunks(b, g) \subseteq pages'[b].left[g] \cup Entry(b, g)'.done \cup
                           (IF g \in pages'[b].active
                            THEN pages'[b].bad[g] \cup Client!InFlight(b, g)' ELSE {})
    BY DEF Underway, Chunks
  <2>2. /\ Entry(b, g)' = Entry(b, g) /\ Client!InFlight(b, g)' = Client!InFlight(b, g)
        /\ g \in pages[b].todo \cup pages[b].active /\ g \in Files
        /\ pages'[b].active = pages[b].active
        /\ g # f => /\ pages'[b].bad[g] = pages[b].bad[g]
                    /\ pages'[b].left[g] = pages[b].left[g]
        /\ g = f => /\ pages'[b].left[g] = pages[b].bad[g]
                    /\ pages[b].left[g] = {} /\ Client!InFlight(b, g) = {}
    <3>1. /\ Entry(b, g)' = Entry(b, g) /\ Client!InFlight(b, g)' = Client!InFlight(b, g)
          /\ g \in pages[b].todo \cup pages[b].active /\ g \in Files
          /\ pages'[b].active = pages[b].active
      BY <1>0, <2>1, NextRoundEffect DEF Entry, Client!InFlight, Client!Page, SameScript
    <3>2. pages[b].left[f] = {} /\ Client!InFlight(b, f) = {}
      BY <1>0, NextRoundEffect DEF Client!Settled
    <3> QED
      BY <1>0, <3>1, <3>2, NextRoundEffect
  <2>3. /\ Entry(b, g) # None
        /\ Chunks(b, g) \subseteq pages[b].left[g] \cup Entry(b, g).done \cup
             (IF g \in pages[b].active THEN pages[b].bad[g] \cup Client!InFlight(b, g) ELSE {})
    BY <2>1, <2>2 DEF Underway
  <2> QED
    BY <2>2, <2>3
<1>4. ProgressInv'
  <2>1. UNCHANGED <<sessions, final>>
    BY DEF vars
  <2>2. /\ pages'[b].sid = pages[b].sid
        /\ pages'[b].phase = pages[b].phase
        /\ pages'[b].status = pages[b].status
    BY <1>0, NextRoundEffect DEF SameScript
  <2> QED
    BY <1>0, <1>3, <2>1, <2>2, ProgressKept
<1> QED
  BY <1>2, <1>4

\* A file is done, or has failed.
LEMMA EndFileStored ==
  ASSUME OnePage, SystemInv, StoredInv, NEW b \in Browsers, NEW f \in Files,
         Client!EndFile(b, f), UNCHANGED vars
  PROVE  WiresInv' /\ ProgressInv'
<1>0. Client!PageTypeOK /\ ProgressInv /\ WiresInv /\ pages[b] \in Client!Page
      /\ SoundScript(pages[b]) /\ f \in Picked(b)
  BY EndFileEffect DEF SystemInv, PageInv, StoredInv, Client!PageTypeOK, ScriptInv,
                       FilesArePicked, Client!Settled
<1>1. \A c \in Conns : wire[c] # None => /\ wire[c].page = b /\ wire[c].file # f
                                         /\ wire[c].file \in Files
  BY <1>0, EndFileEffect, SettledWires DEF OnePage, Client!PageTypeOK, Client!Request
<1>2. WiresInv'
  <2>1. UNCHANGED conns
    BY DEF vars
  <2>2. ASSUME NEW c \in Conns, wire'[c] # None
        PROVE  /\ wire'[c] = wire[c]
               /\ pages'[b].phase # "idle"
               /\ pages'[b].on => /\ pages[b].on /\ pages'[b].sid = pages[b].sid
                                  /\ wire[c].file \in pages'[b].active
               /\ wire[c].file \in pages'[b].active =>
                    wire[c].index \notin pages'[b].left[wire[c].file]
    BY <1>0, <1>1, <2>2, EndFileEffect DEF WiresInv
  <2> QED
    BY <1>0, <2>1, <2>2, WiresKept
<1>3. ASSUME pages[b].on
      PROVE  Underway(b) /\ f \in pages[b].active /\ Entry(b, f) # None
             /\ (pages[b].bad[f] = {} => Chunks(b, f) \subseteq Entry(b, f).done)
  <2>1. Underway(b)
    BY <1>0, <1>3 DEF ProgressInv
  <2>2. f \in pages[b].active /\ pages[b].left[f] = {} /\ Client!InFlight(b, f) = {}
    BY <1>0, EndFileEffect DEF Client!Settled
  <2> QED
    BY <2>1, <2>2 DEF Underway
<1>4. ASSUME pages'[b].on
      PROVE  Underway(b)'
  <2>1. Underway(b) /\ UNCHANGED <<sessions, wire>>
    BY <1>0, <1>3, <1>4, EndFileEffect DEF vars
  <2> SUFFICES ASSUME NEW g \in pages'[b].todo \cup pages'[b].active
               PROVE  /\ Entry(b, g)' # None
                      /\ Chunks(b, g) \subseteq pages'[b].left[g] \cup Entry(b, g)'.done \cup
                           (IF g \in pages'[b].active
                            THEN pages'[b].bad[g] \cup Client!InFlight(b, g)' ELSE {})
    BY DEF Underway, Chunks
  <2>2. /\ Entry(b, g)' = Entry(b, g) /\ Client!InFlight(b, g)' = Client!InFlight(b, g)
        /\ g \in pages[b].todo \cup pages[b].active /\ g \in Files
        /\ pages'[b].left = pages[b].left /\ pages'[b].bad = pages[b].bad
        /\ pages'[b].active = pages[b].active \ {f} /\ pages'[b].todo = pages[b].todo
    BY <1>0, <2>1, EndFileEffect DEF Entry, Client!InFlight, Client!Page
  <2>3. g # f
    BY <1>0, <1>3, <1>4, <2>2, EndFileEffect DEF SoundScript
  <2>4. /\ Entry(b, g) # None
        /\ Chunks(b, g) \subseteq pages[b].left[g] \cup Entry(b, g).done \cup
             (IF g \in pages[b].active THEN pages[b].bad[g] \cup Client!InFlight(b, g) ELSE {})
    BY <2>1, <2>2 DEF Underway
  <2> QED
    BY <2>2, <2>3, <2>4
<1>5. ProgressInv'
  <2>1. UNCHANGED <<sessions, final>>
    BY DEF vars
  <2>2. /\ pages'[b].sid = pages[b].sid
        /\ pages'[b].phase = pages[b].phase
        /\ \A g \in Files :
             /\ pages'[b].status[g] # None <=> pages[b].status[g] # None
             /\ pages'[b].status[g] = "done" =>
                  \/ pages[b].status[g] = "done"
                  \/ Entry(b, g) # None /\ Chunks(b, g) \subseteq Entry(b, g).done
    BY <1>0, <1>3, NoneIsNoMark, EndFileEffect DEF Client!Chosen, Picked
  <2> QED
    BY <1>0, <1>4, <2>1, <2>2, ProgressKept
<1> QED
  BY <1>2, <1>5

\* The call comes to its end.
LEMMA EndCallStored ==
  ASSUME OnePage, SystemInv, StoredInv, NEW b \in Browsers,
         Client!EndCall(b), UNCHANGED vars
  PROVE  WiresInv' /\ ProgressInv'
<1>0. Client!PageTypeOK /\ ProgressInv /\ WiresInv /\ pages[b] \in Client!Page
  BY DEF SystemInv, PageInv, StoredInv, Client!PageTypeOK
<1>1. /\ wire' = wire
      /\ pages'[b].sid = pages[b].sid /\ pages'[b].on = pages[b].on
      /\ pages'[b].status = pages[b].status
      /\ pages'[b].todo = pages[b].todo /\ pages'[b].active = pages[b].active
      /\ pages'[b].left = pages[b].left
      /\ pages[b].phase = "run" /\ pages'[b].phase \in {"over", "finalizing"}
      /\ pages[b].on => pages[b].todo = {} /\ pages[b].active = {}
  <2>1. pages[b].phase = "run"
    BY DEF Client!EndCall
  <2> QED
    BY <1>0, <2>1, EndCallEffect
<1>2. WiresInv'
  <2>1. UNCHANGED conns
    BY DEF vars
  <2>2. ASSUME NEW c \in Conns, wire'[c] # None
        PROVE  /\ wire'[c] = wire[c]
               /\ pages'[b].phase # "idle"
               /\ pages'[b].on => /\ pages[b].on /\ pages'[b].sid = pages[b].sid
                                  /\ wire[c].file \in pages'[b].active
               /\ wire[c].file \in pages'[b].active =>
                    wire[c].index \notin pages'[b].left[wire[c].file]
    <3>1. wire[c].page = b
      BY <1>0, <1>1, <2>2 DEF OnePage, Client!PageTypeOK, Client!Request
    <3> QED
      BY <1>0, <1>1, <2>2, <3>1 DEF WiresInv
  <2> QED
    BY <1>0, <2>1, <2>2, WiresKept
<1>3. pages'[b].on => Underway(b)'
  BY <1>1 DEF Underway
<1>4. UNCHANGED <<sessions, final>>
  BY DEF vars
<1>5. ProgressInv'
  BY <1>0, <1>1, <1>3, <1>4, ProgressKept
<1> QED
  BY <1>2, <1>5

\* The script is interrupted.
LEMMA InterruptedStored ==
  ASSUME OnePage, SystemInv, StoredInv, NEW b \in Browsers,
         Interrupted(b), wire' = wire, UNCHANGED vars
  PROVE  WiresInv' /\ ProgressInv'
<1>0. Client!PageTypeOK /\ ProgressInv /\ WiresInv /\ pages[b] \in Client!Page
  BY DEF SystemInv, PageInv, StoredInv, Client!PageTypeOK
<1>1. WiresInv'
  <2>1. UNCHANGED conns
    BY DEF vars
  <2>2. ASSUME NEW c \in Conns, wire'[c] # None
        PROVE  /\ wire'[c] = wire[c]
               /\ pages'[b].phase # "idle"
               /\ pages'[b].on => /\ pages[b].on /\ pages'[b].sid = pages[b].sid
                                  /\ wire[c].file \in pages'[b].active
               /\ wire[c].file \in pages'[b].active =>
                    wire[c].index \notin pages'[b].left[wire[c].file]
    <3>1. wire[c].page = b /\ wire[c].file \in Files
      BY <1>0, <2>2 DEF OnePage, Client!PageTypeOK, Client!Request
    <3> QED
      BY <1>0, <2>2, <3>1 DEF WiresInv, Interrupted
  <2> QED
    BY <1>0, <2>1, <2>2, WiresKept
<1>2. UNCHANGED <<sessions, final>>
  BY DEF vars
<1>3. /\ pages'[b].sid = pages[b].sid
      /\ pages'[b].phase = pages[b].phase
      /\ \A g \in Files :
           /\ pages'[b].status[g] # None <=> pages[b].status[g] # None
           /\ pages'[b].status[g] = "done" => pages[b].status[g] = "done"
      /\ ~pages'[b].on
  BY NoneIsNoMark DEF Client!Chosen, Interrupted
<1>4. ProgressInv'
  BY <1>0, <1>2, <1>3, ProgressKept
<1> QED
  BY <1>1, <1>4

\* A page that is loaded again has no body on its way, and no merge is left.
LEMMA ReloadStored ==
  ASSUME Undisturbed, SystemInv, StoredInv, NEW b \in Browsers, ReloadPage(b)
  PROVE  StoredInv'
<1> USE DEF StoredInv
<1>0. /\ Client!PageTypeOK /\ UNCHANGED vars /\ OnePage
      /\ UNCHANGED <<store, final, state, sessions, tasks, conns, jobs, ready>>
      /\ pages'[b] = Client!NewPage /\ \A a \in Browsers : a = b
  BY DEF SystemInv, PageInv, ReloadPage, Client!Reload, vars, Undisturbed, OnePage,
         Client!PageTypeOK
<1>1. \A c \in Conns : wire'[c] = None
  <2> TAKE c \in Conns
  <2>1. wire[c] # None => wire[c].page = b
    BY <1>0 DEF Client!PageTypeOK, Client!Request
  <2> QED
    BY <2>1 DEF ReloadPage, Client!Reload
<1>2. Idle
  BY DEF ReloadPage, Undisturbed, GentleEvents
<1>3. \A c \in Conns : conns[c] # None => ~(conns[c].received < Blocks)
  <2> SUFFICES ASSUME NEW c \in Conns, conns[c] # None, conns[c].received < Blocks
               PROVE  FALSE
    OBVIOUS
  <2>1. wire[c] # None
    BY DEF BodiesInv
  <2>2. wire[c].page = b
    BY <1>0, <2>1 DEF Client!PageTypeOK, Client!Request
  <2>3. conns[c].received = Blocks
    BY <2>1, <2>2 DEF ReloadPage, Undisturbed, GentleEvents
  <2> QED
    BY <2>3, ConstantsAssumption
<1>4. ScriptInv'
  BY <1>0 DEF ScriptInv, SoundScript, Client!NewPage
<1>5. WiresInv' /\ BodiesInv'
  BY <1>0, <1>1, <1>3 DEF WiresInv, BodiesInv
<1>6. WrittenInv' /\ ListsInv'
  BY <1>0 DEF WrittenInv, ListsInv, HasChunk, HasSize, Live
<1>7. DirsInv'
  BY <1>0 DEF DirsInv, Live, Client!NewPage
<1>8. ProgressInv'
  BY <1>0 DEF ProgressInv, AtWork, Client!NewPage
<1>9. MergersInv'
  <2>1. Idle' /\ \A w \in Merges : jobs'[w] = None
    BY <1>0, <1>2 DEF Idle
  <2>2. \A f \in Files, a \in Browsers : final'[f] # None =>
          final'[f] = [size |-> Length[a][f], data |-> Content[a]]
    <3>1. \A f \in Files : ~ToMerge(f)
      BY <1>2 DEF Idle, ToMerge
    <3> QED
      BY <1>0, <3>1 DEF MergersInv
  <2>3. \A a \in Browsers : pages'[a].phase # "sent"
    BY <1>0 DEF Client!NewPage
  <2> QED
    BY <2>1, <2>2, <2>3 DEF MergersInv
<1>10. TasksInv'
  BY <1>0 DEF TasksInv, IsTaskOf, AtWork, Client!NewPage
<1> QED
  BY <1>4, <1>5, <1>6, <1>7, <1>8, <1>9, <1>10

\* What a page does without a request, and what happens to it
LEMMA OwnStepsStored ==
  ASSUME Undisturbed, SystemInv, StoredInv, NEW b \in Browsers,
         PageStep(b) \/ PauseMessage(b) \/ DisconnectPage(b)
  PROVE  StoredInv'
<1>0. /\ Client!PageTypeOK /\ FilesArePicked /\ SoundScript(pages[b]) /\ UNCHANGED vars
      /\ OnePage /\ pages[b] \in Client!Page
  BY DEF SystemInv, PageInv, StoredInv, ScriptInv, PageStep, PauseMessage, DisconnectPage,
         Undisturbed, Client!PageTypeOK
<1>1. PICK f \in Files :
        \/ Client!TakeFile(b, f) \/ Client!NextRound(b, f) \/ Client!EndFile(b, f)
        \/ Client!EndCall(b) \/ Client!PauseUpload(b) \/ Client!Disconnected(b)
  BY ConstantsAssumption DEF PageStep, PauseMessage, DisconnectPage
<1>2. ScriptInv'
  <2>1. SoundScript(pages'[b])
    BY <1>0, <1>1, OwnStepSound
  <2> QED
    BY <1>0, <2>1 DEF OnePage, ScriptInv
<1>3. WiresInv' /\ ProgressInv'
  <2>1. CASE Client!TakeFile(b, f)
    BY <1>0, <2>1, TakeFileStored
  <2>2. CASE Client!NextRound(b, f)
    BY <1>0, <2>2, NextRoundStored
  <2>3. CASE Client!EndFile(b, f)
    BY <1>0, <2>3, EndFileStored
  <2>4. CASE Client!EndCall(b)
    BY <1>0, <2>4, EndCallStored
  <2>5. CASE Client!PauseUpload(b) \/ Client!Disconnected(b)
    BY <1>0, <2>5, InterruptEffect, InterruptedStored
  <2> QED
    BY <1>1, <2>1, <2>2, <2>3, <2>4, <2>5
<1>4. /\ wire' = wire /\ pages'[b].sid = pages[b].sid
      /\ \/ pages'[b].phase = pages[b].phase
         \/ pages[b].phase = "run" /\ pages'[b].phase \in {"over", "finalizing"}
      /\ \A g \in Files : pages'[b].status[g] # None <=> pages[b].status[g] # None
  <2>1. CASE Client!TakeFile(b, f)
    <3>1. pages[b].status[f] # None
      BY <1>0, <2>1, TakeFileEffect DEF FilesArePicked, Picked
    <3> QED
      BY <1>0, <2>1, <3>1, TakeFileEffect, NoneIsNoMark DEF Client!Chosen
  <2>2. CASE Client!NextRound(b, f)
    BY <1>0, <2>2, NextRoundEffect DEF SameScript
  <2>3. CASE Client!EndFile(b, f)
    <3>1. pages[b].status[f] # None
      BY <1>0, <2>3, EndFileEffect DEF FilesArePicked, Picked, Client!Settled
    <3> QED
      BY <1>0, <2>3, <3>1, EndFileEffect, NoneIsNoMark DEF Client!Chosen
  <2>4. CASE Client!EndCall(b)
    <3>1. pages[b].phase = "run"
      BY <2>4 DEF Client!EndCall
    <3> QED
      BY <1>0, <2>4, <3>1, EndCallEffect
  <2>5. CASE Client!PauseUpload(b) \/ Client!Disconnected(b)
    BY <1>0, <2>5, InterruptEffect, NoneIsNoMark DEF Interrupted, Client!Chosen
  <2> QED
    BY <1>1, <2>1, <2>2, <2>3, <2>4, <2>5
<1>5. BodiesInv' /\ WrittenInv' /\ ListsInv' /\ DirsInv' /\ MergersInv' /\ TasksInv'
  BY <1>0, <1>4, ServerUnchanged DEF StoredInv
<1> QED
  BY <1>2, <1>3, <1>5 DEF StoredInv

-----------------------------------------------------------------------------
(* Answers that leave the server as it is *)

\* Chunks that are not due any more, and requests that are answered, have failed
\* or are on their way, as long as they are not completed.
LEMMA ChunksMoved ==
  ASSUME OnePage, SystemInv, StoredInv, NEW b \in Browsers,
         UNCHANGED <<conns, sessions, final>>, SameScript(b),
         \A c \in Conns : wire'[c] # None => wire'[c] = wire[c],
         \A g \in Files : /\ pages'[b].left[g] \subseteq pages[b].left[g]
                          /\ g \notin pages[b].active => pages'[b].left[g] = pages[b].left[g],
         \A g \in pages[b].active : Entry(b, g) # None =>
           pages[b].left[g] \cup pages[b].bad[g] \cup Client!InFlight(b, g) \subseteq
             pages'[b].left[g] \cup pages'[b].bad[g] \cup Client!InFlight(b, g)'
               \cup Entry(b, g).done
  PROVE  WiresInv' /\ ProgressInv'
<1>0. Client!PageTypeOK /\ ProgressInv /\ WiresInv /\ pages[b] \in Client!Page
  BY DEF SystemInv, PageInv, StoredInv, Client!PageTypeOK
<1>1. WiresInv'
  <2>1. ASSUME NEW c \in Conns, wire'[c] # None
        PROVE  /\ wire'[c] = wire[c]
               /\ pages'[b].phase # "idle"
               /\ pages'[b].on => /\ pages[b].on /\ pages'[b].sid = pages[b].sid
                                  /\ wire[c].file \in pages'[b].active
               /\ wire[c].file \in pages'[b].active =>
                    wire[c].index \notin pages'[b].left[wire[c].file]
    <3>1. wire'[c] = wire[c] /\ wire[c] # None
      BY <2>1
    <3>2. wire[c].page = b /\ wire[c].file \in Files
      BY <1>0, <3>1 DEF OnePage, Client!PageTypeOK, Client!Request
    <3> QED
      BY <1>0, <3>1, <3>2 DEF WiresInv, SameScript
  <2> QED
    BY <1>0, <2>1, WiresKept
<1>2. ASSUME pages'[b].on
      PROVE  Underway(b)'
  <2>1. Underway(b)
    BY <1>0, <1>2 DEF ProgressInv, SameScript
  <2> SUFFICES ASSUME NEW g \in pages'[b].todo \cup pages'[b].active
               PROVE  /\ Entry(b, g)' # None
                      /\ Chunks(b, g) \subseteq pages'[b].left[g] \cup Entry(b, g)'.done \cup
                           (IF g \in pages'[b].active
                            THEN pages'[b].bad[g] \cup Client!InFlight(b, g)' ELSE {})
    BY DEF Underway, Chunks
  <2>2. /\ Entry(b, g)' = Entry(b, g) /\ g \in pages[b].todo \cup pages[b].active
        /\ g \in Files /\ pages'[b].active = pages[b].active
    BY <1>0 DEF Entry, Client!Page, SameScript
  <2>3. /\ Entry(b, g) # None
        /\ Chunks(b, g) \subseteq pages[b].left[g] \cup Entry(b, g).done \cup
             (IF g \in pages[b].active THEN pages[b].bad[g] \cup Client!InFlight(b, g) ELSE {})
    BY <2>1, <2>2 DEF Underway
  <2>4. CASE g \in pages[b].active
    BY <2>2, <2>3, <2>4
  <2>5. CASE g \notin pages[b].active
    BY <2>2, <2>3, <2>5
  <2> QED
    BY <2>4, <2>5
<1>3. ProgressInv'
  <2>1. /\ pages'[b].sid = pages[b].sid
        /\ pages'[b].phase = pages[b].phase
        /\ pages'[b].status = pages[b].status
    BY DEF SameScript
  <2> QED
    BY <1>0, <1>2, <2>1, ProgressKept
<1> QED
  BY <1>1, <1>3

\* The server answers a chunk at once: 409, 200 or 400.
LEMMA AnsweredAtOnce ==
  ASSUME Undisturbed, SystemInv, StoredInv, NEW b \in Browsers, NEW f \in Files,
         NEW i \in Index, UNCHANGED vars,
         \/ Client!Refused(b, f, i)
         \/ Client!Skipped(b, f, i) /\ Has(pages[b].sid, f, i)
         \/ Client!Rejected(b, f, i)
  PROVE  StoredInv'
<1>0. /\ Client!PageTypeOK /\ SoundScript(pages[b]) /\ OnePage /\ pages[b] \in Client!Page
      /\ UNCHANGED <<conns, sessions, final>>
  BY DEF SystemInv, PageInv, StoredInv, ScriptInv, Undisturbed, Client!PageTypeOK, vars
<1>1. ScriptInv'
  <2>2. Client!PageTypeOK'
    BY <1>0, ChunkStepType
  <2>3. SoundScript(pages'[b])
    BY <1>0, <2>2, RequestSound
  <2> QED
    BY <1>0, <2>3 DEF OnePage, ScriptInv
<1>2. /\ WiresInv' /\ ProgressInv' /\ wire' = wire
      /\ pages'[b].sid = pages[b].sid /\ pages'[b].phase = pages[b].phase
      /\ \A g \in Files : pages'[b].status[g] # None <=> pages[b].status[g] # None
  <2>1. CASE Client!Refused(b, f, i)
    <3>1. Interrupted(b) /\ wire' = wire
      BY <1>0, <2>1, InterruptEffect
    <3>2. WiresInv' /\ ProgressInv'
      BY <1>0, <3>1, InterruptedStored
    <3> QED
      BY <3>1, <3>2, NoneIsNoMark DEF Interrupted, Client!Chosen
  <2>2. CASE Client!Skipped(b, f, i) /\ Has(pages[b].sid, f, i)
    <3>1. wire' = wire /\ f \in pages[b].active
      BY <2>2 DEF Client!Skipped, Client!Due
    <3>2. i \in Entry(b, f).done
      BY <2>2 DEF Has, Entry
    <3>3. /\ SameScript(b)
          /\ pages'[b].bad = pages[b].bad
          /\ pages'[b].left[f] = pages[b].left[f] \ {i}
          /\ \A g \in Files : g # f => pages'[b].left[g] = pages[b].left[g]
      BY <1>0, <2>2, SendEffect
    <3>4. \A g \in Files : Client!InFlight(b, g)' = Client!InFlight(b, g)
      BY <3>1 DEF Client!InFlight
    <3>5. ASSUME NEW g \in pages[b].active
          PROVE  pages[b].left[g] \cup pages[b].bad[g] \cup Client!InFlight(b, g) \subseteq
                   pages'[b].left[g] \cup pages'[b].bad[g] \cup Client!InFlight(b, g)'
                     \cup Entry(b, g).done
      <4>1. g \in Files
        BY <1>0 DEF Client!Page
      <4> QED
        BY <3>2, <3>3, <3>4, <4>1
    <3>6. \A g \in Files :
            /\ pages'[b].left[g] \subseteq pages[b].left[g]
            /\ g \notin pages[b].active => pages'[b].left[g] = pages[b].left[g]
      BY <3>1, <3>3
    <3>7. WiresInv' /\ ProgressInv'
      BY <1>0, <3>1, <3>3, <3>5, <3>6, ChunksMoved
    <3> QED
      BY <3>1, <3>3, <3>7 DEF SameScript
  <2>3. CASE Client!Rejected(b, f, i)
    <3>1. wire' = wire /\ f \in pages[b].active
      BY <2>3 DEF Client!Rejected, Client!Due
    <3>3. /\ SameScript(b)
          /\ pages'[b].left[f] = pages[b].left[f] \ {i}
          /\ pages'[b].bad[f] = pages[b].bad[f] \cup {i}
          /\ \A g \in Files : g # f => /\ pages'[b].left[g] = pages[b].left[g]
                                       /\ pages'[b].bad[g] = pages[b].bad[g]
      BY <1>0, <2>3, RejectedEffect
    <3>4. \A g \in Files : Client!InFlight(b, g)' = Client!InFlight(b, g)
      BY <3>1 DEF Client!InFlight
    <3>5. ASSUME NEW g \in pages[b].active
          PROVE  pages[b].left[g] \cup pages[b].bad[g] \cup Client!InFlight(b, g) \subseteq
                   pages'[b].left[g] \cup pages'[b].bad[g] \cup Client!InFlight(b, g)'
                     \cup Entry(b, g).done
      <4>1. g \in Files
        BY <1>0 DEF Client!Page
      <4> QED
        BY <3>3, <3>4, <4>1
    <3>6. \A g \in Files :
            /\ pages'[b].left[g] \subseteq pages[b].left[g]
            /\ g \notin pages[b].active => pages'[b].left[g] = pages[b].left[g]
      BY <3>1, <3>3
    <3>7. WiresInv' /\ ProgressInv'
      BY <1>0, <3>1, <3>3, <3>5, <3>6, ChunksMoved
    <3> QED
      BY <3>1, <3>3, <3>7 DEF SameScript
  <2> QED
    BY <2>1, <2>2, <2>3
<1>3. BodiesInv' /\ WrittenInv' /\ ListsInv' /\ DirsInv' /\ MergersInv' /\ TasksInv'
  BY <1>0, <1>2, ServerUnchanged DEF StoredInv
<1> QED
  BY <1>1, <1>2, <1>3 DEF StoredInv

\* The connection breaks after the body has arrived.
LEMMA LoseConnectionStored ==
  ASSUME Undisturbed, SystemInv, StoredInv, NEW c \in Conns, LoseConnection(c)
  PROVE  StoredInv'
<1>0. /\ Client!PageTypeOK /\ OnePage /\ UNCHANGED vars /\ Client!Failed(c)
      /\ UNCHANGED <<conns, sessions, final>> /\ conns[c].received = Blocks
  BY DEF SystemInv, PageInv, Undisturbed, GentleEvents, LoseConnection, vars
<1>1. wire[c] # None /\ wire[c] \in Client!Request
  BY <1>0 DEF Client!Failed, Client!PageTypeOK
<1> PICK b \in Browsers : wire[c].page = b
  BY <1>1 DEF Client!Request
<1>2. pages[b] \in Client!Page
  BY <1>0 DEF Client!PageTypeOK
<1>3. SoundScript(pages[b])
  BY <1>2 DEF StoredInv, ScriptInv
<1>4. /\ SameScript(b)
      /\ pages'[b].left = pages[b].left
      /\ \A g \in Files : pages[b].bad[g] \subseteq pages'[b].bad[g]
      /\ wire'[c] = None /\ \A d \in Conns : d # c => wire'[d] = wire[d]
      /\ wire[c].file \in pages[b].active =>
           wire[c].index \in pages'[b].bad[wire[c].file]
  BY <1>0, <1>2, AnswerEffect
<1>5. ScriptInv'
  <2>2. Client!PageTypeOK'
    BY <1>0, AnswerType
  <2>3. SoundScript(pages'[b])
    BY <1>2, <1>3, <1>4, SameScriptSound
  <2> QED
    BY <1>0, <1>2, <2>3 DEF OnePage, ScriptInv
<1>6. WiresInv' /\ ProgressInv'
  <2>1. ASSUME NEW g \in pages[b].active
        PROVE  pages[b].left[g] \cup pages[b].bad[g] \cup Client!InFlight(b, g) \subseteq
                 pages'[b].left[g] \cup pages'[b].bad[g] \cup Client!InFlight(b, g)'
                   \cup Entry(b, g).done
    <3>1. g \in Files
      BY <1>2 DEF Client!Page
    <3>2. ASSUME NEW k \in Client!InFlight(b, g)
          PROVE  k \in Client!InFlight(b, g)' \cup pages'[b].bad[g]
      <4>1. PICK d \in Conns : /\ wire[d] # None /\ wire[d].page = b /\ wire[d].file = g
                               /\ wire[d].index = k
        BY DEF Client!InFlight
      <4>2. CASE d = c
        BY <1>4, <4>1, <4>2
      <4>3. CASE d # c
        <5>1. wire'[d] = wire[d]
          BY <1>4, <4>3
        <5> QED
          BY <4>1, <5>1 DEF Client!InFlight
      <4> QED
        BY <4>2, <4>3
    <3> QED
      BY <1>4, <3>1, <3>2
  <2>2. \A d \in Conns : wire'[d] # None => wire'[d] = wire[d]
    BY <1>4
  <2> QED
    BY <1>0, <1>2, <1>4, <2>1, <2>2, ChunksMoved
<1>7. BodiesInv' /\ WrittenInv' /\ ListsInv' /\ DirsInv' /\ MergersInv' /\ TasksInv'
  <2>1. \A d \in Conns : wire[d] # None /\ conns[d] # None /\ conns[d].received < Blocks =>
          wire'[d] # None
    BY <1>0, <1>4, ConstantsAssumption
  <2>2. pages'[b].sid = pages[b].sid /\ pages'[b].phase = pages[b].phase
        /\ pages'[b].status = pages[b].status
    BY <1>4 DEF SameScript
  <2> QED
    BY <1>0, <1>2, <2>1, <2>2, ServerUnchanged DEF StoredInv
<1> QED
  BY <1>5, <1>6, <1>7 DEF StoredInv

\* No request of a page is forgotten by the server.
LEMMA ConnectionsStay ==
  ASSUME SystemInv, StoredInv, NEW c \in Conns
  PROVE  ~ConnectionGone(c)
BY DEF StoredInv, WiresInv, ConnectionGone, Client!Failed

-----------------------------------------------------------------------------
(* Chunks that are sent and received *)

\* What a step that gives the pool no merge and publishes no file leaves as it is
SamePublished ==
  /\ UNCHANGED <<final, jobs, ready>>
  /\ \A b \in Browsers : /\ pages'[b].phase = pages[b].phase /\ pages'[b].sid = pages[b].sid
                         /\ pages'[b].status = pages[b].status

\* The merges keep their chunks.
LEMMA MergersKept ==
  ASSUME MergersInv, SamePublished,
         \A w \in Merges, f \in Files :
           jobs[w] # None /\ jobs[w].todo[f] > 0 /\ Whole(jobs[w].sid, f, jobs[w].todo[f]) =>
             Whole(jobs[w].sid, f, jobs[w].todo[f])'
  PROVE  MergersInv'
<1>1. \A b \in Browsers : Picked(b)' = Picked(b)
  BY DEF Picked, SamePublished
<1>2. Idle' <=> Idle
  BY DEF Idle, SamePublished
<1>3. \A f \in Files : ToMerge(f)' <=> ToMerge(f)
  BY DEF ToMerge, SamePublished
<1>4. UNCHANGED <<final, jobs>> /\ \A b \in Browsers : pages'[b].phase = pages[b].phase
  BY DEF SamePublished
<1>5. \A w \in Merges : jobs'[w] # None =>
       /\ jobs'[w].file # None => jobs'[w].todo[jobs'[w].file] > 0
       /\ \A f \in Files : jobs'[w].todo[f] > 0 =>
            /\ jobs'[w].sid # None /\ Whole(jobs[w].sid, f, jobs[w].todo[f])'
            /\ \A b \in Browsers : jobs'[w].todo[f] = Length[b][f]
  BY <1>4 DEF MergersInv
<1>6. \A b \in Browsers : pages'[b].phase # "sent" => Idle'
  BY <1>2, <1>4 DEF MergersInv
<1>7. \A f \in Files, b \in Browsers :
        /\ final'[f] # None =>
             ToMerge(f)' \/ final'[f] = [size |-> Length[b][f], data |-> Content[b]]
        /\ pages'[b].phase = "sent" /\ f \in Picked(b)' => ToMerge(f)' \/ final'[f] # None
  BY <1>1, <1>3, <1>4 DEF MergersInv
<1> QED
  BY <1>4, <1>5, <1>6, <1>7 DEF MergersInv

\* The tasks keep their names, and none is completed.
LEMMA TasksKept ==
  ASSUME SystemInv, TasksInv, ProgressInv, SamePublished,
         \A t \in Tasks : tasks'[t] # None =>
           /\ tasks[t] # None /\ tasks'[t].name = tasks[t].name
           /\ tasks'[t].status = "Completed" => tasks[t].status = "Completed",
         \A s \in Sids : Live(s) => sessions'[s].task = sessions[s].task
  PROVE  TasksInv'
<1>1. /\ UNCHANGED <<final, jobs, ready>>
      /\ \A b \in Browsers : /\ pages'[b].phase = pages[b].phase
                             /\ pages'[b].sid = pages[b].sid /\ Picked(b)' = Picked(b)
  BY DEF SamePublished, Picked
<1>2. \A t \in Tasks, f \in Files :
        (IsTaskOf(t, f))' => /\ IsTaskOf(t, f)
                             /\ tasks'[t].status = "Completed" => tasks[t].status = "Completed"
  BY DEF IsTaskOf
<1>3. ASSUME NEW b \in Browsers, NEW f \in Files, pages'[b].phase \in AtWork,
             IsTaskOf(sessions[pages[b].sid].task, f)'
      PROVE  f \in Picked(b)'
  <2>1. Live(pages[b].sid) /\ pages[b].phase \in AtWork
    BY <1>1, <1>3 DEF ProgressInv
  <2>2. pages[b].sid \in Sids
    BY <2>1 DEF AtWork, SystemInv, PageInv, SidsAreSet, Client!PageTypeOK, Client!Page
  <2>3. sessions'[pages'[b].sid].task = sessions[pages[b].sid].task
    BY <1>1, <2>1, <2>2
  <2>4. sessions[pages[b].sid].task \in Tasks
    BY <2>1, <2>2 DEF Live, SystemInv, TypeInv, TypeOK, Session
  <2>5. IsTaskOf(sessions[pages[b].sid].task, f)
    BY <1>3, <2>3, <2>4 DEF IsTaskOf
  <2> QED
    BY <1>1, <2>1, <2>5 DEF TasksInv
<1>4. ASSUME NEW t \in Tasks, NEW f \in Files, IsTaskOf(t, f)'
      PROVE  /\ tasks'[t].status = "Completed" => final'[f] # None
             /\ \A w \in Merges : jobs'[w] # None /\ jobs'[w].task = t =>
                  final'[f] # None \/ jobs'[w].todo[f] > 0
             /\ \A k \in 1 .. Len(ready') : ready'[k].task = t => final'[f] # None
  BY <1>1, <1>2, <1>4 DEF TasksInv
<1> QED
  BY <1>3, <1>4 DEF TasksInv

\* The first call empties the chunk file, and touches no other.
LEMMA BeginChunkStore ==
  ASSUME TypeOK, NEW c \in Conns, NEW s \in Sids, NEW f \in Files, NEW i \in Index, NEW d,
         BeginChunk(c, s, f, i, d),
         NEW x \in Sids, NEW g \in Files, NEW j \in Index
  PROVE  IF x = s /\ g = f /\ j = i
         THEN HasChunk(x, g, j)' /\ store'[x][g][j] = EmptyChunk
         ELSE /\ HasChunk(x, g, j)' <=> HasChunk(x, g, j)
              /\ HasChunk(x, g, j) => store'[x][g][j] = store[x][g][j]
<1> DEFINE old == IF store[s][f] = None THEN EmptyDir ELSE store[s][f]
           new == [old EXCEPT ![i] = EmptyChunk]
<1>1. store[s][f] \in ChunkDir \cup {None} /\ EmptyDir \in ChunkDir
  BY DEF TypeOK, EmptyDir, ChunkDir
<1>2. old \in ChunkDir
  BY <1>1
<1>3. store' = [store EXCEPT ![s][f] = new]
  BY DEF BeginChunk
<1>4. EmptyChunk \in ChunkFile
  BY ConstantsAssumption DEF EmptyChunk, ChunkFile, Block
<1>5. new \in ChunkDir /\ new[i] = EmptyChunk
      /\ \A k \in Index : k # i => new[k] = old[k]
  <2> HIDE DEF old
  <2> QED
    BY <1>2, <1>4 DEF ChunkDir
<1>6. new # None /\ EmptyChunk # None
  BY <1>4, <1>5, NoneAssumption
<1>7. store'[s][f] = new /\ ((x # s \/ g # f) => store'[x][g] = store[x][g])
  <2> HIDE DEF new
  <2> QED
    BY <1>3 DEF TypeOK
<1>8. \A k \in Index : old[k] # None <=> HasChunk(s, f, k)
  BY DEF EmptyDir, HasChunk
<1>9. \A k \in Index : HasChunk(s, f, k) => old[k] = store[s][f][k]
  BY DEF HasChunk
<1> HIDE DEF old, new
<1>10. CASE x # s \/ g # f
  BY <1>7, <1>10 DEF HasChunk
<1>11. CASE x = s /\ g = f /\ j = i
  BY <1>5, <1>6, <1>7, <1>11 DEF HasChunk
<1>12. CASE x = s /\ g = f /\ j # i
  BY <1>5, <1>6, <1>7, <1>8, <1>9, <1>12 DEF HasChunk
<1> QED
  BY <1>10, <1>11, <1>12

\* A chunk is sent, and the server takes the request.
LEMMA SendStored ==
  ASSUME Undisturbed, SystemInv, SystemInv', SpareInv, StoredInv, NEW b \in Browsers,
         NEW s \in Sids, s = pages[b].sid, NEW f \in Files, NEW i \in Index, NEW c \in Conns,
         BeginChunk(c, s, f, i, Content[b]), Client!Send(b, f, i, c)
  PROVE  StoredInv'
<1>0. /\ TypeInv /\ TypeOK /\ Client!PageTypeOK /\ OnePage /\ pages[b] \in Client!Page
      /\ Client!PageTypeOK' /\ SingleInv /\ SoundScript(pages[b])
      /\ \A a \in Browsers : a = b
  BY DEF SystemInv, PageInv, TypeInv, Client!PageTypeOK, Undisturbed, SpareInv, StoredInv,
         ScriptInv, OnePage
<1>1. /\ conns[c] = None /\ wire[c] = None /\ f \in pages[b].active /\ i \in pages[b].left[f]
      /\ UNCHANGED <<final, state, sessions, tasks, jobs, ready>>
      /\ sessions[s] # None /\ sessions[s].files[f] # None
      /\ i < sessions[s].files[f].size /\ i \notin sessions[s].files[f].done
  BY DEF BeginChunk, Accepts, Client!Send, Client!Due
<1>2. /\ conns'[c] # None /\ conns'[c].sid = s /\ conns'[c].file = f /\ conns'[c].index = i
      /\ conns'[c].data = Content[b] /\ conns'[c].received = 0
      /\ \A e \in Conns : e # c => conns'[e] = conns[e]
  <2> DEFINE r == [sid |-> s, file |-> f, index |-> i, data |-> Content[b], received |-> 0]
  <2>1. r \in Request
    BY SystemAssumption, ConstantsAssumption DEF Request
  <2>2. conns' = [conns EXCEPT ![c] = r]
    BY DEF BeginChunk
  <2> HIDE DEF r
  <2>3. conns'[c] = r /\ \A e \in Conns : e # c => conns'[e] = conns[e]
    BY <1>0, <2>2 DEF TypeOK
  <2> QED
    BY <2>1, <2>3, NoneAssumption DEF r
<1>3. /\ wire'[c] # None /\ wire'[c].page = b /\ wire'[c].file = f /\ wire'[c].index = i
      /\ \A e \in Conns : e # c => wire'[e] = wire[e]
  <2> DEFINE r == [page |-> b, file |-> f, index |-> i]
  <2>1. r \in Client!Request
    BY DEF Client!Request
  <2>2. wire' = [wire EXCEPT ![c] = r]
    BY DEF Client!Send
  <2> HIDE DEF r
  <2>3. wire'[c] = r /\ \A e \in Conns : e # c => wire'[e] = wire[e]
    BY <1>0, <2>2 DEF Client!PageTypeOK
  <2> QED
    BY <2>1, <2>3, NoneIsNoMark DEF r
<1>4. /\ SameScript(b)
      /\ pages'[b].bad = pages[b].bad
      /\ pages'[b].left[f] = pages[b].left[f] \ {i}
      /\ \A g \in Files : g # f => pages'[b].left[g] = pages[b].left[g]
  BY <1>0, SendEffect
<1>5. \A x \in Sids, g \in Files, j \in Index :
        IF x = s /\ g = f /\ j = i
        THEN HasChunk(x, g, j)' /\ store'[x][g][j] = EmptyChunk
        ELSE /\ HasChunk(x, g, j)' <=> HasChunk(x, g, j)
             /\ HasChunk(x, g, j) => store'[x][g][j] = store[x][g][j]
  BY <1>0, BeginChunkStore
<1>6. EmptyChunk.len = 0
  BY DEF EmptyChunk
<1>7. \A e \in Conns : wire[e] # None => wire[e].page = b /\ wire[e].file \in Files
  BY <1>0 DEF Client!PageTypeOK, Client!Request
\* No other request is for this chunk.
<1>8. \A e \in Conns : wire[e] # None => ~(wire[e].file = f /\ wire[e].index = i)
  BY <1>1, <1>7 DEF StoredInv, WiresInv
<1>9. Live(s)
  <2>1. sessions[s].files[f].size # 0
    <3>1. i \in Nat
      BY ConstantsAssumption DEF Index
    <3> QED
      BY <1>1, <3>1
  <2> QED
    BY <1>0, <1>1, <2>1 DEF SingleInv, GhostsAreEmpty
<1>10. ScriptInv'
  BY <1>0, <1>4, SameScriptSound DEF ScriptInv
<1>11. WiresInv'
  <2>1. pages[b].phase # "idle"
    BY <1>0, <1>1 DEF SystemInv, PageInv, FilesArePicked, Picked, SoundScript
  <2> SUFFICES ASSUME NEW e \in Conns, wire'[e] # None
               PROVE  /\ conns'[e] # None /\ conns'[e].file = wire'[e].file
                      /\ conns'[e].index = wire'[e].index
                      /\ wire'[e].page = b
                      /\ pages'[b].phase # "idle"
                      /\ pages'[b].on => /\ conns'[e].sid = pages'[b].sid
                                         /\ wire'[e].file \in pages'[b].active
                      /\ wire'[e].file \in pages'[b].active =>
                           wire'[e].index \notin pages'[b].left[wire'[e].file]
                      /\ \A d \in Conns : wire'[d] # None /\ wire'[d].file = wire'[e].file
                                            /\ wire'[d].index = wire'[e].index => d = e
    BY DEF WiresInv
  <2>2. pages'[b].phase # "idle" /\ pages'[b].sid = pages[b].sid /\ pages'[b].on = pages[b].on
        /\ pages'[b].active = pages[b].active
    BY <1>4, <2>1 DEF SameScript
  <2>3. CASE e = c
    BY <1>2, <1>3, <1>4, <1>8, <1>1, <2>2, <2>3
  <2>4. CASE e # c
    <3>1. wire'[e] = wire[e] /\ conns'[e] = conns[e] /\ wire[e] # None
      BY <1>2, <1>3, <2>4
    <3>2. /\ conns[e] # None /\ conns[e].file = wire[e].file /\ conns[e].index = wire[e].index
          /\ wire[e].page = b
          /\ pages[b].on => conns[e].sid = pages[b].sid /\ wire[e].file \in pages[b].active
          /\ wire[e].file \in pages[b].active =>
               wire[e].index \notin pages[b].left[wire[e].file]
          /\ \A d \in Conns : wire[d] # None /\ wire[d].file = wire[e].file
                                /\ wire[d].index = wire[e].index => d = e
      BY <1>7, <3>1 DEF StoredInv, WiresInv
    <3>3. pages'[b].left[wire[e].file] \subseteq pages[b].left[wire[e].file]
      BY <1>4, <1>7, <3>1
    <3> QED
      BY <1>3, <1>8, <2>2, <3>1, <3>2, <3>3
  <2> QED
    BY <2>3, <2>4
<1>12. BodiesInv'
  <2> SUFFICES ASSUME NEW e \in Conns, conns'[e] # None
               PROVE  /\ conns'[e].data = Content[b]
                      /\ conns'[e].received < Blocks =>
                           /\ wire'[e] # None
                           /\ store'[conns'[e].sid][conns'[e].file][conns'[e].index].len
                                = conns'[e].received
    BY <1>0 DEF BodiesInv
  <2>1. CASE e = c
    BY <1>2, <1>3, <1>5, <1>6, <2>1
  <2>2. CASE e # c
    <3>1. wire'[e] = wire[e] /\ conns'[e] = conns[e] /\ conns[e] # None
      BY <1>2, <1>3, <2>2
    <3>2. conns[e].data = Content[b]
      BY <3>1 DEF StoredInv, BodiesInv
    <3>3. ASSUME conns[e].received < Blocks
          PROVE  /\ wire[e] # None
                 /\ store[conns[e].sid][conns[e].file][conns[e].index].len = conns[e].received
                 /\ ~(conns[e].file = f /\ conns[e].index = i)
      BY <1>8, <3>1, <3>3 DEF StoredInv, BodiesInv, WiresInv
    <3>4. conns[e] \in Request /\ HasChunk(conns[e].sid, conns[e].file, conns[e].index)
      BY <1>0, <3>1 DEF TypeInv, TypeOK, WrittenChunkExists
    <3> QED
      BY <1>5, <3>1, <3>2, <3>3, <3>4 DEF Request
  <2> QED
    BY <2>1, <2>2
<1>13. WrittenInv'
  <2> SUFFICES ASSUME NEW x \in Sids, NEW g \in Files, NEW j \in Index, HasChunk(x, g, j)'
               PROVE  \A k \in 1 .. store'[x][g][j].len : store'[x][g][j].blocks[k] = Content[b]
    BY <1>0 DEF WrittenInv
  <2>1. CASE x = s /\ g = f /\ j = i
    BY <1>5, <1>6, <2>1
  <2>2. CASE ~(x = s /\ g = f /\ j = i)
    BY <1>5, <2>2 DEF StoredInv, WrittenInv
  <2> QED
    BY <2>1, <2>2
<1>14. ListsInv'
  <2>1. ASSUME NEW x \in Sids, NEW g \in Files, Live(x), sessions[x].files[g] # None,
               NEW j \in sessions[x].files[g].done
        PROVE  HasSize(x, g, j, Blocks)'
    <3>1. HasSize(x, g, j, Blocks)
      BY <2>1 DEF StoredInv, ListsInv
    <3>2. j \in Index
      BY <1>0, <2>1 DEF TypeOK, Live, Session, FileEntry
    <3>3. ~(x = s /\ g = f /\ j = i)
      BY <1>1
    <3> QED
      BY <1>5, <3>1, <3>2, <3>3 DEF HasSize
  <2>2. \A x \in Sids : Live(x)' <=> Live(x)
    BY <1>1 DEF Live
  <2> QED
    BY <1>1, <2>1, <2>2 DEF StoredInv, ListsInv
<1>15. DirsInv'
  <2>1. \A x : Live(x)' <=> Live(x)
    BY <1>1 DEF Live
  <2>2. state[f] # None /\ state[f].dir = s
    <3>1. s # None
      BY NoneAssumption
    <3> QED
      BY <1>1, <1>9, <3>1 DEF StoredInv, DirsInv
  <2>3. \A e \in Conns : conns'[e] # None /\ Live(conns'[e].sid) =>
          state[conns'[e].file] # None /\ state[conns'[e].file].dir = conns'[e].sid
    BY <1>2, <2>2 DEF StoredInv, DirsInv
  <2>4. \A a \in Browsers : pages'[a].sid = pages[a].sid
    BY <1>0, <1>4 DEF SameScript
  <2> QED
    BY <1>1, <2>1, <2>3, <2>4 DEF StoredInv, DirsInv
<1>16. ProgressInv'
  <2>1. /\ pages'[b].sid = pages[b].sid /\ pages'[b].phase = pages[b].phase
        /\ pages'[b].status = pages[b].status /\ pages'[b].on = pages[b].on
        /\ pages'[b].todo = pages[b].todo /\ pages'[b].active = pages[b].active
    BY <1>4 DEF SameScript
  <2>2. ASSUME pages'[b].on
        PROVE  Underway(b)'
    <3>1. Underway(b)
      BY <2>1, <2>2 DEF StoredInv, ProgressInv
    <3> SUFFICES ASSUME NEW g \in pages'[b].todo \cup pages'[b].active
                 PROVE  /\ Entry(b, g)' # None
                        /\ Chunks(b, g) \subseteq pages'[b].left[g] \cup Entry(b, g)'.done \cup
                             (IF g \in pages'[b].active
                              THEN pages'[b].bad[g] \cup Client!InFlight(b, g)' ELSE {})
      BY DEF Underway, Chunks
    <3>2. /\ Entry(b, g)' = Entry(b, g) /\ g \in pages[b].todo \cup pages[b].active
          /\ g \in Files
      BY <1>0, <1>1, <2>1 DEF Entry, Client!Page
    <3>3. /\ Entry(b, g) # None
          /\ Chunks(b, g) \subseteq pages[b].left[g] \cup Entry(b, g).done \cup
               (IF g \in pages[b].active THEN pages[b].bad[g] \cup Client!InFlight(b, g) ELSE {})
      BY <3>1, <3>2 DEF Underway
    <3>4. Client!InFlight(b, g) \subseteq Client!InFlight(b, g)'
      <4> SUFFICES ASSUME NEW k \in Client!InFlight(b, g)
                   PROVE  k \in Client!InFlight(b, g)'
        OBVIOUS
      <4>1. PICK d \in Conns : /\ wire[d] # None /\ wire[d].page = b /\ wire[d].file = g
                               /\ wire[d].index = k
        BY DEF Client!InFlight
      <4>2. wire'[d] = wire[d]
        BY <1>1, <1>3, <4>1
      <4> QED
        BY <4>1, <4>2 DEF Client!InFlight
    <3>5. i \in Client!InFlight(b, f)'
      BY <1>3 DEF Client!InFlight
    <3>6. CASE g # f
      BY <1>4, <2>1, <3>2, <3>3, <3>4, <3>6
    <3>7. CASE g = f
      BY <1>1, <1>4, <2>1, <3>2, <3>3, <3>4, <3>5, <3>7
    <3> QED
      BY <3>6, <3>7
  <2> QED
    BY <1>0, <1>1, <2>1, <2>2, ProgressKept DEF StoredInv
<1>17. SamePublished
  BY <1>0, <1>1, <1>4 DEF SamePublished, SameScript
<1>18. MergersInv'
  <2>1. ASSUME NEW w \in Merges, NEW g \in Files, jobs[w] # None, jobs[w].todo[g] > 0,
               Whole(jobs[w].sid, g, jobs[w].todo[g])
        PROVE  Whole(jobs[w].sid, g, jobs[w].todo[g])'
    <3>1. jobs[w].sid # None /\ jobs[w].sid \in Sids /\ jobs[w].todo[g] \in Sizes
      BY <1>0, <2>1 DEF StoredInv, MergersInv, TypeOK, Job
    <3>2. jobs[w].sid # s
      BY <1>0, <1>9, <2>1, <3>1 DEF SingleInv, MergeHasDirAlone
    <3>3. \A j \in 0 .. jobs[w].todo[g] - 1 : j \in Index
      BY <3>1 DEF Index
    <3>4. jobs' = jobs
      BY <1>1
    <3> QED
      BY <1>5, <2>1, <3>1, <3>2, <3>3, <3>4 DEF Whole, HasSize
  <2> QED
    BY <1>17, <2>1, MergersKept DEF StoredInv
<1>19. TasksInv'
  BY <1>1, <1>17, TasksKept DEF StoredInv
<1> QED
  BY <1>10, <1>11, <1>12, <1>13, <1>14, <1>15, <1>16, <1>18, <1>19 DEF StoredInv

\* A block goes to the end of what was received, and to no other chunk file.
LEMMA ReceiveBlockStore ==
  ASSUME TypeInv, NEW c \in Conns, ReceiveBlock(c),
         NEW x \in Sids, NEW g \in Files, NEW j \in Index
  PROVE  LET r == conns[c]
             chunk == store[r.sid][r.file][r.index]
         IN  IF x = r.sid /\ g = r.file /\ j = r.index
             THEN /\ HasChunk(x, g, j)' /\ HasChunk(x, g, j)
                  /\ store'[x][g][j].len =
                       IF chunk.len > r.received THEN chunk.len ELSE r.received + 1
                  /\ \A k \in 1 .. Blocks : store'[x][g][j].blocks[k] =
                       IF k = r.received + 1 THEN r.data ELSE chunk.blocks[k]
             ELSE /\ HasChunk(x, g, j)' <=> HasChunk(x, g, j)
                  /\ HasChunk(x, g, j) =>
                       store'[x][g][j] = store[x][g][j]
<1> DEFINE r == conns[c]
           chunk == store[r.sid][r.file][r.index]
           written == [len    |-> IF chunk.len > r.received THEN chunk.len ELSE r.received + 1,
                       blocks |-> [chunk.blocks EXCEPT ![r.received + 1] = r.data]]
<1>1. r \in Request /\ r.received < Blocks
  BY DEF TypeInv, TypeOK, ReceiveBlock
<1>2. r.sid \in Sids /\ r.file \in Files /\ r.index \in Index /\ r.received \in 0 .. Blocks
      /\ r.data \in Data
  BY <1>1 DEF Request
<1>3. HasChunk(r.sid, r.file, r.index)
  BY DEF TypeInv, WrittenChunkExists, ReceiveBlock
<1>4. store[r.sid][r.file] \in ChunkDir /\ chunk \in ChunkFile
  BY <1>2, <1>3 DEF TypeInv, TypeOK, HasChunk, ChunkDir
<1>5. written \in ChunkFile
  <2>1. [chunk.blocks EXCEPT ![r.received + 1] = r.data] \in [1 .. Blocks -> Block]
    BY <1>2, <1>4 DEF ChunkFile, Block
  <2>2. (IF chunk.len > r.received THEN chunk.len ELSE r.received + 1) \in 0 .. Blocks
    <3>1. chunk.len \in 0 .. Blocks
      BY <1>4 DEF ChunkFile
    <3> HIDE DEF chunk, r
    <3> QED
      BY <1>1, <1>2, <3>1, ConstantsAssumption
  <2> QED
    BY <2>1, <2>2 DEF ChunkFile
<1>6. store' = [store EXCEPT ![r.sid][r.file][r.index] = written]
  BY DEF ReceiveBlock
<1>7. /\ written.len = IF chunk.len > r.received THEN chunk.len ELSE r.received + 1
      /\ \A k \in 1 .. Blocks : written.blocks[k] =
           IF k = r.received + 1 THEN r.data ELSE chunk.blocks[k]
  BY <1>4 DEF ChunkFile
<1>8. store \in [Sids -> [Files -> ChunkDir \cup {None}]]
  BY DEF TypeInv, TypeOK
<1> DEFINE dir == [store[r.sid][r.file] EXCEPT ![r.index] = written]
<1>9. dir \in ChunkDir /\ dir[r.index] = written
      /\ \A k \in Index : k # r.index => dir[k] = store[r.sid][r.file][k]
  <2> HIDE DEF written
  <2> QED
    BY <1>2, <1>4, <1>5 DEF ChunkDir
<1>10. store' = [store EXCEPT ![r.sid][r.file] = dir]
  <2> HIDE DEF written, r
  <2> QED
    BY <1>2, <1>6, <1>8
<1>11. dir # None /\ written # None
  BY <1>5, <1>9, NoneAssumption
<1>12. store'[r.sid][r.file] = dir
       /\ ((x # r.sid \/ g # r.file) => store'[x][g] = store[x][g])
  <2> HIDE DEF dir, r
  <2> QED
    BY <1>2, <1>8, <1>10
<1> HIDE DEF dir, written, chunk, r
<1>13. CASE x # r.sid \/ g # r.file
  BY <1>12, <1>13 DEF HasChunk, r, chunk
<1>14. CASE x = r.sid /\ g = r.file /\ j = r.index
  <2>1. HasChunk(x, g, j)' /\ HasChunk(x, g, j) /\ store'[x][g][j] = written
    BY <1>3, <1>9, <1>11, <1>12, <1>14 DEF HasChunk
  <2> QED
    BY <1>7, <1>14, <2>1 DEF r, chunk
<1>15. CASE x = r.sid /\ g = r.file /\ j # r.index
  <2>1. /\ HasChunk(x, g, j)' <=> HasChunk(x, g, j)
        /\ store'[x][g][j] = store[x][g][j]
    BY <1>3, <1>9, <1>11, <1>12, <1>15 DEF HasChunk
  <2> QED
    BY <1>15, <2>1 DEF r, chunk
<1> QED
  BY <1>13, <1>14, <1>15

\* A block of a body arrives.
LEMMA ReceiveStored ==
  ASSUME Undisturbed, SystemInv, StoredInv, NEW c \in Conns, ReceiveData(c)
  PROVE  StoredInv'
<1> DEFINE r == conns[c]
<1>0. /\ TypeInv /\ TypeOK /\ ReceiveBlock(c) /\ UNCHANGED <<pages, wire>>
      /\ UNCHANGED <<final, state, sessions, tasks, jobs, ready>>
  BY DEF SystemInv, TypeInv, ReceiveData, ReceiveBlock
<1>1. r \in Request /\ r # None /\ r.received < Blocks /\ r.received \in Nat
  <2>1. r \in Request /\ r # None /\ r.received < Blocks
    BY <1>0 DEF ReceiveBlock, TypeOK
  <2> QED
    BY <2>1, ConstantsAssumption DEF Request
<1>2. /\ \A e \in Conns : /\ conns'[e] # None <=> conns[e] # None
                          /\ e # c => conns'[e] = conns[e]
      /\ conns'[c].sid = r.sid /\ conns'[c].file = r.file /\ conns'[c].index = r.index
      /\ conns'[c].data = r.data /\ conns'[c].received = r.received + 1
  <2> DEFINE q == [r EXCEPT !.received = r.received + 1]
  <2>1. conns' = [conns EXCEPT ![c] = q]
    BY <1>0, <1>1 DEF ReceiveBlock, TypeOK, Request
  <2>2. q.sid = r.sid /\ q.file = r.file /\ q.index = r.index /\ q.data = r.data
        /\ q.received = r.received + 1
    BY <1>1 DEF Request
  <2>3. q \in Request
    <3>1. r.received + 1 \in 0 .. Blocks
      BY <1>1, ConstantsAssumption
    <3> QED
      BY <1>1, <3>1 DEF Request
  <2> HIDE DEF q, r
  <2>4. conns'[c] = q /\ \A e \in Conns : e # c => conns'[e] = conns[e]
    BY <1>0, <2>1 DEF TypeOK
  <2> QED
    BY <1>1, <2>2, <2>3, <2>4, NoneAssumption DEF r
<1>3. /\ wire[c] # None /\ store[r.sid][r.file][r.index].len = r.received
      /\ \A b \in Browsers : r.data = Content[b]
  BY <1>1 DEF StoredInv, BodiesInv
<1>4. \A x \in Sids, g \in Files, j \in Index :
        IF x = r.sid /\ g = r.file /\ j = r.index
        THEN /\ HasChunk(x, g, j)' /\ HasChunk(x, g, j)
             /\ store'[x][g][j].len = r.received + 1
             /\ \A k \in 1 .. Blocks : store'[x][g][j].blocks[k] =
                  IF k = r.received + 1 THEN r.data ELSE store[x][g][j].blocks[k]
        ELSE /\ HasChunk(x, g, j)' <=> HasChunk(x, g, j)
             /\ HasChunk(x, g, j) => store'[x][g][j] = store[x][g][j]
  <2> TAKE x \in Sids, g \in Files, j \in Index
  <2>1. CASE x = r.sid /\ g = r.file /\ j = r.index
    <3>1. ~(r.received > r.received)
      BY <1>1
    <3> QED
      BY <1>0, <1>3, <2>1, <3>1, ReceiveBlockStore
  <2>2. CASE ~(x = r.sid /\ g = r.file /\ j = r.index)
    <3>1. /\ HasChunk(x, g, j)' <=> HasChunk(x, g, j)
          /\ store'[x][g] # None /\ HasChunk(x, g, j) => store'[x][g][j] = store[x][g][j]
      BY <1>0, <2>2, ReceiveBlockStore
    <3> QED
      BY <2>2, <3>1 DEF HasChunk
  <2> QED
    BY <2>1, <2>2
\* A chunk that is whole is not written to.
<1>5. ASSUME NEW x \in Sids, NEW g \in Files, NEW j \in Index, HasSize(x, g, j, Blocks)
      PROVE  HasSize(x, g, j, Blocks)'
  <2>1. ~(x = r.sid /\ g = r.file /\ j = r.index)
    BY <1>1, <1>3, <1>5, ConstantsAssumption DEF HasSize
  <2> QED
    BY <1>4, <1>5, <2>1 DEF HasSize
<1>6. ScriptInv'
  BY <1>0 DEF StoredInv, ScriptInv, SoundScript
<1>7. WiresInv'
  <2> HIDE DEF r
  <2>1. \A e \in Conns : conns[e] # None =>
          /\ conns'[e] # None /\ conns'[e].sid = conns[e].sid
          /\ conns'[e].file = conns[e].file /\ conns'[e].index = conns[e].index
    BY <1>2 DEF r
  <2> QED
    BY <1>0, <2>1 DEF StoredInv, WiresInv
<1>8. BodiesInv'
  <2> SUFFICES ASSUME NEW e \in Conns, conns'[e] # None
               PROVE  /\ \A b \in Browsers : conns'[e].data = Content[b]
                      /\ conns'[e].received < Blocks =>
                           /\ wire'[e] # None
                           /\ store'[conns'[e].sid][conns'[e].file][conns'[e].index].len
                                = conns'[e].received
    BY DEF BodiesInv
  <2>1. CASE e = c
    <3>1. r.sid \in Sids /\ r.file \in Files /\ r.index \in Index
      BY <1>1 DEF Request
    <3>2. store'[r.sid][r.file][r.index].len = r.received + 1
      BY <1>4, <3>1
    <3> QED
      BY <1>0, <1>2, <1>3, <2>1, <3>2
  <2>2. CASE e # c
    <3>1. conns'[e] = conns[e] /\ conns[e] # None
      BY <1>2, <2>2
    <3>2. \A b \in Browsers : conns[e].data = Content[b]
      BY <3>1 DEF StoredInv, BodiesInv
    <3>3. ASSUME conns[e].received < Blocks
          PROVE  /\ wire[e] # None
                 /\ store[conns[e].sid][conns[e].file][conns[e].index].len = conns[e].received
                 /\ ~(conns[e].file = r.file /\ conns[e].index = r.index)
      BY <1>1, <1>3, <2>2, <3>1, <3>3 DEF StoredInv, BodiesInv, WiresInv
    <3>4. conns[e] \in Request /\ HasChunk(conns[e].sid, conns[e].file, conns[e].index)
      BY <1>0, <3>1 DEF TypeInv, TypeOK, WrittenChunkExists
    <3>5. conns[e].sid \in Sids /\ conns[e].file \in Files /\ conns[e].index \in Index
      BY <3>4 DEF Request
    <3> HIDE DEF r
    <3> QED
      BY <1>0, <1>4, <3>1, <3>2, <3>3, <3>4, <3>5
  <2> QED
    BY <2>1, <2>2
<1>9. WrittenInv'
  <2> SUFFICES ASSUME NEW x \in Sids, NEW g \in Files, NEW j \in Index, HasChunk(x, g, j)',
                      NEW b \in Browsers, NEW k \in 1 .. store'[x][g][j].len
               PROVE  store'[x][g][j].blocks[k] = Content[b]
    BY DEF WrittenInv
  <2>1. CASE x = r.sid /\ g = r.file /\ j = r.index
    <3>1. store'[x][g][j].len = r.received + 1 /\ HasChunk(x, g, j)
          /\ \A m \in 1 .. Blocks : store'[x][g][j].blocks[m] =
               IF m = r.received + 1 THEN r.data ELSE store[x][g][j].blocks[m]
      BY <1>4, <2>1
    <3>2. k \in 1 .. Blocks /\ (k = r.received + 1 \/ k \in 1 .. r.received)
      BY <1>1, <3>1, ConstantsAssumption
    <3>3. \A m \in 1 .. r.received : store[x][g][j].blocks[m] = Content[b]
      <4>1. store[x][g][j].len = r.received
        BY <1>3, <2>1
      <4> QED
        BY <3>1, <4>1 DEF StoredInv, WrittenInv
    <3> QED
      BY <1>3, <3>1, <3>2, <3>3
  <2>2. CASE ~(x = r.sid /\ g = r.file /\ j = r.index)
    BY <1>4, <2>2 DEF StoredInv, WrittenInv
  <2> QED
    BY <2>1, <2>2
<1>10. ListsInv'
  <2>1. ASSUME NEW x \in Sids, NEW g \in Files, Live(x), sessions[x].files[g] # None,
               NEW j \in sessions[x].files[g].done
        PROVE  HasSize(x, g, j, Blocks)'
    <3>1. HasSize(x, g, j, Blocks)
      BY <2>1 DEF StoredInv, ListsInv
    <3>2. j \in Index
      BY <1>0, <2>1 DEF TypeOK, Live, Session, FileEntry
    <3> QED
      BY <1>5, <3>1, <3>2
  <2>2. \A x \in Sids : Live(x)' <=> Live(x)
    BY <1>0 DEF Live
  <2> QED
    BY <1>0, <2>1, <2>2 DEF StoredInv, ListsInv
<1>11. DirsInv'
  <2>1. \A x : Live(x)' <=> Live(x)
    BY <1>0 DEF Live
  <2> HIDE DEF r
  <2>2. \A e \in Conns : conns'[e] # None =>
          /\ conns[e] # None /\ conns'[e].sid = conns[e].sid
          /\ conns'[e].file = conns[e].file
    BY <1>2 DEF r
  <2> QED
    BY <1>0, <2>1, <2>2 DEF StoredInv, DirsInv
<1>12. ProgressInv'
  BY <1>0 DEF StoredInv, ProgressInv, Live, Accounted, Underway, Entry, Picked, Chunks,
              Client!InFlight
<1>13. SamePublished
  BY <1>0 DEF SamePublished
<1>14. MergersInv'
  <2>1. ASSUME NEW w \in Merges, NEW g \in Files, jobs[w] # None, jobs[w].todo[g] > 0,
               Whole(jobs[w].sid, g, jobs[w].todo[g])
        PROVE  Whole(jobs[w].sid, g, jobs[w].todo[g])'
    <3>1. jobs[w].sid \in Sids /\ jobs[w].todo[g] \in Sizes
      BY <1>0, <2>1 DEF StoredInv, MergersInv, TypeOK, Job
    <3>2. \A j \in 0 .. jobs[w].todo[g] - 1 : j \in Index
      BY <3>1 DEF Index
    <3>3. \A j \in 0 .. jobs[w].todo[g] - 1 : HasSize(jobs[w].sid, g, j, Blocks)'
      <4> TAKE j \in 0 .. jobs[w].todo[g] - 1
      <4>1. PICK x \in Sids : x = jobs[w].sid /\ x = jobs'[w].sid
        BY <1>0, <3>1
      <4>2. HasSize(x, g, j, Blocks)'
        BY <1>5, <2>1, <3>2, <4>1 DEF Whole
      <4> QED
        BY <4>1, <4>2 DEF HasSize, HasChunk
    <3> QED
      BY <1>0, <3>3 DEF Whole
  <2> QED
    BY <1>13, <2>1, MergersKept DEF StoredInv
<1>15. TasksInv'
  BY <1>0, <1>13, TasksKept DEF StoredInv
<1> QED
  BY <1>6, <1>7, <1>8, <1>9, <1>10, <1>11, <1>12, <1>14, <1>15 DEF StoredInv

-----------------------------------------------------------------------------
(* Chunks that are answered *)

\* The last call adds an accepted chunk to the list of its session and to that of
\* the state file that names the directory; a rejected one changes neither.
LEMMA AnswerLists ==
  ASSUME SpareInv, StoredInv, NEW c \in Conns, EndChunk(c), conns[c].received = Blocks,
         NEW s \in Sids, s = conns[c].sid, NEW f \in Files, f = conns[c].file,
         NEW i \in Index, i = conns[c].index
  PROVE  /\ \A x \in Sids : /\ Live(x)' <=> Live(x)
                            /\ Live(x) => sessions'[x].task = sessions[x].task
         /\ \A x \in Sids, g \in Files : Live(x) =>
              /\ sessions'[x].files[g] # None <=> sessions[x].files[g] # None
              /\ sessions[x].files[g] # None =>
                   /\ sessions'[x].files[g].size = sessions[x].files[g].size
                   /\ sessions'[x].files[g].done = sessions[x].files[g].done \cup
                        (IF ChunkAccepted(conns[c]) /\ x = s /\ g = f THEN {i} ELSE {})
         /\ \A g \in Files : /\ state'[g] # None <=> state[g] # None
                             /\ state[g] # None =>
                                  /\ state'[g].size = state[g].size
                                  /\ state'[g].dir = state[g].dir
                                  /\ state'[g].done = state[g].done \cup
                                       (IF ChunkAccepted(conns[c]) /\ g = f THEN {i} ELSE {})
         /\ ChunkAccepted(conns[c]) =>
              /\ Live(s) /\ sessions[s].files[f] # None /\ i < sessions[s].files[f].size
              /\ HasSize(s, f, i, Blocks) /\ state[f] # None /\ state[f].dir = s
<1> DEFINE r == conns[c]
           acc == ChunkAccepted(r)
           chunks(n) == IF acc /\ i < n THEN {i} ELSE {}
<1>0. TypeInv /\ TypeOK /\ SingleInv
  BY DEF SpareInv, SingleInv, TypeInv
<1>1. /\ \A x \in Sids : x # s => sessions'[x] = sessions[x]
      /\ sessions'[s] # None
      /\ sessions'[s].task = SessionOf(r).task
      /\ \A g \in Files : g # f => sessions'[s].files[g] = SessionOf(r).files[g]
      /\ sessions'[s].files[f] # None
      /\ sessions'[s].files[f].size = EntryOf(r).size
      /\ sessions'[s].files[f].done = EntryOf(r).done \cup chunks(EntryOf(r).size)
      /\ \A g \in Files : g # f => state'[g] = state[g]
      /\ state[f] = None => state'[f] = None
      /\ state[f] # None =>
           /\ state'[f] # None
           /\ state'[f].dir = state[f].dir
           /\ state'[f].size = state[f].size
           /\ state'[f].done = state[f].done \cup chunks(state[f].size)
  BY <1>0, EndChunkEffect
<1>2. conns[c] # None
  BY DEF EndChunk
<1>3. acc => SessionOf(r).task # None /\ HasSize(s, f, i, Blocks)
  BY DEF ChunkAccepted
<1>4. CASE Live(s)
  <2>1. SessionOf(r) = sessions[s] /\ sessions[s] # None
    BY <1>4 DEF SessionOf, Live
  <2>2. sessions[s].files[f] # None /\ i < sessions[s].files[f].size
    BY <1>0, <1>2, <1>4 DEF SingleInv, InFlightChunkKnown
  <2>3. EntryOf(r) = sessions[s].files[f]
    BY <2>1, <2>2 DEF EntryOf
  <2>4. state[f] # None /\ state[f].dir = s
    BY <1>2, <1>4 DEF StoredInv, DirsInv
  <2>5. state[f].size = sessions[s].files[f].size
    BY <1>0, <1>4, <2>2, <2>4, ConstantsAssumption
    DEF SingleInv, OneFilePerDir, DirIsFor
  <2>6. chunks(EntryOf(r).size) = (IF acc THEN {i} ELSE {})
        /\ chunks(state[f].size) = (IF acc THEN {i} ELSE {})
    BY <2>2, <2>3, <2>5
  <2> HIDE DEF acc, r, chunks
  <2>7. \A x \in Sids : /\ Live(x)' <=> Live(x)
                        /\ Live(x) => sessions'[x].task = sessions[x].task
    BY <1>1, <2>1, <1>4 DEF Live
  <2>8. \A x \in Sids, g \in Files : Live(x) =>
              /\ sessions'[x].files[g] # None <=> sessions[x].files[g] # None
              /\ sessions[x].files[g] # None =>
                   /\ sessions'[x].files[g].size = sessions[x].files[g].size
                   /\ sessions'[x].files[g].done = sessions[x].files[g].done \cup
                        (IF acc /\ x = s /\ g = f THEN {i} ELSE {})
    BY <1>1, <2>1, <2>2, <2>3, <2>6
  <2>9. \A g \in Files : /\ state'[g] # None <=> state[g] # None
                         /\ state[g] # None =>
                              /\ state'[g].size = state[g].size
                              /\ state'[g].dir = state[g].dir
                              /\ state'[g].done = state[g].done \cup
                                   (IF acc /\ g = f THEN {i} ELSE {})
    BY <1>1, <2>4, <2>6
  <2> QED
    BY <1>3, <1>4, <2>2, <2>4, <2>7, <2>8, <2>9 DEF acc, r
<1>5. CASE ~Live(s)
  <2>1. SessionOf(r).task = None
    BY <1>5 DEF SessionOf, Live, DefaultSession
  <2>2. ~acc
    BY <1>3, <2>1
  <2>3. chunks(EntryOf(r).size) = {} /\ chunks(state[f].size) = {}
    BY <2>2
  <2> HIDE DEF acc, r, chunks
  <2>4. \A x \in Sids : /\ Live(x)' <=> Live(x)
                        /\ Live(x) => sessions'[x].task = sessions[x].task
    BY <1>1, <2>1, <1>5 DEF Live
  <2>5. \A x \in Sids, g \in Files : Live(x) => sessions'[x].files[g] = sessions[x].files[g]
    BY <1>1, <1>5
  <2>6. \A g \in Files : /\ state'[g] # None <=> state[g] # None
                         /\ state[g] # None =>
                              /\ state'[g].size = state[g].size
                              /\ state'[g].dir = state[g].dir
                              /\ state'[g].done = state[g].done
    BY <1>1, <2>3
  <2> QED
    BY <2>2, <2>4, <2>5, <2>6 DEF acc, r
<1> QED
  BY <1>4, <1>5

\* The last call of a chunk request, and its answer
LEMMA AnswerStored ==
  ASSUME Undisturbed, SystemInv, SystemInv', SpareInv, restarts = 0, StoredInv,
         NEW c \in Conns, AnswerChunk(c)
  PROVE  StoredInv'
<1>0. /\ TypeInv /\ TypeOK /\ EndChunk(c) /\ OnePage /\ SingleInv /\ conns[c] # None
      /\ UNCHANGED <<store, final, tasks, jobs, ready>>
      /\ Client!PageTypeOK /\ Client!PageTypeOK'
  BY DEF SystemInv, PageInv, TypeInv, AnswerChunk, EndChunk, SpareInv, Undisturbed
<1>1. conns[c].received = Blocks
  <2>1. conns[c].received \in 0 .. Blocks
    BY <1>0 DEF TypeOK, Request
  <2>2. ~(conns[c].received < Blocks)
    BY <1>0 DEF StoredInv, BodiesInv, AnswerChunk, Undisturbed, GentleEvents
  <2> QED
    BY <2>1, <2>2, ConstantsAssumption
<1>2. PICK s \in Sids, f \in Files, i \in Index :
        s = conns[c].sid /\ f = conns[c].file /\ i = conns[c].index
  BY <1>0 DEF TypeOK, Request
<1> DEFINE acc == ChunkAccepted(conns[c])
<1>3. /\ \A x \in Sids : /\ Live(x)' <=> Live(x)
                         /\ Live(x) => sessions'[x].task = sessions[x].task
      /\ \A x \in Sids, g \in Files : Live(x) =>
           /\ sessions'[x].files[g] # None <=> sessions[x].files[g] # None
           /\ sessions[x].files[g] # None =>
                /\ sessions'[x].files[g].size = sessions[x].files[g].size
                /\ sessions'[x].files[g].done = sessions[x].files[g].done \cup
                     (IF acc /\ x = s /\ g = f THEN {i} ELSE {})
      /\ \A g \in Files : /\ state'[g] # None <=> state[g] # None
                          /\ state[g] # None =>
                               /\ state'[g].size = state[g].size
                               /\ state'[g].dir = state[g].dir
                               /\ state'[g].done = state[g].done \cup
                                    (IF acc /\ g = f THEN {i} ELSE {})
      /\ acc => /\ Live(s) /\ sessions[s].files[f] # None /\ i < sessions[s].files[f].size
                /\ HasSize(s, f, i, Blocks) /\ state[f] # None /\ state[f].dir = s
  BY <1>0, <1>1, <1>2, AnswerLists
<1>4. /\ \A e \in Conns : e # c => conns'[e] = conns[e]
      /\ \A e \in Conns : conns'[e] # None => conns[e] # None /\ conns'[e] = conns[e] /\ e # c
  BY <1>0 DEF EndChunk, TypeOK
<1>5. \/ wire[c] = None /\ UNCHANGED <<pages, wire>>
      \/ acc /\ Client!Answered(c)
      \/ Client!Failed(c)
  BY DEF AnswerChunk
<1> HIDE DEF acc
<1>6. wire'[c] = None /\ \A e \in Conns : e # c => wire'[e] = wire[e]
  BY <1>0, <1>5 DEF Client!Answered, Client!Failed, Client!PageTypeOK
<1>7. ASSUME NEW b \in Browsers
      PROVE  /\ SameScript(b)
             /\ pages'[b].left = pages[b].left
             /\ \A g \in Files : pages[b].bad[g] \subseteq pages'[b].bad[g]
             /\ wire[c] # None /\ wire[c].page = b /\ wire[c].file \in pages[b].active =>
                  acc \/ wire[c].index \in pages'[b].bad[wire[c].file]
  <2>1. CASE wire[c] = None /\ UNCHANGED <<pages, wire>>
    BY <2>1 DEF SameScript
  <2>2. CASE acc /\ Client!Answered(c)
    BY <1>0, <2>2, AnswerEffect
  <2>3. CASE Client!Failed(c)
    BY <1>0, <2>3, AnswerEffect
  <2> QED
    BY <1>5, <2>1, <2>2, <2>3
<1>8. ScriptInv'
  BY <1>7, SameScriptSound DEF StoredInv, ScriptInv
<1>9. \A b \in Browsers : pages[b].sid = None \/ pages[b].sid \in Sids
  BY <1>0 DEF Client!PageTypeOK, Client!Page
<1>10. WiresInv'
  <2> SUFFICES ASSUME NEW e \in Conns, wire'[e] # None
               PROVE  /\ conns'[e] # None /\ conns'[e].file = wire'[e].file
                      /\ conns'[e].index = wire'[e].index
                      /\ pages'[wire'[e].page].phase # "idle"
                      /\ pages'[wire'[e].page].on =>
                           /\ conns'[e].sid = pages'[wire'[e].page].sid
                           /\ wire'[e].file \in pages'[wire'[e].page].active
                      /\ wire'[e].file \in pages'[wire'[e].page].active =>
                           wire'[e].index \notin pages'[wire'[e].page].left[wire'[e].file]
                      /\ \A d \in Conns : wire'[d] # None /\ wire'[d].file = wire'[e].file
                                            /\ wire'[d].index = wire'[e].index => d = e
    BY DEF WiresInv
  <2>1. e # c /\ wire'[e] = wire[e] /\ conns'[e] = conns[e] /\ wire[e] # None
    BY <1>4, <1>6
  <2>2. PICK b \in Browsers : b = wire[e].page
    BY <1>0, <2>1 DEF Client!PageTypeOK, Client!Request
  <2>3. /\ conns[e] # None /\ conns[e].file = wire[e].file /\ conns[e].index = wire[e].index
        /\ pages[b].phase # "idle"
        /\ pages[b].on => conns[e].sid = pages[b].sid /\ wire[e].file \in pages[b].active
        /\ wire[e].file \in pages[b].active =>
             wire[e].index \notin pages[b].left[wire[e].file]
        /\ \A d \in Conns : wire[d] # None /\ wire[d].file = wire[e].file
                              /\ wire[d].index = wire[e].index => d = e
    BY <2>1, <2>2 DEF StoredInv, WiresInv
  <2> QED
    BY <1>6, <1>7, <2>1, <2>2, <2>3 DEF SameScript
<1>11. BodiesInv'
  <2>1. \A e \in Conns : conns'[e] # None => wire'[e] = wire[e]
    BY <1>4, <1>6
  <2> QED
    BY <1>0, <1>4, <2>1 DEF StoredInv, BodiesInv
<1>12. WrittenInv'
  BY <1>0 DEF StoredInv, WrittenInv, HasChunk
<1>13. \A x \in Sids, g \in Files, j \in Index :
         HasSize(x, g, j, Blocks) => HasSize(x, g, j, Blocks)'
  BY <1>0 DEF HasSize, HasChunk
<1>14. ListsInv'
  <2>1. ASSUME NEW x \in Sids, NEW g \in Files, Live(x), sessions[x].files[g] # None
        PROVE  /\ \A b \in Browsers : sessions'[x].files[g].size = Length[b][g]
               /\ \A j \in sessions'[x].files[g].done :
                    j < sessions'[x].files[g].size /\ HasSize(x, g, j, Blocks)'
    <3>1. /\ \A b \in Browsers : sessions[x].files[g].size = Length[b][g]
          /\ \A j \in sessions[x].files[g].done :
               j < sessions[x].files[g].size /\ HasSize(x, g, j, Blocks)
      BY <2>1 DEF StoredInv, ListsInv
    <3>2. sessions[x].files[g].done \subseteq Index
      BY <1>0, <2>1 DEF TypeOK, Live, Session, FileEntry
    <3> QED
      BY <1>3, <1>13, <2>1, <3>1, <3>2
  <2>2. ASSUME NEW g \in Files, state[g] # None
        PROVE  /\ \A b \in Browsers : state'[g].size = Length[b][g]
               /\ state'[g].done = sessions'[state'[g].dir].files[g].done
    <3>1. PICK x \in Sids : x = state[g].dir
      BY <1>0, <2>2 DEF TypeOK, StateFile
    <3>2. Live(x) /\ sessions[x].files[g] # None
      BY <1>0, <2>2, <3>1 DEF SpareInv, DirsAreLive, SingleInv, SessionsKnowTheirFiles
    <3>3. /\ \A b \in Browsers : state[g].size = Length[b][g]
          /\ state[g].done = sessions[x].files[g].done
      BY <2>2, <3>1 DEF StoredInv, ListsInv
    <3>4. acc /\ g = f => x = s
      BY <1>3, <3>1
    <3>5. /\ state'[g].size = state[g].size /\ state'[g].dir = x
          /\ state'[g].done = state[g].done \cup (IF acc /\ g = f THEN {i} ELSE {})
      BY <1>3, <2>2, <3>1
    <3>6. sessions'[x].files[g].done = sessions[x].files[g].done \cup
            (IF acc /\ x = s /\ g = f THEN {i} ELSE {})
      BY <1>3, <3>2
    <3>7. acc /\ g # f => ~(x = s /\ g = f)
      OBVIOUS
    <3>8. x = s /\ g = f <=> g = f /\ x = s
      OBVIOUS
    <3> QED
      BY <3>3, <3>4, <3>5, <3>6
  <2> QED
    BY <1>3, <2>1, <2>2 DEF ListsInv
<1>15. DirsInv'
  <2>1. ASSUME NEW e \in Conns, conns'[e] # None,
               sessions'[conns'[e].sid] # None, sessions'[conns'[e].sid].task # None
        PROVE  state'[conns'[e].file] # None /\ state'[conns'[e].file].dir = conns'[e].sid
    <3>1. conns'[e] = conns[e] /\ conns[e] # None /\ conns[e] \in Request
      BY <1>0, <1>4, <2>1 DEF TypeOK
    <3>2. PICK x \in Sids, g \in Files : x = conns[e].sid /\ g = conns[e].file
      BY <3>1 DEF Request
    <3>3. Live(x)
      <4>1. Live(x)'
        BY <2>1, <3>1, <3>2 DEF Live
      <4> QED
        BY <1>3, <4>1
    <3>4. state[g] # None /\ state[g].dir = x
      BY <3>1, <3>2, <3>3 DEF StoredInv, DirsInv
    <3> QED
      BY <1>3, <3>1, <3>2, <3>4
  <2>2. ASSUME NEW b \in Browsers, NEW g \in Files, pages'[b].sid # None,
               sessions'[pages'[b].sid] # None, sessions'[pages'[b].sid].task # None,
               sessions'[pages'[b].sid].files[g] # None
        PROVE  state'[g] # None /\ state'[g].dir = pages'[b].sid
    <3>1. PICK x \in Sids : x = pages[b].sid /\ x = pages'[b].sid
      BY <1>7, <1>9, <2>2 DEF SameScript
    <3>2. Live(x) /\ sessions[x].files[g] # None /\ x # None
      <4>1. Live(x)'
        BY <2>2, <3>1 DEF Live
      <4> QED
        BY <1>3, <2>2, <3>1, <4>1
    <3>3. state[g] # None /\ state[g].dir = x
      BY <3>1, <3>2 DEF StoredInv, DirsInv
    <3> QED
      BY <1>3, <3>1, <3>3
  <2> QED
    BY <2>1, <2>2 DEF DirsInv, Live
<1>16. ProgressInv'
  <2> SUFFICES ASSUME NEW b \in Browsers
               PROVE  /\ pages'[b].phase \in AtWork => Live(pages[b].sid)' /\ Accounted(b)'
                      /\ pages'[b].on => Underway(b)'
    BY DEF ProgressInv
  <2>1. /\ pages'[b].phase = pages[b].phase /\ pages'[b].sid = pages[b].sid
        /\ pages'[b].on = pages[b].on /\ pages'[b].status = pages[b].status
        /\ pages'[b].todo = pages[b].todo /\ pages'[b].active = pages[b].active
        /\ pages'[b].left = pages[b].left /\ Picked(b)' = Picked(b)
    BY <1>7 DEF SameScript, Picked
  <2>2. ASSUME Live(pages[b].sid), pages[b].phase # "idle", NEW g \in Files
        PROVE  /\ Entry(b, g)' # None <=> Entry(b, g) # None
               /\ Entry(b, g) # None => Entry(b, g).done \subseteq Entry(b, g)'.done
               /\ Entry(b, g) # None /\ acc /\ pages[b].sid = s /\ g = f => i \in Entry(b, g)'.done
    <3>1. pages[b].sid \in Sids
      BY <1>9, <2>2 DEF SystemInv, PageInv, SidsAreSet
    <3> QED
      BY <1>3, <2>1, <2>2, <3>1 DEF Entry
  <2>3. ASSUME pages[b].phase \in AtWork
        PROVE  Live(pages[b].sid)' /\ Accounted(b)'
    <3>1. Live(pages[b].sid) /\ Accounted(b)
      BY <2>3 DEF StoredInv, ProgressInv
    <3>2. pages[b].sid \in Sids
      BY <1>9, <2>3 DEF SystemInv, PageInv, SidsAreSet, AtWork
    <3>3. Live(pages[b].sid)'
      BY <1>3, <2>1, <3>1, <3>2 DEF Live
    <3>4. Accounted(b)'
      <4>1. pages[b].phase # "idle"
        BY <2>3 DEF AtWork
      <4> QED
        BY <1>0, <2>1, <2>2, <3>1, <4>1 DEF Accounted, Chunks
    <3> QED
      BY <3>3, <3>4
  <2>4. ASSUME pages[b].on
        PROVE  Underway(b)'
    <3> SUFFICES ASSUME NEW g \in pages'[b].todo \cup pages'[b].active
                 PROVE  /\ Entry(b, g)' # None
                        /\ Chunks(b, g) \subseteq pages'[b].left[g] \cup Entry(b, g)'.done \cup
                             (IF g \in pages'[b].active
                              THEN pages'[b].bad[g] \cup Client!InFlight(b, g)' ELSE {})
      BY DEF Underway, Chunks
    <3>0. pages[b].phase = "run" /\ g \in Files /\ g \in pages[b].todo \cup pages[b].active
      BY <1>0, <2>1, <2>4 DEF StoredInv, ScriptInv, SoundScript, Client!PageTypeOK, Client!Page
    <3>1. Live(pages[b].sid)
      BY <3>0 DEF StoredInv, ProgressInv, AtWork
    <3>2. /\ Entry(b, g) # None
          /\ Chunks(b, g) \subseteq pages[b].left[g] \cup Entry(b, g).done \cup
               (IF g \in pages[b].active THEN pages[b].bad[g] \cup Client!InFlight(b, g) ELSE {})
      BY <2>4, <3>0 DEF StoredInv, ProgressInv, Underway
    <3>3. /\ Entry(b, g)' # None
          /\ Entry(b, g).done \subseteq Entry(b, g)'.done
          /\ acc /\ pages[b].sid = s /\ g = f => i \in Entry(b, g)'.done
      BY <2>2, <3>0, <3>1, <3>2
    <3>4. ASSUME g \in pages[b].active, NEW k \in Client!InFlight(b, g)
          PROVE  k \in Client!InFlight(b, g)' \cup pages'[b].bad[g] \cup Entry(b, g)'.done
      <4>1. PICK d \in Conns : /\ wire[d] # None /\ wire[d].page = b /\ wire[d].file = g
                               /\ wire[d].index = k
        BY DEF Client!InFlight
      <4>2. CASE d = c
        <5>1. conns[c].sid = pages[b].sid /\ conns[c].file = g /\ conns[c].index = k
          BY <2>4, <4>1, <4>2 DEF StoredInv, WiresInv
        <5> QED
          BY <1>2, <1>7, <3>3, <3>4, <4>1, <4>2, <5>1
      <4>3. CASE d # c
        <5>1. wire'[d] = wire[d]
          BY <1>6, <4>3
        <5> QED
          BY <4>1, <5>1 DEF Client!InFlight
      <4> QED
        BY <4>2, <4>3
    <3>5. pages[b].bad[g] \subseteq pages'[b].bad[g]
      BY <1>7, <3>0
    <3> QED
      BY <2>1, <3>2, <3>3, <3>4, <3>5
  <2> QED
    BY <2>1, <2>3, <2>4
<1>17. SamePublished
  BY <1>0, <1>7 DEF SamePublished, SameScript
<1>18. MergersInv'
  <2>1. \A w \in Merges, g \in Files :
          Whole(jobs[w].sid, g, jobs[w].todo[g]) => Whole(jobs[w].sid, g, jobs[w].todo[g])'
    BY <1>0 DEF Whole, HasSize, HasChunk
  <2> QED
    BY <1>17, <2>1, MergersKept DEF StoredInv
<1>19. TasksInv'
  BY <1>0, <1>3, <1>17, TasksKept DEF StoredInv
<1> QED
  BY <1>8, <1>10, <1>11, <1>12, <1>14, <1>15, <1>16, <1>18, <1>19 DEF StoredInv

-----------------------------------------------------------------------------
(* The end of an upload *)

\* Indices of chunks are numbers.
LEMMA IndexIsNat == Index \subseteq Nat
BY ConstantsAssumption DEF Index

\* Sizes are positive numbers.
LEMMA SizesArePositive == \A n \in Sizes : n \in Nat /\ n > 0
<1> SUFFICES ASSUME NEW n \in Sizes
             PROVE  n \in Nat /\ n > 0
  OBVIOUS
<1>1. n \in Nat \ {0}
  BY ConstantsAssumption
<1> QED
  BY <1>1

\* When the page finalizes, each of its files is in the upload directory or its
\* session has all chunks of it (finalize of receive.html after uploadConcurrent).
LEMMA FinalizedFiles ==
  ASSUME OnePage, SystemInv, StoredInv, NEW b \in Browsers, pages[b].phase = "finalizing",
         NEW x \in Sids, x = pages[b].sid
  PROVE  /\ Live(x)
         /\ \A f \in Chunked(x) :
              /\ sessions[x].files[f].size = Length[b][f]
              /\ sessions[x].files[f].done = 0 .. sessions[x].files[f].size - 1
              /\ Whole(x, f, sessions[x].files[f].size)
              /\ \A a \in Browsers : sessions[x].files[f].size = Length[a][f]
         /\ \A f \in Picked(b) : f \in Chunked(x) \/ final[f] # None
<1>0. TypeOK /\ Client!PageTypeOK
  BY DEF SystemInv, PageInv, TypeInv
<1>1. Live(x) /\ Accounted(b)
  BY DEF StoredInv, ProgressInv, AtWork
<1>2. \A f \in Picked(b) : pages[b].status[f] = "done"
  BY DEF StoredInv, ScriptInv, SoundScript, Picked
<1>3. ASSUME NEW f \in Chunked(x)
      PROVE  /\ sessions[x].files[f].size = Length[b][f]
             /\ sessions[x].files[f].done = 0 .. sessions[x].files[f].size - 1
             /\ Whole(x, f, sessions[x].files[f].size)
             /\ \A a \in Browsers : sessions[x].files[f].size = Length[a][f]
  <2>1. f \in Files /\ sessions[x].files[f] # None /\ Entry(b, f) = sessions[x].files[f]
    BY <1>3 DEF Chunked, Entry
  <2>2. pages[b].status[f] = "done"
    BY <1>1, <1>2, <2>1 DEF Accounted
  <2>3. 0 .. Length[b][f] - 1 \subseteq sessions[x].files[f].done
    BY <1>1, <2>1, <2>2 DEF Accounted, Chunks
  <2>4. /\ \A a \in Browsers : sessions[x].files[f].size = Length[a][f]
        /\ \A i \in sessions[x].files[f].done :
             i < sessions[x].files[f].size /\ HasSize(x, f, i, Blocks)
    BY <1>1, <2>1 DEF StoredInv, ListsInv
  <2>5. sessions[x].files[f].done \subseteq Nat /\ sessions[x].files[f].size \in Nat
    <3>1. sessions[x].files[f] \in FileEntry
      BY <1>0, <1>1, <2>1, SessionTask DEF Live
    <3>2. sessions[x].files[f].done \subseteq Index /\ sessions[x].files[f].size \in Sizes \cup {0}
      BY <3>1 DEF FileEntry
    <3>3. \A n \in Sizes \cup {0} : n \in Nat
      BY SizesArePositive
    <3>4. \A I \in SUBSET Index : I \subseteq Nat
      BY IndexIsNat
    <3> QED
      BY <3>2, <3>3, <3>4
  <2>6. sessions[x].files[f].done = 0 .. sessions[x].files[f].size - 1
    <3> DEFINE done == sessions[x].files[f].done
               n == sessions[x].files[f].size
    <3>1. /\ done \subseteq Nat /\ n \in Nat /\ 0 .. n - 1 \subseteq done
          /\ \A i \in done : i < n
      BY <2>3, <2>4, <2>5
    <3> HIDE DEF done, n
    <3>2. \A i \in done : i \in 0 .. n - 1
      BY <3>1
    <3>3. done = 0 .. n - 1
      BY <3>1, <3>2
    <3> QED
      BY <3>3 DEF done, n
  <2> QED
    BY <2>4, <2>6 DEF Whole
<1>4. ASSUME NEW f \in Picked(b), final[f] = None
      PROVE  f \in Chunked(x)
  <2>1. f \in Files /\ pages[b].status[f] = "done"
    BY <1>2, <1>4 DEF Picked
  <2>2. sessions[x].files[f] # None
    BY <1>1, <1>4, <2>1 DEF Accounted, Entry
  <2>3. sessions[x].files[f].size = Length[b][f]
    BY <1>1, <2>1, <2>2 DEF StoredInv, ListsInv
  <2>4. Length[b][f] \in Nat /\ Length[b][f] > 0
    <3>1. Length[b][f] \in Sizes
      BY <2>1, SystemAssumption
    <3> QED
      BY <3>1, SizesArePositive
  <2> QED
    BY <2>1, <2>2, <2>3, <2>4 DEF Chunked
<1> QED
  BY <1>1, <1>3, <1>4

\* What handleUploadFinalize does for a page: it merges all that is not there.
LEMMA FinalizedJob ==
  ASSUME OnePage, SystemInv, StoredInv, NEW b \in Browsers, pages[b].phase = "finalizing",
         NEW x \in Sids, x = pages[b].sid, NEW w \in Merges, UploadFinalize(x, w)
  PROVE  /\ \A v \in Merges : v # w => jobs'[v] = None
         /\ jobs'[w] # None
         /\ jobs'[w].sid = x /\ jobs'[w].task = sessions[x].task /\ jobs'[w].file = None
         /\ \A f \in Files : jobs'[w].todo[f] =
              IF f \in Chunked(x) THEN sessions[x].files[f].size ELSE 0
<1>0. TypeOK
  BY DEF SystemInv, TypeInv
<1>1. Live(x) /\ Complete(x)
  BY FinalizedFiles DEF Complete
<1>2. \A v \in Merges : jobs[v] = None
  BY DEF StoredInv, MergersInv, Idle
<1> DEFINE todo == [f \in Files |-> IF f \in Chunked(x) THEN sessions[x].files[f].size ELSE 0]
           job == [sid |-> x, task |-> sessions[x].task, file |-> None,
                   todo |-> todo, saved |-> {}]
<1>3. jobs' = [jobs EXCEPT ![w] = job]
  BY <1>1 DEF UploadFinalize
<1>4. job \in Job
  <2>1. /\ sessions[x].task \in Tasks \cup {None}
        /\ sessions[x].files \in [Files -> FileEntry \cup {None}]
    BY <1>0, <1>1, SessionTask DEF Live
  <2>2. todo \in [Files -> Sizes \cup {0}]
    BY <2>1 DEF Chunked, FileEntry
  <2> HIDE DEF todo
  <2> QED
    BY <2>1, <2>2 DEF Job
<1>5. job # None
  BY <1>4, NoneAssumption
<1>6. /\ job.sid = x /\ job.task = sessions[x].task /\ job.file = None
      /\ \A f \in Files : job.todo[f] = IF f \in Chunked(x) THEN sessions[x].files[f].size ELSE 0
  OBVIOUS
<1> HIDE DEF job
<1>7. jobs'[w] = job /\ \A v \in Merges : v # w => jobs'[v] = jobs[v]
  BY <1>0, <1>3 DEF TypeOK
<1> QED
  BY <1>2, <1>5, <1>6, <1>7

\* A page finalizes its upload.
LEMMA FinalizeStored ==
  ASSUME Undisturbed, SystemInv, SpareInv, StoredInv, NEW b \in Browsers, FinalizeUpload(b)
  PROVE  StoredInv'
<1>0. /\ TypeOK /\ TypeInv /\ OnePage /\ SingleInv /\ Client!PageTypeOK /\ FilesArePicked
      /\ pages[b].phase = "finalizing" /\ Client!Finalized(b)
  BY DEF SystemInv, PageInv, TypeInv, SpareInv, Undisturbed, FinalizeUpload
<1>1. PICK x \in Sids : x = pages[b].sid
  BY <1>0 DEF SystemInv, PageInv, SidsAreSet, Client!PageTypeOK, Client!Page
<1>2. /\ Live(x)
      /\ \A f \in Chunked(x) :
           /\ sessions[x].files[f].size = Length[b][f]
           /\ sessions[x].files[f].done = 0 .. sessions[x].files[f].size - 1
           /\ Whole(x, f, sessions[x].files[f].size)
           /\ \A a \in Browsers : sessions[x].files[f].size = Length[a][f]
      /\ \A f \in Picked(b) : f \in Chunked(x) \/ final[f] # None
  BY <1>0, <1>1, FinalizedFiles
<1>3. PICK w \in Merges : UploadFinalize(x, w)
  BY <1>1, <1>2 DEF FinalizeUpload, Live
<1>4. /\ \A v \in Merges : v # w => jobs'[v] = None
      /\ jobs'[w] # None
      /\ jobs'[w].sid = x /\ jobs'[w].task = sessions[x].task /\ jobs'[w].file = None
      /\ \A f \in Files : jobs'[w].todo[f] =
           IF f \in Chunked(x) THEN sessions[x].files[f].size ELSE 0
  BY <1>0, <1>1, <1>3, FinalizedJob
<1>5. /\ UNCHANGED <<store, final, tasks, conns, ready>>
      /\ sessions'[x] = None /\ \A s \in Sids : s # x => sessions'[s] = sessions[s]
      /\ \A f \in Files : state'[f] = IF f \in Chunked(x) THEN None ELSE state[f]
  BY <1>0, <1>3 DEF UploadFinalize, StateWithout, TypeOK
<1>6. /\ wire' = wire
      /\ pages'[b].sid = pages[b].sid /\ pages'[b].on = pages[b].on
      /\ pages'[b].status = pages[b].status
      /\ pages'[b].todo = pages[b].todo /\ pages'[b].active = pages[b].active
      /\ pages'[b].left = pages[b].left
      /\ pages'[b].phase = "sent"
  <2>1. ~Client!EndCall(b)
    BY <1>0 DEF Client!EndCall
  <2> QED
    BY <1>0, <2>1, EndCallEffect
<1>7. \A a \in Browsers : a = b
  BY <1>0 DEF OnePage
<1>8. ScriptInv'
  <2>1. SoundScript(pages[b])
    BY DEF StoredInv, ScriptInv
  <2>2. PICK f \in Files : TRUE
    BY ConstantsAssumption
  <2>3. SoundScript(pages'[b])
    BY <1>0, <2>1, <2>2, OwnStepSound
  <2> QED
    BY <1>7, <2>3 DEF ScriptInv
<1>9. WiresInv'
  <2>1. ASSUME NEW c \in Conns, wire'[c] # None
        PROVE  /\ wire'[c] = wire[c]
               /\ pages'[b].phase # "idle"
               /\ pages'[b].on => /\ pages[b].on /\ pages'[b].sid = pages[b].sid
                                  /\ wire[c].file \in pages'[b].active
               /\ wire[c].file \in pages'[b].active =>
                    wire[c].index \notin pages'[b].left[wire[c].file]
    <3>1. wire'[c] = wire[c] /\ wire[c] # None /\ wire[c].page = b
      BY <1>0, <1>6, <1>7, <2>1 DEF Client!PageTypeOK, Client!Request
    <3> QED
      BY <1>6, <3>1 DEF StoredInv, WiresInv
  <2> QED
    BY <1>0, <1>5, <2>1, WiresKept DEF StoredInv
<1>10. BodiesInv' /\ WrittenInv'
  BY <1>5, <1>6 DEF StoredInv, BodiesInv, WrittenInv, HasChunk
<1>11. \A s \in Sids : Live(s)' => s # x /\ Live(s) /\ sessions'[s] = sessions[s]
  BY <1>5 DEF Live
<1>12. ASSUME NEW f \in Files, state'[f] # None
       PROVE  state'[f] = state[f] /\ state[f].dir # x /\ state[f].dir \in Sids
  <2>1. state'[f] = state[f] /\ state[f] # None /\ f \notin Chunked(x)
    BY <1>5, <1>12
  <2>2. state[f].dir # x
    BY <1>0, <1>2, <2>1, EndedSessionFiles
  <2> QED
    BY <1>0, <2>1, <2>2 DEF TypeOK, StateFile
<1>13. ListsInv'
  <2>1. ASSUME NEW s \in Sids, NEW f \in Files, Live(s)', sessions'[s].files[f] # None
        PROVE  /\ \A a \in Browsers : sessions'[s].files[f].size = Length[a][f]
               /\ \A i \in sessions'[s].files[f].done :
                    i < sessions'[s].files[f].size /\ HasSize(s, f, i, Blocks)'
    <3>1. Live(s) /\ sessions'[s] = sessions[s]
      BY <1>11, <2>1
    <3>2. \A i : HasSize(s, f, i, Blocks)' <=> HasSize(s, f, i, Blocks)
      BY <1>5 DEF HasSize, HasChunk
    <3> QED
      BY <2>1, <3>1, <3>2 DEF StoredInv, ListsInv
  <2>2. ASSUME NEW f \in Files, state'[f] # None
        PROVE  /\ \A a \in Browsers : state'[f].size = Length[a][f]
               /\ state'[f].done = sessions'[state'[f].dir].files[f].done
    BY <1>5, <1>12, <2>2 DEF StoredInv, ListsInv
  <2> QED
    BY <2>1, <2>2 DEF ListsInv
<1>14. DirsInv'
  <2>1. ASSUME NEW c \in Conns, conns'[c] # None,
               sessions'[conns'[c].sid] # None, sessions'[conns'[c].sid].task # None
        PROVE  state'[conns'[c].file] # None /\ state'[conns'[c].file].dir = conns'[c].sid
    <3>1. conns'[c] = conns[c] /\ conns[c] # None
      BY <1>5, <2>1
    <3>2. PICK s \in Sids, f \in Files : s = conns[c].sid /\ f = conns[c].file
      BY <1>0, <3>1 DEF TypeOK, Request
    <3>3. Live(s) /\ s # x
      BY <1>5, <2>1, <3>1, <3>2 DEF Live
    <3>4. state[f] # None /\ state[f].dir = s
      BY <3>1, <3>2, <3>3 DEF StoredInv, DirsInv
    <3>5. f \notin Chunked(x)
      <4>1. ASSUME f \in Chunked(x)
            PROVE  state[f].dir = x
        BY <1>0, <1>1, <1>2, <4>1, NoneAssumption DEF StoredInv, DirsInv, Chunked
      <4> QED
        BY <3>3, <3>4, <4>1
    <3> QED
      BY <1>5, <3>1, <3>2, <3>4, <3>5
  <2>2. \A a \in Browsers : pages'[a].sid = x
    BY <1>1, <1>6, <1>7
  <2> QED
    BY <1>5, <2>1, <2>2 DEF DirsInv, Live
<1>15. ProgressInv'
  <2>1. pages'[b].phase \notin AtWork
    BY <1>6 DEF AtWork
  <2>2. pages'[b].on => pages'[b].todo = {} /\ pages'[b].active = {}
    BY <1>0, <1>6 DEF StoredInv, ScriptInv, SoundScript
  <2>3. pages'[b].on => Underway(b)'
    BY <2>2 DEF Underway
  <2> QED
    BY <1>7, <2>1, <2>3 DEF ProgressInv
<1>16. \A f \in Files : f \in Chunked(x) => jobs'[w].todo[f] > 0
  BY <1>4 DEF Chunked
<1>17. Picked(b)' = Picked(b)
  BY <1>6 DEF Picked
<1>18. \A f \in Picked(b) : final[f] # None \/ jobs'[w].todo[f] > 0
  BY <1>2, <1>16 DEF Picked
<1>19. ASSUME NEW f \in Files, jobs'[w].todo[f] > 0
       PROVE  /\ \A a \in Browsers : jobs'[w].todo[f] = Length[a][f]
              /\ Whole(jobs'[w].sid, f, jobs'[w].todo[f])
  <2>1. f \in Chunked(x) /\ jobs'[w].todo[f] = sessions[x].files[f].size
    BY <1>4, <1>19
  <2> QED
    BY <1>2, <1>4, <2>1
<1>20. \A f \in Files : ~ToMerge(f)
  BY <1>0 DEF StoredInv, MergersInv, Idle, ToMerge
<1>21. \A a \in Browsers : pages'[a].phase = "sent" /\ Picked(a)' = Picked(b)
  BY <1>6, <1>7, <1>17
<1>22. MergersInv'
  <2>1. \A v, u \in Merges : jobs'[v] # None /\ jobs'[u] # None => v = u
    BY <1>4
  <2>2. ASSUME NEW v \in Merges, jobs'[v] # None
        PROVE  /\ jobs'[v].file # None => jobs'[v].todo[jobs'[v].file] > 0
               /\ \A f \in Files : jobs'[v].todo[f] > 0 =>
                    /\ jobs'[v].sid # None
                    /\ \A i \in 0 .. jobs'[v].todo[f] - 1 :
                         /\ store'[jobs'[v].sid][f] # None
                         /\ store'[jobs'[v].sid][f][i] # None
                         /\ store'[jobs'[v].sid][f][i].len = Blocks
                    /\ \A a \in Browsers : jobs'[v].todo[f] = Length[a][f]
    <3>1. v = w
      BY <1>4, <2>2
    <3> QED
      BY <1>4, <1>5, <1>19, <3>1, NoneAssumption DEF Whole, HasSize, HasChunk
  <2>3. \A f \in Files, a \in Browsers :
          /\ final'[f] # None => final'[f] = [size |-> Length[a][f], data |-> Content[a]]
          /\ f \in Picked(b) => ToMerge(f)' \/ final'[f] # None
    BY <1>4, <1>5, <1>18, <1>20 DEF StoredInv, MergersInv, ToMerge
  <2>4. \A a \in Browsers : pages'[a].phase # "sent" => Idle'
    BY <1>21
  <2> QED
    BY <1>21, <2>1, <2>2, <2>3, <2>4 DEF MergersInv, Whole, HasSize, HasChunk
<1>23. TasksInv'
  <2>1. \A t, f : IsTaskOf(t, f)' <=> IsTaskOf(t, f)
    BY <1>5 DEF IsTaskOf
  <2>2. \A f \in Files : IsTaskOf(sessions[x].task, f) => f \in Picked(b)
    BY <1>0, <1>1 DEF StoredInv, TasksInv, AtWork
  <2>3. ASSUME NEW t \in Tasks, NEW f \in Files, IsTaskOf(t, f)'
        PROVE  /\ tasks'[t].status = "Completed" => final'[f] # None
               /\ \A v \in Merges : jobs'[v] # None /\ jobs'[v].task = t =>
                    final'[f] # None \/ jobs'[v].todo[f] > 0
               /\ \A k \in 1 .. Len(ready') : ready'[k].task = t => final'[f] # None
    <3>1. IsTaskOf(t, f)
      BY <2>1, <2>3
    <3>2. ASSUME NEW v \in Merges, jobs'[v] # None, jobs'[v].task = t
          PROVE  final'[f] # None \/ jobs'[v].todo[f] > 0
      <4>1. v = w /\ sessions[x].task = t
        BY <1>4, <3>2
      <4>2. f \in Picked(b)
        BY <2>2, <3>1, <4>1
      <4> QED
        BY <1>5, <1>18, <4>1, <4>2
    <3> QED
      BY <1>5, <3>1, <3>2 DEF StoredInv, TasksInv
  <2>4. \A a \in Browsers : pages'[a].phase \notin AtWork
    BY <1>21 DEF AtWork
  <2> QED
    BY <2>3, <2>4 DEF TasksInv
<1> QED
  BY <1>8, <1>9, <1>10, <1>13, <1>14, <1>15, <1>22, <1>23 DEF StoredInv

-----------------------------------------------------------------------------
(* The transfer list *)

\* Pauses and resumptions change the statuses of tasks, and complete none.
LEMMA PausedTaskEffect ==
  ASSUME TypeOK, NEW t \in Tasks, PauseTask(t) \/ ResumeTask(t) \/ AutoPause(t),
         NEW u \in Tasks, tasks'[u] # None
  PROVE  /\ tasks[u] # None /\ tasks'[u].name = tasks[u].name
         /\ tasks'[u].status = "Completed" => tasks[u].status = "Completed"
<1>1. /\ tasks[t] # None
      /\ \E p \in {"Paused", "Uploading"} : tasks' = [tasks EXCEPT ![t].status = p]
  BY NoneAssumption DEF PauseTask, ResumeTask, AutoPause, EnginePause, EngineResume, SetTask
<1>2. PICK p \in {"Paused", "Uploading"} : tasks' = [tasks EXCEPT ![t].status = p]
  BY <1>1
<1>3. CASE u # t
  BY <1>2, <1>3 DEF TypeOK
<1>4. CASE u = t
  <2>1. tasks[t] \in Task
    BY <1>1 DEF TypeOK
  <2>2. tasks'[t] = [tasks[t] EXCEPT !.status = p]
    BY <1>2 DEF TypeOK
  <2> QED
    BY <1>1, <1>4, <2>1, <2>2 DEF Task
<1> QED
  BY <1>3, <1>4

\* A step of the user or of the engine's timer
LEMMA UserStored ==
  ASSUME Undisturbed, SystemInv, SpareInv, restarts = 0, StoredInv,
         NEW t \in Tasks, UserStep(t)
  PROVE  StoredInv'
<1>0. /\ TypeOK /\ TypeInv /\ Client!PageTypeOK /\ UNCHANGED <<pages, wire>>
      /\ PauseTask(t) \/ ResumeTask(t) \/ AutoPause(t)
  BY DEF SystemInv, PageInv, TypeInv, Undisturbed, GentleEvents, UserStep
<1>1. /\ UNCHANGED <<store, state, conns, jobs>>
      /\ SameButPaused(sessions, sessions')
  BY <1>0, PauseStepKeeps DEF PauseStep
<1>2. UNCHANGED <<final, ready>>
  BY <1>0 DEF PauseTask, ResumeTask, AutoPause
<1>3. \A s \in Sids : /\ Live(s)' <=> Live(s)
                      /\ Live(s) => /\ sessions'[s].task = sessions[s].task
                                    /\ sessions'[s].files = sessions[s].files
  BY <1>1 DEF SameButPaused, Live
<1>4. ScriptInv' /\ WiresInv' /\ BodiesInv' /\ WrittenInv'
  BY <1>0, <1>1 DEF StoredInv, ScriptInv, WiresInv, BodiesInv, WrittenInv, HasChunk
<1>5. ListsInv'
  <2>1. ASSUME NEW s \in Sids, NEW f \in Files, Live(s)', sessions'[s].files[f] # None
        PROVE  /\ \A a \in Browsers : sessions'[s].files[f].size = Length[a][f]
               /\ \A i \in sessions'[s].files[f].done :
                    i < sessions'[s].files[f].size /\ HasSize(s, f, i, Blocks)'
    <3>1. Live(s) /\ sessions'[s].files = sessions[s].files
      BY <1>3, <2>1
    <3>2. \A i : HasSize(s, f, i, Blocks)' <=> HasSize(s, f, i, Blocks)
      BY <1>1 DEF HasSize, HasChunk
    <3> QED
      BY <2>1, <3>1, <3>2 DEF StoredInv, ListsInv
  <2>2. ASSUME NEW f \in Files, state[f] # None
        PROVE  sessions'[state[f].dir].files = sessions[state[f].dir].files
    BY <1>0, <1>3, <2>2 DEF SpareInv, DirsAreLive, TypeOK, StateFile
  <2> QED
    BY <1>1, <2>1, <2>2 DEF StoredInv, ListsInv
<1>6. DirsInv'
  <2>1. \A c \in Conns : conns[c] # None => conns[c].sid \in Sids
    BY <1>0 DEF TypeOK, Request
  <2>2. \A b \in Browsers : pages[b].sid # None => pages[b].sid \in Sids
    BY <1>0 DEF Client!PageTypeOK, Client!Page
  <2>3. \A c \in Conns : conns'[c] # None /\ Live(conns[c].sid)' =>
          state'[conns'[c].file] # None /\ state'[conns'[c].file].dir = conns'[c].sid
    BY <1>1, <1>3, <2>1 DEF StoredInv, DirsInv
  <2>4. \A b \in Browsers, f \in Files :
          pages[b].sid # None /\ Live(pages[b].sid)' /\ sessions'[pages[b].sid].files[f] # None =>
            state'[f] # None /\ state'[f].dir = pages[b].sid
    BY <1>0, <1>1, <1>3, <2>2 DEF StoredInv, DirsInv
  <2> QED
    BY <1>0, <1>1, <2>3, <2>4 DEF DirsInv, Live
<1>7. ProgressInv'
  <2> SUFFICES ASSUME NEW b \in Browsers
               PROVE  /\ pages'[b].phase \in AtWork => Live(pages[b].sid)' /\ Accounted(b)'
                      /\ pages'[b].on => Underway(b)'
    BY <1>0 DEF ProgressInv
  <2>1. ASSUME pages[b].phase \in AtWork
        PROVE  Live(pages[b].sid)' /\ \A f \in Files : Entry(b, f)' = Entry(b, f)
    <3>1. Live(pages[b].sid) /\ pages[b].sid \in Sids
      BY <1>0, <2>1
      DEF StoredInv, ProgressInv, SystemInv, PageInv, SidsAreSet, AtWork, Client!PageTypeOK,
          Client!Page
    <3> QED
      BY <1>0, <1>3, <3>1 DEF Entry, Live
  <2>2. Picked(b)' = Picked(b) /\ \A f \in Files : Client!InFlight(b, f)' = Client!InFlight(b, f)
    BY <1>0 DEF Picked, Client!InFlight
  <2>3. ASSUME pages[b].phase \in AtWork
        PROVE  Accounted(b)'
    BY <1>0, <1>2, <2>1, <2>2, <2>3 DEF StoredInv, ProgressInv, Accounted, Chunks
  <2>4. ASSUME pages[b].on
        PROVE  Underway(b)'
    <3>1. CASE pages[b].phase = "run"
      <4>1. \A f \in pages[b].todo \cup pages[b].active : f \in Files
        BY <1>0 DEF Client!PageTypeOK, Client!Page
      <4>2. Underway(b)
        BY <2>4 DEF StoredInv, ProgressInv
      <4> QED
        BY <1>0, <2>1, <2>2, <3>1, <4>1, <4>2 DEF Underway, AtWork, Chunks
    <3>2. CASE pages[b].phase # "run"
      <4>1. pages'[b].todo = {} /\ pages'[b].active = {}
        BY <1>0, <2>4, <3>2 DEF StoredInv, ScriptInv, SoundScript
      <4> QED
        BY <4>1 DEF Underway
    <3> QED
      BY <3>1, <3>2
  <2> QED
    BY <1>0, <2>1, <2>3, <2>4
<1>8. SamePublished
  BY <1>0, <1>1, <1>2 DEF SamePublished
<1>9. MergersInv'
  <2>1. \A w \in Merges, g \in Files :
          Whole(jobs[w].sid, g, jobs[w].todo[g]) => Whole(jobs[w].sid, g, jobs[w].todo[g])'
    BY <1>1 DEF Whole, HasSize, HasChunk
  <2> QED
    BY <1>8, <2>1, MergersKept DEF StoredInv
<1>10. TasksInv'
  <2>1. \A u \in Tasks : tasks'[u] # None =>
          /\ tasks[u] # None /\ tasks'[u].name = tasks[u].name
          /\ tasks'[u].status = "Completed" => tasks[u].status = "Completed"
    BY <1>0, PausedTaskEffect
  <2> QED
    BY <1>3, <1>8, <2>1, TasksKept DEF StoredInv
<1> QED
  BY <1>4, <1>5, <1>6, <1>7, <1>9, <1>10 DEF StoredInv

-----------------------------------------------------------------------------
(* The merges *)

\* A step that removes chunk files that no connection writes, and writes none
StoreShrinks ==
  \A s \in Sids, f \in Files, i \in Index :
    /\ HasChunk(s, f, i)' => HasChunk(s, f, i) /\ store'[s][f][i] = store[s][f][i]
    /\ Open(s, f, i) /\ HasChunk(s, f, i) => HasChunk(s, f, i)'

\* What removeRecursively and the validation leave of a directory
LEMMA Removal ==
  ASSUME TypeOK, NEW s \in Sids, NEW f \in Files, NEW i \in Index, NEW d, NEW I,
         d = store[s][f] \/ d = RemovedDir(s, f) \/ d = Unlinked(s, f, I)
  PROVE  /\ d # None /\ d[i] # None => HasChunk(s, f, i) /\ d[i] = store[s][f][i]
         /\ Open(s, f, i) /\ HasChunk(s, f, i) => d # None /\ d[i] = store[s][f][i]
<1>1. Open(s, f, i) /\ HasChunk(s, f, i) => d # None /\ d[i] = store[s][f][i]
  BY OpenSurvives DEF HasChunk
<1>2. \A J : Unlinked(s, f, J) # None /\ Unlinked(s, f, J)[i] # None =>
        HasChunk(s, f, i) /\ Unlinked(s, f, J)[i] = store[s][f][i]
  BY DEF Unlinked, HasChunk
<1>3. d # None /\ d[i] # None => HasChunk(s, f, i) /\ d[i] = store[s][f][i]
  BY <1>2 DEF RemovedDir, HasChunk
<1> QED
  BY <1>1, <1>3

\* What a step of a merge does to the chunk files
LEMMA MergeStore ==
  ASSUME SingleInv, NEW w \in Merges, CopyMerged(w) \/ EndMerge(w)
  PROVE  /\ StoreShrinks
         /\ \A s \in Sids : Live(s) => store'[s] = store[s]
         /\ CopyMerged(w) => \A s \in Sids, g \in Files :
              g # jobs[w].file => store'[s][g] = store[s][g]
<1> DEFINE d == jobs[w].sid
<1>0. TypeOK /\ jobs[w] \in Job /\ store \in [Sids -> [Files -> ChunkDir \cup {None}]]
  BY DEF SingleInv, TypeInv, TypeOK, CopyMerged, EndMerge
<1>1. CASE CopyMerged(w)
  <2> DEFINE f == jobs[w].file
  <2>1. store' = store \/ store' = [store EXCEPT ![d][f] = RemovedDir(d, f)]
    BY <1>1 DEF CopyMerged
  <2>2. ASSUME NEW s \in Sids, Live(s)
        PROVE  s # d
    <3>1. jobs[w] # None
      BY <1>1 DEF CopyMerged
    <3> QED
      BY <2>2, <3>1, NoneAssumption DEF SingleInv, MergeHasDirAlone
  <2> HIDE DEF d, f
  <2>3. ASSUME NEW s \in Sids, NEW g \in Files
        PROVE  /\ store'[s][g] = store[s][g] \/ store'[s][g] = RemovedDir(s, g)
               /\ g # f => store'[s][g] = store[s][g]
    BY <1>0, <2>1
  <2>4. StoreShrinks
    <3> SUFFICES ASSUME NEW s \in Sids, NEW g \in Files, NEW i \in Index
                 PROVE  /\ HasChunk(s, g, i)' =>
                             HasChunk(s, g, i) /\ store'[s][g][i] = store[s][g][i]
                        /\ Open(s, g, i) /\ HasChunk(s, g, i) => HasChunk(s, g, i)'
      BY DEF StoreShrinks
    <3>1. /\ store'[s][g] # None /\ store'[s][g][i] # None =>
               HasChunk(s, g, i) /\ store'[s][g][i] = store[s][g][i]
          /\ Open(s, g, i) /\ HasChunk(s, g, i) =>
               store'[s][g] # None /\ store'[s][g][i] = store[s][g][i]
      BY <1>0, <2>3, Removal
    <3> QED
      BY <3>1 DEF HasChunk
  <2>5. \A s \in Sids : Live(s) => store'[s] = store[s]
    BY <1>0, <2>1, <2>2
  <2> QED
    BY <2>3, <2>4, <2>5 DEF f
<1>2. CASE EndMerge(w)
  <2> DEFINE left == IF d = None THEN store ELSE [store EXCEPT ![d] = RemovedDirs(d)]
             used(s) == \E g \in Files : left[s][g] # None /\ \E i \in Index : left[s][g][i] # None
  <2>1. \A s \in Sids : store'[s] = IF sessions[s] = None /\ ~used(s) THEN NoDirs ELSE left[s]
    BY <1>2 DEF EndMerge
  <2>2. ASSUME NEW s \in Sids, Live(s)
        PROVE  s # d
    BY <1>2, <2>2, NoneAssumption DEF EndMerge, SingleInv, MergeHasDirAlone
  <2> HIDE DEF d
  <2>3. \A s \in Sids, g \in Files : left[s][g] = store[s][g] \/ left[s][g] = RemovedDir(s, g)
    BY <1>0 DEF RemovedDirs
  <2>4. \A s \in Sids : s # d => left[s] = store[s]
    BY <1>0
  <2> HIDE DEF left
  <2>5. StoreShrinks
    <3> SUFFICES ASSUME NEW s \in Sids, NEW g \in Files, NEW i \in Index
                 PROVE  /\ HasChunk(s, g, i)' =>
                             HasChunk(s, g, i) /\ store'[s][g][i] = store[s][g][i]
                        /\ Open(s, g, i) /\ HasChunk(s, g, i) => HasChunk(s, g, i)'
      BY DEF StoreShrinks
    <3>1. /\ left[s][g] # None /\ left[s][g][i] # None =>
               HasChunk(s, g, i) /\ left[s][g][i] = store[s][g][i]
          /\ Open(s, g, i) /\ HasChunk(s, g, i) =>
               left[s][g] # None /\ left[s][g][i] = store[s][g][i]
      BY <1>0, <2>3, Removal
    <3>2. CASE store'[s] = left[s]
      BY <3>1, <3>2 DEF HasChunk
    <3>3. CASE store'[s] = NoDirs /\ ~used(s)
      BY <3>1, <3>3 DEF HasChunk, NoDirs
    <3> QED
      BY <2>1, <3>2, <3>3
  <2>6. \A s \in Sids : Live(s) => store'[s] = store[s]
    BY <2>1, <2>2, <2>4 DEF Live
  <2>7. ~CopyMerged(w)
    <3>1. ASSUME CopyMerged(w)
          PROVE  FALSE
      <4>1. jobs' = [jobs EXCEPT ![w] = None]
        BY <1>2 DEF EndMerge
      <4>2. /\ ready' = ready
            /\ ready' = Append(ready, [task |-> jobs[w].task, saved |-> jobs[w].saved])
        BY <1>2, <3>1 DEF EndMerge, CopyMerged
      <4>3. Len(ready') = Len(ready) + 1 /\ Len(ready) \in Nat
        BY <1>0, <4>2 DEF TypeOK
      <4> QED
        BY <4>2, <4>3
    <3> QED
      BY <3>1
  <2> QED
    BY <2>5, <2>6, <2>7
<1> QED
  BY <1>1, <1>2

\* A step of the pool leaves what the handlers and the pages go by.
LEMMA ShrinkStored ==
  ASSUME SystemInv, StoredInv, UNCHANGED <<pages, wire, conns, sessions, state>>,
         StoreShrinks, \A s \in Sids : Live(s) => store'[s] = store[s],
         \A f \in Files : final[f] # None => final'[f] # None
  PROVE  /\ ScriptInv' /\ WiresInv' /\ BodiesInv' /\ WrittenInv' /\ ListsInv' /\ DirsInv'
         /\ ProgressInv'
<1>0. TypeOK /\ WrittenChunkExists
  BY DEF SystemInv, TypeInv
<1>1. ScriptInv' /\ WiresInv' /\ DirsInv'
  BY DEF StoredInv, ScriptInv, WiresInv, DirsInv, Live
<1>2. BodiesInv'
  <2>1. ASSUME NEW c \in Conns, conns[c] # None
        PROVE  store'[conns[c].sid][conns[c].file][conns[c].index]
                 = store[conns[c].sid][conns[c].file][conns[c].index]
    <3>1. conns[c].sid \in Sids /\ conns[c].file \in Files /\ conns[c].index \in Index
      BY <1>0, <2>1 DEF TypeOK, Request
    <3>2. /\ HasChunk(conns[c].sid, conns[c].file, conns[c].index)
          /\ Open(conns[c].sid, conns[c].file, conns[c].index)
      BY <1>0, <2>1 DEF WrittenChunkExists, Open
    <3>3. PICK s \in Sids, f \in Files, i \in Index :
            s = conns[c].sid /\ f = conns[c].file /\ i = conns[c].index
      BY <3>1
    <3>4. HasChunk(s, f, i)' /\ store'[s][f][i] = store[s][f][i]
      BY <3>2, <3>3 DEF StoreShrinks
    <3> QED
      BY <3>3, <3>4
  <2> QED
    BY <2>1 DEF StoredInv, BodiesInv
<1>3. WrittenInv'
  BY DEF StoredInv, WrittenInv, StoreShrinks
<1>4. ListsInv'
  <2>1. ASSUME NEW s \in Sids, NEW f \in Files, Live(s), sessions[s].files[f] # None
        PROVE  \A i \in sessions[s].files[f].done : HasSize(s, f, i, Blocks)'
    <3>1. store'[s] = store[s]
      BY <2>1
    <3> QED
      BY <2>1, <3>1 DEF StoredInv, ListsInv, HasSize, HasChunk
  <2>2. \A s \in Sids : Live(s)' <=> Live(s)
    BY DEF Live
  <2> QED
    BY <2>1, <2>2 DEF StoredInv, ListsInv
<1>5. ProgressInv'
  <2>1. \A b \in Browsers : Accounted(b) => Accounted(b)'
    BY DEF Accounted, Entry, Picked, Chunks
  <2>2. \A b \in Browsers : Underway(b) => Underway(b)'
    BY DEF Underway, Entry, Chunks, Client!InFlight
  <2> QED
    BY <2>1, <2>2 DEF StoredInv, ProgressInv, Live
<1> QED
  BY <1>1, <1>2, <1>3, <1>4, <1>5

\* The output file of a merge is opened.
LEMMA OpenStored ==
  ASSUME SystemInv, StoredInv, UNCHANGED <<pages, wire>>,
         NEW w \in Merges, NEW f \in Files, OpenMerged(w, f)
  PROVE  StoredInv'
<1>0. TypeOK /\ jobs[w] \in Job /\ jobs[w] # None /\ jobs[w].todo[f] > 0
  BY DEF SystemInv, TypeInv, TypeOK, OpenMerged
<1>1. /\ UNCHANGED <<store, conns, sessions, state, tasks, ready>>
      /\ \A g \in Files : g # f => final'[g] = final[g]
      /\ \A v \in Merges : v # w => jobs'[v] = jobs[v]
  BY <1>0 DEF OpenMerged, TypeOK
<1>2. /\ jobs'[w] # None /\ jobs'[w].sid = jobs[w].sid /\ jobs'[w].todo = jobs[w].todo
      /\ jobs'[w].task = jobs[w].task /\ jobs'[w].file = f
  <2> DEFINE job == [jobs[w] EXCEPT !.file = f]
  <2>1. jobs'[w] = job
    BY <1>0 DEF OpenMerged, TypeOK
  <2>2. job \in Job /\ job.sid = jobs[w].sid /\ job.todo = jobs[w].todo
        /\ job.task = jobs[w].task /\ job.file = f
    BY <1>0 DEF Job
  <2> HIDE DEF job
  <2> QED
    BY <2>1, <2>2, NoneAssumption
<1>3. \A b \in Browsers : pages[b].phase = "sent"
  BY <1>0 DEF StoredInv, MergersInv, Idle
<1>4. \A v \in Merges : /\ jobs'[v] # None <=> jobs[v] # None
                        /\ jobs[v] # None => /\ jobs'[v].sid = jobs[v].sid
                                             /\ jobs'[v].todo = jobs[v].todo
                                             /\ jobs'[v].task = jobs[v].task
                        /\ v # w => jobs'[v] = jobs[v]
  BY <1>0, <1>1, <1>2
<1>5. final'[f] # None
  <2>1. TypeInv'
    BY OpenMergedType DEF SystemInv
  <2> DEFINE n == IF Whole(jobs[w].sid, f, jobs[w].todo[f]) THEN jobs[w].todo[f] ELSE 0
  <2>2. final'[f] = [size |-> n, data |-> Damaged] /\ n \in Sizes \cup {0}
    BY <1>0 DEF OpenMerged, TypeOK, Job
  <2> HIDE DEF n
  <2>3. [size |-> n, data |-> Damaged] \in FinalFile
    BY <2>2 DEF FinalFile
  <2> QED
    BY <2>2, <2>3, NoneAssumption
<1>6. \A g \in Files : ToMerge(g)' <=> ToMerge(g)
  BY <1>4 DEF ToMerge
<1>7. StoreShrinks
  BY <1>1 DEF StoreShrinks, HasChunk
<1>8. /\ ScriptInv' /\ WiresInv' /\ BodiesInv' /\ WrittenInv' /\ ListsInv' /\ DirsInv'
      /\ ProgressInv'
  BY <1>1, <1>5, <1>7, ShrinkStored
<1>9. MergersInv'
  <2>1. \A v, u \in Merges : jobs'[v] # None /\ jobs'[u] # None => v = u
    BY <1>4 DEF StoredInv, MergersInv
  <2>2. ASSUME NEW v \in Merges, jobs'[v] # None
        PROVE  /\ jobs'[v].file # None => jobs'[v].todo[jobs'[v].file] > 0
               /\ \A g \in Files : jobs'[v].todo[g] > 0 =>
                    /\ jobs'[v].sid # None /\ Whole(jobs'[v].sid, g, jobs'[v].todo[g])
                    /\ \A b \in Browsers : jobs'[v].todo[g] = Length[b][g]
    <3>1. v = w
      BY <1>0, <1>2, <2>1, <2>2
    <3>2. jobs[v] # None /\ jobs'[v].sid = jobs[v].sid /\ jobs'[v].todo = jobs[v].todo
      BY <1>4, <2>2
    <3> QED
      BY <1>0, <1>2, <3>1, <3>2 DEF StoredInv, MergersInv
  <2>3. ASSUME NEW g \in Files, NEW b \in Browsers
        PROVE  /\ final'[g] # None =>
                    ToMerge(g)' \/ final'[g] = [size |-> Length[b][g], data |-> Content[b]]
               /\ g \in Picked(b) => ToMerge(g)' \/ final'[g] # None
    <3>1. CASE g = f
      BY <1>0, <1>2, <3>1 DEF ToMerge
    <3>2. CASE g # f
      BY <1>1, <1>3, <1>6, <3>2 DEF StoredInv, MergersInv
    <3> QED
      BY <3>1, <3>2
  <2>4. \A b \in Browsers : pages'[b].phase = "sent" /\ Picked(b)' = Picked(b)
    BY <1>3 DEF Picked
  <2>5. ASSUME NEW v \in Merges, jobs'[v] # None, NEW g \in Files, jobs'[v].todo[g] > 0
        PROVE  \A i \in 0 .. jobs'[v].todo[g] - 1 :
                 /\ store'[jobs'[v].sid][g] # None
                 /\ store'[jobs'[v].sid][g][i] # None
                 /\ store'[jobs'[v].sid][g][i].len = Blocks
    BY <1>1, <2>2, <2>5 DEF Whole, HasSize, HasChunk
  <2> QED
    BY <2>1, <2>2, <2>3, <2>4, <2>5 DEF MergersInv, Whole, HasSize, HasChunk
<1>10. TasksInv'
  <2>1. \A t, g : IsTaskOf(t, g)' <=> IsTaskOf(t, g)
    BY <1>1 DEF IsTaskOf
  <2>2. ASSUME NEW t \in Tasks, NEW g \in Files, IsTaskOf(t, g)
        PROVE  /\ tasks'[t].status = "Completed" => final'[g] # None
               /\ \A v \in Merges : jobs'[v] # None /\ jobs'[v].task = t =>
                    final'[g] # None \/ jobs'[v].todo[g] > 0
               /\ \A k \in 1 .. Len(ready') : ready'[k].task = t => final'[g] # None
    <3>1. /\ tasks[t].status = "Completed" => final[g] # None
          /\ \A v \in Merges : jobs[v] # None /\ jobs[v].task = t =>
                    final[g] # None \/ jobs[v].todo[g] > 0
          /\ \A k \in 1 .. Len(ready) : ready[k].task = t => final[g] # None
      BY <2>2 DEF StoredInv, TasksInv
    <3>2. final[g] # None => final'[g] # None
      BY <1>1, <1>5
    <3> QED
      BY <1>1, <1>4, <3>1, <3>2
  <2>3. \A b \in Browsers : pages'[b].phase \notin AtWork
    BY <1>3 DEF AtWork
  <2> QED
    BY <2>1, <2>2, <2>3 DEF TasksInv
<1> QED
  BY <1>8, <1>9, <1>10 DEF StoredInv

\* A file is merged: all its chunks are there, so the copy has the content of the
\* page's file and its size, whatever the size of the output was before.
LEMMA CopyEffect ==
  ASSUME SystemInv, StoredInv, NEW w \in Merges, CopyMerged(w),
         NEW f \in Files, f = jobs[w].file
  PROVE  /\ final'[f] # None
         /\ \A b \in Browsers : final'[f] = [size |-> Length[b][f], data |-> Content[b]]
         /\ \A g \in Files : g # f => final'[g] = final[g]
         /\ \A v \in Merges : v # w => jobs'[v] = jobs[v]
         /\ jobs'[w] # None /\ jobs'[w].sid = jobs[w].sid /\ jobs'[w].file = None
         /\ jobs'[w].task = jobs[w].task /\ jobs'[w].todo[f] = 0
         /\ \A g \in Files : g # f => jobs'[w].todo[g] = jobs[w].todo[g]
<1>0. TypeOK /\ jobs[w] \in Job /\ jobs[w] # None
  BY DEF SystemInv, TypeInv, TypeOK, CopyMerged
<1> DEFINE s == jobs[w].sid
           n == jobs[w].todo[f]
           copied == {d \in Data : Whole(s, f, n) /\ Holds(s, f, n, d)}
           data == IF copied = {} THEN Damaged ELSE CHOOSE d \in copied : TRUE
<1>1. /\ n \in Sizes /\ s \in Sids /\ Whole(s, f, n) /\ \A b \in Browsers : n = Length[b][f]
  <2>1. n > 0 /\ s # None /\ Whole(s, f, n) /\ \A b \in Browsers : n = Length[b][f]
    BY <1>0, NoneAssumption DEF StoredInv, MergersInv
  <2> QED
    BY <1>0, <2>1 DEF Job
<1>2. data \in Data \cup {Damaged}
  OBVIOUS
<1>3. ASSUME NEW b \in Browsers
      PROVE  data = Content[b]
  <2>1. Content[b] \in Data
    BY SystemAssumption
  <2>2. \A i \in 0 .. n - 1, k \in 1 .. Blocks : store[s][f][i].blocks[k] = Content[b]
    <3>1. \A i \in 0 .. n - 1 : i \in Index
      BY <1>1, IndexOfSize
    <3>2. \A i \in 0 .. n - 1 : HasChunk(s, f, i) /\ store[s][f][i].len = Blocks
      BY <1>1 DEF Whole, HasSize
    <3> HIDE DEF s, n
    <3> QED
      BY <1>1, <3>1, <3>2 DEF StoredInv, WrittenInv
  <2>3. Content[b] \in copied
    BY <1>1, <2>1, <2>2 DEF Holds
  <2>4. 0 \in 0 .. n - 1 /\ 1 \in 1 .. Blocks
    <3>1. n \in Nat /\ n > 0
      BY <1>1, SizesArePositive
    <3> HIDE DEF n
    <3> QED
      BY <3>1, ConstantsAssumption
  <2>5. \A d \in copied : d = Content[b]
    BY <2>2, <2>4 DEF Holds
  <2> HIDE DEF copied
  <2> QED
    BY <2>3, <2>5
<1> HIDE DEF copied
<1>4. final' = [final EXCEPT ![f] = [size |-> n, data |-> data]]
  BY <1>1 DEF CopyMerged, copied
<1> HIDE DEF data
<1>5. [size |-> n, data |-> data] \in FinalFile
  <2> HIDE DEF n
  <2> QED
    BY <1>1, <1>2 DEF FinalFile
<1>6. final'[f] = [size |-> n, data |-> data] /\ \A g \in Files : g # f => final'[g] = final[g]
  <2> HIDE DEF n
  <2> QED
    BY <1>0, <1>4 DEF TypeOK
<1>7. /\ final'[f] # None
      /\ \A b \in Browsers : final'[f] = [size |-> Length[b][f], data |-> Content[b]]
  BY <1>1, <1>3, <1>5, <1>6, NoneAssumption
<1>8. PICK saved \in SUBSET Files :
        jobs' = [jobs EXCEPT ![w] = [jobs[w] EXCEPT !.file = None, !.todo[f] = 0, !.saved = saved]]
  <2> DEFINE merged == \A i \in 0 .. n - 1 : HasChunk(s, f, i)
             sized  == final[f].size = n \/ Whole(s, f, n)
             more == IF merged /\ sized THEN jobs[w].saved \cup {f} ELSE jobs[w].saved
  <2>1. jobs' = [jobs EXCEPT ![w] = [jobs[w] EXCEPT !.file = None, !.todo[f] = 0, !.saved = more]]
    BY <1>0 DEF CopyMerged, TypeOK
  <2>2. more \in SUBSET Files
    BY <1>0 DEF Job
  <2> HIDE DEF more
  <2> QED
    BY <2>1, <2>2
<1> DEFINE job == [jobs[w] EXCEPT !.file = None, !.todo[f] = 0, !.saved = saved]
<1>9. /\ job \in Job /\ job.sid = s /\ job.file = None /\ job.task = jobs[w].task
      /\ job.todo[f] = 0 /\ \A g \in Files : g # f => job.todo[g] = jobs[w].todo[g]
  BY <1>0 DEF Job
<1> HIDE DEF job, s, n
<1>10. jobs'[w] = job /\ \A v \in Merges : v # w => jobs'[v] = jobs[v]
  BY <1>0, <1>8 DEF TypeOK, job
<1> QED
  BY <1>6, <1>7, <1>9, <1>10, NoneAssumption DEF s

\* The copy ends, and the directory of the file is removed.
LEMMA CopyStored ==
  ASSUME SystemInv, SingleInv, StoredInv, UNCHANGED <<pages, wire>>,
         NEW w \in Merges, CopyMerged(w)
  PROVE  StoredInv'
<1>0. TypeOK /\ jobs[w] \in Job /\ jobs[w] # None
  BY DEF SystemInv, TypeInv, TypeOK, CopyMerged
<1>1. PICK f \in Files : f = jobs[w].file
  BY <1>0 DEF Job, CopyMerged
<1>2. /\ final'[f] # None
      /\ \A b \in Browsers : final'[f] = [size |-> Length[b][f], data |-> Content[b]]
      /\ \A g \in Files : g # f => final'[g] = final[g]
      /\ \A v \in Merges : v # w => jobs'[v] = jobs[v]
      /\ jobs'[w] # None /\ jobs'[w].sid = jobs[w].sid /\ jobs'[w].file = None
      /\ jobs'[w].task = jobs[w].task /\ jobs'[w].todo[f] = 0
      /\ \A g \in Files : g # f => jobs'[w].todo[g] = jobs[w].todo[g]
  BY <1>1, CopyEffect
<1>3. UNCHANGED <<conns, sessions, state, tasks, ready>>
  BY DEF CopyMerged
<1>4. /\ StoreShrinks
      /\ \A s \in Sids : Live(s) => store'[s] = store[s]
      /\ \A s \in Sids, g \in Files : g # f => store'[s][g] = store[s][g]
  BY <1>1, MergeStore
<1>5. /\ ScriptInv' /\ WiresInv' /\ BodiesInv' /\ WrittenInv' /\ ListsInv' /\ DirsInv'
      /\ ProgressInv'
  BY <1>2, <1>3, <1>4, ShrinkStored
<1>6. \A b \in Browsers : pages[b].phase = "sent"
  BY <1>0 DEF StoredInv, MergersInv, Idle
<1>7. \A v \in Merges : jobs[v] # None <=> v = w
  BY <1>0 DEF StoredInv, MergersInv
<1>8. \A v \in Merges : jobs'[v] # None <=> v = w
  BY <1>2, <1>7
<1>9. \A g \in Files : g # f => (ToMerge(g)' <=> ToMerge(g))
  BY <1>2, <1>7, <1>8 DEF ToMerge
<1>10. MergersInv'
  <2>1. ASSUME NEW g \in Files, jobs'[w].todo[g] > 0
        PROVE  /\ jobs'[w].sid # None
               /\ \A i \in 0 .. jobs'[w].todo[g] - 1 :
                    /\ store'[jobs'[w].sid][g] # None
                    /\ store'[jobs'[w].sid][g][i] # None
                    /\ store'[jobs'[w].sid][g][i].len = Blocks
               /\ \A b \in Browsers : jobs'[w].todo[g] = Length[b][g]
    <3>1. g # f /\ jobs'[w].todo[g] = jobs[w].todo[g]
      BY <1>2, <2>1
    <3>2. /\ jobs[w].sid # None /\ Whole(jobs[w].sid, g, jobs[w].todo[g])
          /\ \A b \in Browsers : jobs[w].todo[g] = Length[b][g]
      BY <1>0, <2>1, <3>1 DEF StoredInv, MergersInv
    <3>3. store'[jobs[w].sid][g] = store[jobs[w].sid][g]
      BY <1>0, <1>4, <3>1, <3>2 DEF Job
    <3> QED
      BY <1>2, <3>1, <3>2, <3>3 DEF Whole, HasSize, HasChunk
  <2>2. ASSUME NEW g \in Files, NEW b \in Browsers
        PROVE  /\ final'[g] # None =>
                    ToMerge(g)' \/ final'[g] = [size |-> Length[b][g], data |-> Content[b]]
               /\ g \in Picked(b) => ToMerge(g)' \/ final'[g] # None
    <3>1. CASE g = f
      BY <1>2, <3>1
    <3>2. CASE g # f
      BY <1>2, <1>6, <1>9, <3>2 DEF StoredInv, MergersInv
    <3> QED
      BY <3>1, <3>2
  <2>3. \A b \in Browsers : pages'[b].phase = "sent" /\ Picked(b)' = Picked(b)
    BY <1>6 DEF Picked
  <2> QED
    BY <1>2, <1>8, <2>1, <2>2, <2>3 DEF MergersInv, Whole, HasSize, HasChunk
<1>11. TasksInv'
  <2>1. \A t, g : IsTaskOf(t, g)' <=> IsTaskOf(t, g)
    BY <1>3 DEF IsTaskOf
  <2>2. ASSUME NEW t \in Tasks, NEW g \in Files, IsTaskOf(t, g)
        PROVE  /\ tasks'[t].status = "Completed" => final'[g] # None
               /\ \A v \in Merges : jobs'[v] # None /\ jobs'[v].task = t =>
                    final'[g] # None \/ jobs'[v].todo[g] > 0
               /\ \A k \in 1 .. Len(ready') : ready'[k].task = t => final'[g] # None
    <3>1. /\ tasks[t].status = "Completed" => final[g] # None
          /\ jobs[w].task = t => final[g] # None \/ jobs[w].todo[g] > 0
          /\ \A k \in 1 .. Len(ready) : ready[k].task = t => final[g] # None
      BY <1>7, <2>2 DEF StoredInv, TasksInv
    <3>2. final[g] # None => final'[g] # None
      BY <1>2
    <3>3. jobs[w].todo[g] > 0 => final'[g] # None \/ jobs'[w].todo[g] > 0
      BY <1>2
    <3> QED
      BY <1>2, <1>3, <1>8, <3>1, <3>2, <3>3
  <2>3. \A b \in Browsers : pages'[b].phase \notin AtWork
    BY <1>6 DEF AtWork
  <2> QED
    BY <2>1, <2>2, <2>3 DEF TasksInv
<1> QED
  BY <1>5, <1>10, <1>11 DEF StoredInv

\* The worker ends, and its signal is queued.
LEMMA EndStored ==
  ASSUME SystemInv, SingleInv, StoredInv, UNCHANGED <<pages, wire>>,
         NEW w \in Merges, EndMerge(w)
  PROVE  StoredInv'
<1>0. TypeOK /\ jobs[w] \in Job /\ jobs[w] # None /\ \A f \in Files : jobs[w].todo[f] = 0
  BY DEF SystemInv, TypeInv, TypeOK, EndMerge
<1>1. /\ UNCHANGED <<conns, sessions, state, tasks, final>>
      /\ ready' = Append(ready, [task |-> jobs[w].task, saved |-> jobs[w].saved])
  BY DEF EndMerge
<1>2. StoreShrinks /\ \A s \in Sids : Live(s) => store'[s] = store[s]
  BY MergeStore
<1>3. /\ ScriptInv' /\ WiresInv' /\ BodiesInv' /\ WrittenInv' /\ ListsInv' /\ DirsInv'
      /\ ProgressInv'
  BY <1>1, <1>2, ShrinkStored
<1>4. \A b \in Browsers : pages[b].phase = "sent"
  BY <1>0 DEF StoredInv, MergersInv, Idle
<1>5. \A v \in Merges : jobs[v] # None => v = w
  BY <1>0 DEF StoredInv, MergersInv
<1>6. \A v \in Merges : jobs'[v] = None
  BY <1>0, <1>5 DEF EndMerge, TypeOK
<1>7. \A f \in Files : ~ToMerge(f)
  BY <1>0, <1>5 DEF ToMerge
<1>8. MergersInv'
  <2>1. \A b \in Browsers : pages'[b].phase = "sent" /\ Picked(b)' = Picked(b)
    BY <1>4 DEF Picked
  <2>2. \A f \in Files, b \in Browsers :
          /\ final'[f] # None => final'[f] = [size |-> Length[b][f], data |-> Content[b]]
          /\ f \in Picked(b) => final'[f] # None
    BY <1>1, <1>4, <1>7 DEF StoredInv, MergersInv
  <2> QED
    BY <1>6, <2>1, <2>2 DEF MergersInv
<1>9. TasksInv'
  <2>1. \A t, g : IsTaskOf(t, g)' <=> IsTaskOf(t, g)
    BY <1>1 DEF IsTaskOf
  <2>2. ready \in Seq(Finished) /\ Len(ready) \in Nat /\ Len(ready') = Len(ready) + 1
        /\ ready'[Len(ready) + 1].task = jobs[w].task
        /\ \A k \in 1 .. Len(ready) : ready'[k] = ready[k]
    BY <1>0, <1>1 DEF TypeOK
  <2>3. ASSUME NEW t \in Tasks, NEW g \in Files, IsTaskOf(t, g)
        PROVE  /\ tasks'[t].status = "Completed" => final'[g] # None
               /\ \A k \in 1 .. Len(ready') : ready'[k].task = t => final'[g] # None
    <3>1. /\ tasks[t].status = "Completed" => final[g] # None
          /\ jobs[w].task = t => final[g] # None \/ jobs[w].todo[g] > 0
          /\ \A k \in 1 .. Len(ready) : ready[k].task = t => final[g] # None
      BY <1>0, <2>3 DEF StoredInv, TasksInv
    <3>2. jobs[w].task = t => final[g] # None
      BY <1>0, <3>1
    <3>3. \A k \in 1 .. Len(ready') : k \in 1 .. Len(ready) \/ k = Len(ready) + 1
      BY <2>2
    <3> QED
      BY <1>1, <2>2, <3>1, <3>2, <3>3
  <2>4. \A b \in Browsers : pages'[b].phase \notin AtWork
    BY <1>4 DEF AtWork
  <2> QED
    BY <1>6, <2>1, <2>3, <2>4 DEF TasksInv
<1> QED
  BY <1>3, <1>8, <1>9 DEF StoredInv

\* The main thread completes the task of a merge, whose files are all there.
LEMMA ReadyStored ==
  ASSUME SystemInv, StoredInv, UNCHANGED <<pages, wire>>, FinalizeReady
  PROVE  StoredInv'
<1>0. TypeOK /\ ready \in Seq(Finished) /\ ready # <<>>
  BY DEF SystemInv, TypeInv, TypeOK, FinalizeReady
<1>1. UNCHANGED <<store, conns, sessions, state, final, jobs>> /\ ready' = Tail(ready)
  BY DEF FinalizeReady
<1>2. StoreShrinks
  BY <1>1 DEF StoreShrinks, HasChunk
<1>3. /\ ScriptInv' /\ WiresInv' /\ BodiesInv' /\ WrittenInv' /\ ListsInv' /\ DirsInv'
      /\ ProgressInv'
  BY <1>1, <1>2, ShrinkStored
<1>4. \A b \in Browsers : pages[b].phase = "sent"
  BY <1>0 DEF StoredInv, MergersInv, Idle
<1>5. MergersInv'
  BY <1>1, <1>4 DEF StoredInv, MergersInv, ToMerge, Picked, Whole, HasSize, HasChunk
<1>6. TasksInv'
  <2>1. Head(ready) = ready[1] /\ Len(ready) \in Nat /\ 1 \in 1 .. Len(ready)
        /\ \A k \in 1 .. Len(ready') : k + 1 \in 1 .. Len(ready) /\ ready'[k] = ready[k + 1]
    BY <1>0, <1>1
  <2>2. ASSUME NEW t \in Tasks, tasks'[t] # None
        PROVE  /\ tasks[t] # None /\ tasks'[t].name = tasks[t].name
               /\ tasks'[t].status = "Completed" =>
                    tasks[t].status = "Completed" \/ ready[1].task = t
    <3> DEFINE u == Head(ready).task
    <3>1. \/ tasks' = tasks
          \/ tasks[u] # None /\ tasks' = [tasks EXCEPT ![u].status = "Completed"]
      BY DEF FinalizeReady
    <3>2. u = ready[1].task
      BY <2>1
    <3> HIDE DEF u
    <3>3. CASE tasks' = tasks
      BY <2>2, <3>3
    <3>4. CASE tasks[u] # None /\ tasks' = [tasks EXCEPT ![u].status = "Completed"]
      <4>1. CASE t # u
        BY <1>0, <2>2, <3>4, <4>1 DEF TypeOK
      <4>2. CASE t = u
        <5>1. tasks[u] \in Task
          BY <1>0, <3>4, <4>2 DEF TypeOK
        <5>2. tasks'[t] = [tasks[u] EXCEPT !.status = "Completed"]
          BY <1>0, <3>4, <4>2 DEF TypeOK
        <5> QED
          BY <3>2, <3>4, <4>2, <5>1, <5>2 DEF Task
      <4> QED
        BY <4>1, <4>2
    <3> QED
      BY <3>1, <3>3, <3>4
  <2>3. ASSUME NEW t \in Tasks, NEW g \in Files, IsTaskOf(t, g)'
        PROVE  /\ tasks'[t].status = "Completed" => final[g] # None
               /\ \A v \in Merges : jobs[v] # None /\ jobs[v].task = t =>
                    final[g] # None \/ jobs[v].todo[g] > 0
               /\ \A k \in 1 .. Len(ready') : ready'[k].task = t => final[g] # None
    <3>1. IsTaskOf(t, g)
      BY <2>2, <2>3 DEF IsTaskOf
    <3>2. /\ tasks[t].status = "Completed" => final[g] # None
          /\ \A v \in Merges : jobs[v] # None /\ jobs[v].task = t =>
                    final[g] # None \/ jobs[v].todo[g] > 0
          /\ \A k \in 1 .. Len(ready) : ready[k].task = t => final[g] # None
      BY <3>1 DEF StoredInv, TasksInv
    <3>3. tasks'[t].status = "Completed" => tasks[t].status = "Completed" \/ ready[1].task = t
      BY <2>2, <2>3 DEF IsTaskOf
    <3> QED
      BY <2>1, <3>2, <3>3
  <2>4. \A b \in Browsers : pages'[b].phase \notin AtWork
    BY <1>4 DEF AtWork
  <2> QED
    BY <1>1, <2>3, <2>4 DEF TasksInv
<1> QED
  BY <1>3, <1>5, <1>6 DEF StoredInv

-----------------------------------------------------------------------------
(* The check of a page: the server *)

\* The file is not in the upload directory; the completed chunks of its state file
Missing(b, g) == final[g] = None \/ final[g].size # Length[b][g]
OldDone(g) == IF state[g] = None THEN {} ELSE state[g].done

\* What a check of file g by page b does, when it ends with session d and task t:
\* the session either has a fresh id, and then the file has no chunks, or the id
\* that its state file names.
CheckedServer(b, g, d, t) ==
  /\ UNCHANGED <<final, conns, jobs, ready>>
  /\ StoreShrinks
  /\ \A s \in Sids : Live(s) => store'[s] = store[s]
  /\ \A s \in Sids : s # d =>
       /\ Live(s)' <=> Live(s)
       /\ Live(s) => /\ sessions'[s].task = sessions[s].task
                     /\ sessions'[s].files = sessions[s].files
  /\ Live(d)' /\ sessions'[d].task = t
  /\ \A f \in Files : sessions'[d].files[f] # None <=> Missing(b, g) /\ f = g
  /\ \A f \in Files : ~(Missing(b, g) /\ f = g) => state'[f] = state[f]
  /\ Missing(b, g) =>
       /\ sessions'[d].files[g].size = Length[b][g]
       /\ sessions'[d].files[g].done = OldDone(g)
       /\ state'[g] # None /\ state'[g].dir = d
       /\ state'[g].size = Length[b][g] /\ state'[g].done = OldDone(g)
  /\ \/ /\ d \notin issued
        /\ Missing(b, g) /\ state[g] # None => store[state[g].dir][g] = None
     \/ Missing(b, g) /\ state[g] # None /\ state[g].dir = d

\* No state file is outdated, and no completed chunk is wrong.
LEMMA NothingWrong ==
  ASSUME SpareInv, restarts = 0, StoredInv, NEW f \in Files, state[f] # None
  PROVE  /\ \A b \in Browsers : state[f].size = Length[b][f]
         /\ WrongChunks(f) = {}
         /\ Live(state[f].dir) /\ state[f].dir \in Sids
         /\ sessions[state[f].dir].files[f] # None
         /\ state[f].done = sessions[state[f].dir].files[f].done
<1>1. state[f].dir \in Sids
  BY DEF SpareInv, SingleInv, TypeInv, TypeOK, StateFile
<1>2. Live(state[f].dir)
  BY DEF SpareInv, DirsAreLive
<1>3. sessions[state[f].dir].files[f] # None
  BY <1>1, <1>2 DEF SpareInv, SingleInv, SessionsKnowTheirFiles
<1>4. /\ \A b \in Browsers : state[f].size = Length[b][f]
      /\ state[f].done = sessions[state[f].dir].files[f].done
  BY DEF StoredInv, ListsInv
<1>5. \A i \in state[f].done : HasSize(state[f].dir, f, i, Blocks)
  BY <1>1, <1>2, <1>3, <1>4 DEF StoredInv, ListsInv
<1> QED
  BY <1>1, <1>2, <1>3, <1>4, <1>5 DEF WrongChunks

\* What a check does to the chunk files: it removes those without a session.
LEMMA CheckStore ==
  ASSUME SpareInv, restarts = 0, StoredInv, NEW b \in Browsers, NEW g \in Files,
         NEW size, size[g] = Length[b][g], NEW s0,
         store' = CheckedStore({g}, size, s0)
  PROVE  StoreShrinks /\ \A s \in Sids : Live(s) => store'[s] = store[s]
<1>0. TypeOK
  BY DEF SpareInv, SingleInv, TypeInv
<1>1. Outdated({g}, size) = {}
  BY NothingWrong DEF Outdated, Needed
<1>2. ASSUME NEW s \in Sids, NEW f \in Files, state[f] # None, state[f].dir = s
      PROVE  Unlinked(s, f, WrongChunks(f)) = store[s][f]
  <2>1. WrongChunks(f) = {}
    BY <1>2, NothingWrong
  <2>2. store[s][f] = None \/ store[s][f] \in ChunkDir
    BY <1>0 DEF TypeOK
  <2> QED
    BY <2>1, <2>2 DEF Unlinked, ChunkDir
<1>3. ASSUME NEW s \in Sids, NEW f \in Files
      PROVE  /\ Live(s) => store'[s][f] = store[s][f]
             /\ store'[s][f] = store[s][f] \/ store'[s][f] = RemovedDir(s, f)
  BY <1>1, <1>2 DEF CheckedStore, Matching
<1>4. StoreShrinks
  <2> SUFFICES ASSUME NEW s \in Sids, NEW f \in Files, NEW i \in Index
               PROVE  /\ HasChunk(s, f, i)' => HasChunk(s, f, i) /\ store'[s][f][i] = store[s][f][i]
                      /\ Open(s, f, i) /\ HasChunk(s, f, i) => HasChunk(s, f, i)'
    BY DEF StoreShrinks
  <2>1. /\ store'[s][f] # None /\ store'[s][f][i] # None =>
             HasChunk(s, f, i) /\ store'[s][f][i] = store[s][f][i]
        /\ Open(s, f, i) /\ HasChunk(s, f, i) =>
             store'[s][f] # None /\ store'[s][f][i] = store[s][f][i]
    BY <1>0, <1>3, Removal
  <2> QED
    BY <2>1 DEF HasChunk
<1>5. ASSUME NEW s \in Sids, Live(s)
      PROVE  store'[s] = store[s]
  <2>1. store'[s] = [f \in Files |-> store'[s][f]]
    BY DEF CheckedStore
  <2>2. store[s] = [f \in Files |-> store[s][f]]
    BY <1>0 DEF TypeOK
  <2> QED
    BY <1>3, <1>5, <2>1, <2>2
<1> QED
  BY <1>4, <1>5

\* A check of one file, as the page makes it
LEMMA CheckServerEffect ==
  ASSUME SingleFileChecks, SpareInv, restarts = 0, StoredInv, NEW b \in Browsers,
         NEW S \in Selections, NEW size \in [S -> Sizes], \A f \in S : size[f] = Length[b][f],
         NEW s0 \in Sids, NEW t0 \in Tasks, NEW t \in Tasks, UploadCheck(S, size, s0, t0, t)
  PROVE  \E g \in Files, d \in Sids :
           /\ S = {g} /\ d = ChosenSid(S, size, s0) /\ CheckedServer(b, g, d, t)
           /\ \A f \in Files : f \in Needed(S, size) <=> Missing(b, g) /\ f = g
           /\ sessions'[d].files = CheckedFiles(S, size)
<1>0. TypeInv /\ TypeOK /\ IdsIssued /\ SingleInv
  BY DEF SpareInv, SingleInv, TypeInv
<1>1. /\ state' = CheckedState(S, size, s0, t0) /\ store' = CheckedStore(S, size, s0)
      /\ UNCHANGED <<final, conns, jobs, ready>> /\ s0 \notin issued
  BY DEF UploadCheck
<1>2. PICK g \in Files :
        /\ S = {g}
        /\ DirAt(g, S, size, s0) = ChosenSid(S, size, s0)
        /\ \/ Reusable(S, size) = {} /\ ChosenSid(S, size, s0) = s0
           \/ Reusable(S, size) = {g} /\ ChosenSid(S, size, s0) = state[g].dir
  BY SingleCheck
<1>3. PICK d \in Sids : d = ChosenSid(S, size, s0)
  BY <1>0, CheckedSession
<1>4. /\ DirAt(g, S, size, s0) = d
      /\ \/ Reusable(S, size) = {} /\ d = s0
         \/ Reusable(S, size) = {g} /\ d = state[g].dir
  BY <1>2, <1>3
<1>5. \A f \in Files : f \in Needed(S, size) <=> Missing(b, g) /\ f = g
  BY <1>2 DEF Needed, Missing
<1>6. /\ StoreShrinks
      /\ \A s \in Sids : Live(s) => store'[s] = store[s]
  <2>1. store' = CheckedStore({g}, size, s0) /\ size[g] = Length[b][g]
    BY <1>1, <1>2
  <2> QED
    BY <2>1, CheckStore
<1>7. /\ sessions'[d] # None
      /\ sessions'[d].task # None
      /\ sessions'[d].files = CheckedFiles(S, size)
      /\ \A s \in Sids : s # d =>
           /\ sessions[s] = None <=> sessions'[s] = None
           /\ sessions[s] # None =>
                /\ sessions'[s].task = sessions[s].task
                /\ sessions'[s].files = sessions[s].files
  <2> DEFINE x == ChosenSid(S, size, s0)
  <2>1. /\ sessions'[x] # None
        /\ sessions'[x].task # None
        /\ sessions'[x].files = CheckedFiles(S, size)
        /\ \A s \in Sids : s # x =>
             /\ sessions[s] = None <=> sessions'[s] = None
             /\ sessions[s] # None =>
                  /\ sessions'[s].task = sessions[s].task
                  /\ sessions'[s].files = sessions[s].files
    BY <1>0, CheckedSession
  <2>2. d = x
    BY <1>3
  <2> HIDE DEF x
  <2> QED
    BY <2>1, <2>2
<1>8. \A s \in Sids : s # d =>
        /\ Live(s)' <=> Live(s)
        /\ Live(s) => /\ sessions'[s].task = sessions[s].task
                      /\ sessions'[s].files = sessions[s].files
  BY <1>7 DEF Live
<1>9. sessions'[d].task = t
  <2> DEFINE ss == Notified(sessions, t, FALSE)
             x == [task |-> t, files |-> CheckedFiles(S, size), paused |-> FALSE]
  <2>1. sessions' = [ss EXCEPT ![d] = x]
    BY <1>3 DEF UploadCheck
  <2>2. DOMAIN ss = Sids
    BY DEF Notified
  <2> HIDE DEF ss
  <2>3. sessions'[d] = x
    BY <2>1, <2>2
  <2> QED
    BY <2>3
<1>10. Live(d)'
  BY <1>7 DEF Live
<1>11. Missing(b, g) => (g \in Matching(S, size) <=> state[g] # None)
  BY <1>5, <1>2, NothingWrong DEF Matching
<1>12. \A f \in Files :
         /\ sessions'[d].files[f] # None <=> f \in Needed(S, size)
         /\ f \in Needed(S, size) => sessions'[d].files[f].size = size[f]
         /\ f \in Matching(S, size) => sessions'[d].files[f].done = state[f].done
         /\ f \in Needed(S, size) \ Matching(S, size) => sessions'[d].files[f].done = {}
  <2>1. ASSUME NEW f \in Files
        PROVE  /\ CheckedFiles(S, size)[f] # None <=> f \in Needed(S, size)
               /\ f \in Needed(S, size) => CheckedFiles(S, size)[f].size = size[f]
               /\ f \in Matching(S, size) => CheckedFiles(S, size)[f].done = state[f].done
               /\ f \in Needed(S, size) \ Matching(S, size) =>
                    CheckedFiles(S, size)[f].done = {}
    BY <1>0, CheckedEntry
  <2> QED
    BY <1>7, <2>1
<1>13. Missing(b, g) => /\ sessions'[d].files[g].size = Length[b][g]
                        /\ sessions'[d].files[g].done = OldDone(g)
  BY <1>5, <1>2, <1>11, <1>12 DEF OldDone
<1>14. \A f \in Files : f \notin Needed(S, size) => state'[f] = state[f]
  BY <1>0, <1>1, CheckedStateFile
<1>15. Missing(b, g) =>
         /\ state'[g] # None /\ state'[g].dir = d
         /\ state'[g].size = Length[b][g] /\ state'[g].done = OldDone(g)
  <2> DEFINE st == CheckedState(S, size, s0, t0)
  <2>1. /\ g \in Reusable(S, size) =>
             /\ state[g] # None
             /\ st[g] # None
             /\ st[g].size = size[g]
             /\ st[g].done = state[g].done
             /\ st[g].dir = state[g].dir
        /\ g \in Matching(S, size) \ Reusable(S, size) =>
             /\ state[g] # None
             /\ st[g] # None
             /\ st[g].size = size[g]
             /\ st[g].done = state[g].done
             /\ st[g].dir = DirAt(g, S, size, s0)
        /\ g \in Needed(S, size) \ Matching(S, size) =>
             /\ st[g] # None
             /\ st[g].size = size[g]
             /\ st[g].done = {}
             /\ st[g].dir = DirAt(g, S, size, s0)
    BY <1>0, CheckedStateFile
  <2>2. g \in Reusable(S, size) => d = state[g].dir
    BY <1>4
  <2> QED
    <3>1. state' = st
      BY <1>1
    <3> HIDE DEF st
    <3> QED
      BY <1>5, <1>2, <1>4, <1>11, <2>1, <2>2, <3>1 DEF OldDone
<1>16. \/ /\ d \notin issued
          /\ Missing(b, g) /\ state[g] # None => store[state[g].dir][g] = None
       \/ Missing(b, g) /\ state[g] # None /\ state[g].dir = d
  <2>1. CASE Reusable(S, size) = {} /\ d = s0
    <3>1. g \notin Reusable(S, size)
      BY <2>1
    <3> QED
      BY <1>1, <1>11, <2>1, <3>1 DEF Reusable
  <2>2. CASE Reusable(S, size) = {g} /\ d = state[g].dir
    <3>1. g \in Matching(S, size)
      BY <2>2 DEF Reusable
    <3> QED
      BY <1>5, <2>2, <3>1 DEF Matching
  <2> QED
    BY <1>4, <2>1, <2>2
<1>17. CheckedServer(b, g, d, t)
  BY <1>1, <1>5, <1>6, <1>8, <1>9, <1>10, <1>12, <1>13, <1>14, <1>15, <1>16 DEF CheckedServer
<1> QED
  BY <1>5, <1>2, <1>7, <1>3, <1>17

\* A check leaves the requests, the chunks and the lists as they should be.
LEMMA CheckServerStored ==
  ASSUME OnePage, SpareInv, restarts = 0, SystemInv, StoredInv, UNCHANGED wire,
         NEW b \in Browsers,
         NEW g \in Files, NEW d \in Sids, NEW t, CheckedServer(b, g, d, t),
         \A a \in Browsers : pages'[a].sid = d
  PROVE  BodiesInv' /\ WrittenInv' /\ ListsInv' /\ DirsInv'
<1>0. TypeOK /\ WrittenChunkExists /\ IdsIssued /\ OneFilePerDir /\ \A a \in Browsers : a = b
  BY DEF SystemInv, SpareInv, SingleInv, TypeInv, OnePage
<1>1. /\ UNCHANGED <<final, conns, jobs, ready>>
      /\ StoreShrinks
      /\ \A s \in Sids : Live(s) => store'[s] = store[s]
      /\ \A s \in Sids : s # d =>
           /\ Live(s)' <=> Live(s)
           /\ Live(s) => /\ sessions'[s].task = sessions[s].task
                         /\ sessions'[s].files = sessions[s].files
  BY DEF CheckedServer
<1>2. /\ Live(d)' /\ \A f \in Files : sessions'[d].files[f] # None <=> Missing(b, g) /\ f = g
      /\ \A f \in Files : ~(Missing(b, g) /\ f = g) => state'[f] = state[f]
      /\ Missing(b, g) =>
           /\ sessions'[d].files[g].size = Length[b][g]
           /\ sessions'[d].files[g].done = OldDone(g)
           /\ state'[g] # None /\ state'[g].dir = d
           /\ state'[g].size = Length[b][g] /\ state'[g].done = OldDone(g)
  BY DEF CheckedServer
<1>3. \/ /\ d \notin issued
         /\ Missing(b, g) /\ state[g] # None => store[state[g].dir][g] = None
      \/ Missing(b, g) /\ state[g] # None /\ state[g].dir = d
  BY DEF CheckedServer
\* Whatever refers to the directory of the session is about the file.
<1>4. /\ \A f \in Files : state[f] # None /\ state[f].dir = d => Missing(b, g) /\ f = g
      /\ \A c \in Conns : conns[c] # None /\ conns[c].sid = d =>
           Missing(b, g) /\ conns[c].file = g
  <2>1. CASE d \notin issued
    BY <1>0, <2>1 DEF IdsIssued
  <2>2. CASE Missing(b, g) /\ state[g] # None /\ state[g].dir = d
    <3>1. PICK f \in Files, n \in Sizes : DirIsFor(d, f, n)
      BY <1>0 DEF OneFilePerDir
    <3> QED
      BY <2>2, <3>1 DEF DirIsFor
  <2> QED
    BY <1>3, <2>1, <2>2
<1>5. BodiesInv'
  <2>1. ASSUME NEW c \in Conns, conns[c] # None
        PROVE  store'[conns[c].sid][conns[c].file][conns[c].index]
                 = store[conns[c].sid][conns[c].file][conns[c].index]
    <3>1. PICK s \in Sids, f \in Files, i \in Index :
            s = conns[c].sid /\ f = conns[c].file /\ i = conns[c].index
      BY <1>0, <2>1 DEF TypeOK, Request
    <3>2. HasChunk(s, f, i) /\ Open(s, f, i)
      BY <1>0, <2>1, <3>1 DEF WrittenChunkExists, Open
    <3>3. HasChunk(s, f, i)' /\ store'[s][f][i] = store[s][f][i]
      BY <1>1, <3>2 DEF StoreShrinks
    <3> QED
      BY <3>1, <3>3
  <2> QED
    BY <1>1, <2>1 DEF StoredInv, BodiesInv
<1>6. WrittenInv'
  BY <1>1 DEF StoredInv, WrittenInv, StoreShrinks
\* The chunks that the state file of the file lists are in the session's directory.
<1>7. ASSUME Missing(b, g), NEW i \in OldDone(g)
      PROVE  i < Length[b][g] /\ HasSize(d, g, i, Blocks)'
  <2>1. state[g] # None /\ i \in state[g].done
    BY <1>7 DEF OldDone
  <2>2. PICK x \in Sids : x = state[g].dir
    BY <2>1, NothingWrong
  <2>3. /\ Live(x) /\ sessions[x].files[g] # None /\ i \in sessions[x].files[g].done
    BY <2>1, <2>2, NothingWrong
  <2>4. i < sessions[x].files[g].size /\ HasSize(x, g, i, Blocks)
        /\ sessions[x].files[g].size = Length[b][g]
    BY <2>3 DEF StoredInv, ListsInv
  <2>5. x = d
    BY <1>3, <1>7, <2>1, <2>2, <2>4 DEF HasSize, HasChunk
  <2>6. store'[x] = store[x]
    BY <1>1, <2>3
  <2>7. HasSize(x, g, i, Blocks)'
    BY <2>4, <2>6 DEF HasSize, HasChunk
  <2> QED
    BY <2>4, <2>5, <2>7
<1>8. ListsInv'
  <2>1. ASSUME NEW s \in Sids, NEW f \in Files, Live(s)', sessions'[s].files[f] # None
        PROVE  /\ \A a \in Browsers : sessions'[s].files[f].size = Length[a][f]
               /\ \A i \in sessions'[s].files[f].done :
                    i < sessions'[s].files[f].size /\ HasSize(s, f, i, Blocks)'
    <3>1. CASE s = d
      <4>1. f = g /\ Missing(b, g)
        BY <1>2, <2>1, <3>1
      <4>2. \A i \in OldDone(g) : i < Length[b][g] /\ HasSize(d, g, i, Blocks)'
        BY <1>7, <4>1
      <4> QED
        BY <1>0, <1>2, <3>1, <4>1, <4>2
    <3>2. CASE s # d
      <4>1. Live(s) /\ sessions'[s].files = sessions[s].files /\ store'[s] = store[s]
        BY <1>1, <2>1, <3>2
      <4> QED
        BY <2>1, <4>1 DEF StoredInv, ListsInv, HasSize, HasChunk
    <3> QED
      BY <3>1, <3>2
  <2>2. ASSUME NEW f \in Files, state'[f] # None
        PROVE  /\ \A a \in Browsers : state'[f].size = Length[a][f]
               /\ state'[f].done = sessions'[state'[f].dir].files[f].done
    <3>1. CASE Missing(b, g) /\ f = g
      BY <1>0, <1>2, <3>1
    <3>2. CASE ~(Missing(b, g) /\ f = g)
      <4>1. state'[f] = state[f] /\ state[f] # None
        BY <1>2, <2>2, <3>2
      <4>2. state[f].dir # d
        BY <1>4, <3>2, <4>1
      <4>3. /\ \A a \in Browsers : state[f].size = Length[a][f]
            /\ Live(state[f].dir) /\ state[f].dir \in Sids
            /\ state[f].done = sessions[state[f].dir].files[f].done
        BY <4>1, NothingWrong
      <4>4. sessions'[state[f].dir].files = sessions[state[f].dir].files
        BY <1>1, <4>2, <4>3
      <4> QED
        BY <4>1, <4>3, <4>4
    <3> QED
      BY <3>1, <3>2
  <2> QED
    BY <2>1, <2>2 DEF ListsInv
<1>9. DirsInv'
  <2>1. ASSUME NEW c \in Conns, conns'[c] # None,
               sessions'[conns'[c].sid] # None, sessions'[conns'[c].sid].task # None
        PROVE  state'[conns'[c].file] # None /\ state'[conns'[c].file].dir = conns'[c].sid
    <3>1. conns'[c] = conns[c] /\ conns[c] # None
      BY <1>1, <2>1
    <3>2. PICK x \in Sids, f \in Files, i \in Index :
            x = conns[c].sid /\ f = conns[c].file /\ i = conns[c].index
      BY <1>0, <3>1 DEF TypeOK, Request
    <3>3. CASE x = d
      BY <1>2, <1>4, <3>1, <3>2, <3>3
    <3>4. CASE x # d
      <4>1. Live(x)'
        BY <2>1, <3>1, <3>2 DEF Live
      <4>2. Live(x)
        BY <1>1, <3>4, <4>1
      <4>3. state[f] # None /\ state[f].dir = x
        BY <3>1, <3>2, <4>2 DEF StoredInv, DirsInv
      <4>4. store[x][f] # None
        BY <1>0, <3>1, <3>2 DEF WrittenChunkExists, HasChunk
      <4>5. ~(Missing(b, g) /\ f = g)
        BY <1>3, <3>4, <4>3, <4>4
      <4> QED
        BY <1>2, <3>1, <3>2, <4>3, <4>5
    <3> QED
      BY <3>3, <3>4
  <2>2. ASSUME NEW a \in Browsers, NEW f \in Files, sessions'[pages'[a].sid].files[f] # None
        PROVE  state'[f] # None /\ state'[f].dir = pages'[a].sid
    BY <1>2, <2>2
  <2> QED
    BY <2>1, <2>2 DEF DirsInv, Live
<1> QED
  BY <1>5, <1>6, <1>8, <1>9

-----------------------------------------------------------------------------
(* The check of a page: the page and the transfer list *)

\* The page after a check of file g that ends with session d
CheckedPage(b, g, d) ==
  /\ wire' = wire
  /\ pages'[b].phase = "run" /\ pages'[b].sid = d /\ pages'[b].failed = {}
  /\ pages'[b].todo = IF Missing(b, g) THEN {g} ELSE {}
  /\ pages'[b].status[g] = IF Missing(b, g) THEN "pending" ELSE "done"
  /\ Missing(b, g) /\ g \notin pages'[b].active =>
       pages'[b].left[g] = Chunks(b, g) \ sessions'[d].files[g].done
  /\ \/ /\ pages[b].phase = "idle"
        /\ pages'[b].active = {}
        /\ \A f \in Files : f # g => pages'[b].status[f] = None
     \/ /\ pages[b].failed = {g}
        /\ pages'[b].on = pages[b].on
        /\ pages'[b].active = pages[b].active
        /\ \A f \in Files : f # g => pages'[b].status[f] = pages[b].status[f]
        /\ \A f \in pages[b].active : pages'[b].left[f] = pages[b].left[f]

\* The transfer list after it: the task t is one for g, the others stay or go.
TaskOfCheck(g, t) ==
  /\ tasks'[t].name = <<"file", g>> /\ tasks'[t].status = "Uploading"
  /\ \A u \in Tasks : u # t => tasks'[u] = tasks[u] \/ tasks'[u] = None

\* AdoptTask and NewTask, for a single file
LEMMA CheckTaskEffect ==
  ASSUME TypeOK, NEW g \in Files, NEW t \in Tasks,
         AdoptTask(t, {g}) \/ NewTask(t, {g})
  PROVE  TaskOfCheck(g, t)
<1>1. TaskName({g}) = <<"file", g>>
  <2>1. \E f \in Files : {g} = {f}
    OBVIOUS
  <2>2. (CHOOSE f \in Files : {g} = {f}) = g
    OBVIOUS
  <2> QED
    BY <2>1, <2>2 DEF TaskName
<1>2. CASE AdoptTask(t, {g})
  <2>1. tasks[t] # None /\ tasks[t].name = TaskName({g})
    BY <1>2 DEF AdoptTask, PausedTasks
  <2>2. tasks' = [tasks EXCEPT ![t].status = "Uploading"]
    BY <1>2, <2>1, NoneAssumption DEF AdoptTask, EngineResume, SetTask
  <2>3. tasks \in [Tasks -> Task \cup {None}]
    BY DEF TypeOK
  <2>4. tasks[t] \in Task
    BY <2>1, <2>3
  <2>5. tasks'[t] = [tasks[t] EXCEPT !.status = "Uploading"]
    BY <2>2, <2>3
  <2>6. tasks'[t].name = TaskName({g}) /\ tasks'[t].status = "Uploading"
    BY <2>1, <2>4, <2>5 DEF Task
  <2> QED
    BY <1>1, <2>2, <2>3, <2>6 DEF TaskOfCheck
<1>3. CASE NewTask(t, {g})
  <2> DEFINE ts == WithoutUnfinished({TaskName({g})} \cup {<<"file", f>> : f \in {g}})
             x  == [name |-> TaskName({g}), status |-> "Uploading"]
  <2>1. tasks' = [ts EXCEPT ![t] = x]
    BY <1>3 DEF NewTask
  <2>2. DOMAIN ts = Tasks /\ \A u \in Tasks : ts[u] = tasks[u] \/ ts[u] = None
    BY DEF WithoutUnfinished
  <2>3. x.name = TaskName({g}) /\ x.status = "Uploading"
    OBVIOUS
  <2> HIDE DEF ts, x
  <2> QED
    BY <1>1, <2>1, <2>2, <2>3 DEF TaskOfCheck
<1> QED
  BY <1>2, <1>3

\* startUpload and retryFailed up to the reply of their check
LEMMA CheckSteps ==
  ASSUME SingleFileChecks, SystemInv, SpareInv, restarts = 0, StoredInv,
         NEW b \in Browsers, StartUpload(b) \/ RetryFailed(b)
  PROVE  /\ \E g \in Files, d \in Sids, t \in Tasks :
              CheckedServer(b, g, d, t) /\ TaskOfCheck(g, t) /\ CheckedPage(b, g, d)
         /\ SoundScript(pages'[b])
<1>0. TypeInv /\ TypeOK /\ Client!PageTypeOK /\ SoundScript(pages[b]) /\ FilesArePicked
  BY DEF SystemInv, TypeInv, PageInv, StoredInv, ScriptInv
<1>1. PICK S \in Selections, s0 \in Sids, t0 \in Tasks, t \in Tasks :
        /\ UploadCheck(S, Lengths(b, S), s0, t0, t)
        /\ \/ Client!Start(b, S, ChosenSid(S, Lengths(b, S), s0), Existing(b, S), Have(b, S))
           \/ /\ S = pages[b].failed
              /\ Client!Retry(b, ChosenSid(S, Lengths(b, S), s0), Existing(b, S), Have(b, S))
  <2>1. CASE StartUpload(b)
    BY <2>1, PickIsSelection DEF StartUpload
  <2>2. CASE RetryFailed(b)
    <3>1. PICK s0 \in Sids, t0 \in Tasks, t \in Tasks :
            /\ UploadCheck(pages[b].failed, Lengths(b, pages[b].failed), s0, t0, t)
            /\ Client!Retry(b, ChosenSid(pages[b].failed, Lengths(b, pages[b].failed), s0),
                            Existing(b, pages[b].failed), Have(b, pages[b].failed))
      BY <2>2 DEF RetryFailed
    <3>2. pages[b].failed \in Selections
      BY <1>0, <3>1, RetrySelection DEF Client!Retry
    <3> QED
      BY <3>1, <3>2
  <2> QED
    BY <2>1, <2>2
<1>2. S \in SUBSET Files
  BY ConstantsAssumption
<1>3. PICK size \in [S -> Sizes] : size = Lengths(b, S)
  BY <1>2, LengthsType
<1>4. \A f \in S : size[f] = Length[b][f]
  BY <1>3 DEF Lengths
<1>5. UploadCheck(S, size, s0, t0, t)
  BY <1>1, <1>3
<1>6. PICK g \in Files, d \in Sids :
        /\ S = {g} /\ d = ChosenSid(S, size, s0) /\ CheckedServer(b, g, d, t)
        /\ \A f \in Files : f \in Needed(S, size) <=> Missing(b, g) /\ f = g
        /\ sessions'[d].files = CheckedFiles(S, size)
  BY <1>4, <1>5, CheckServerEffect
<1>7. TaskOfCheck(g, t)
  <2>1. AdoptTask(t, {g}) \/ NewTask(t, {g})
    BY <1>5, <1>6 DEF UploadCheck
  <2> QED
    BY <1>0, <2>1, CheckTaskEffect
<1>8. PICK existing, have :
        /\ existing = S \ Needed(S, size)
        /\ have = [f \in Files |-> IF f \in S \ existing
                                   THEN CheckedFiles(S, size)[f].done ELSE {}]
        /\ \/ Client!Start(b, S, d, existing, have)
           \/ S = pages[b].failed /\ Client!Retry(b, d, existing, have)
  <2>1. Existing(b, S) = S \ Needed(S, size)
    BY <1>3 DEF Existing
  <2>2. Have(b, S) = [f \in Files |-> IF f \in S \ Existing(b, S)
                                      THEN CheckedFiles(S, size)[f].done ELSE {}]
    BY <1>3 DEF Have
  <2> QED
    BY <1>1, <1>3, <1>6, <2>1, <2>2
<1>9. /\ S \ existing = IF Missing(b, g) THEN {g} ELSE {}
      /\ g \in existing <=> ~Missing(b, g)
      /\ Missing(b, g) => have[g] = sessions'[d].files[g].done
  BY <1>6, <1>8
<1>10. SoundScript(pages'[b])
  BY <1>0, <1>2, <1>8, CheckSound
<1>11. /\ wire' = wire
       /\ \/ /\ pages[b].phase = "idle"
             /\ IsChecked(Client!NewPage, pages'[b], b, S, d, existing, have)
          \/ /\ S = pages[b].failed /\ S # {}
             /\ IsChecked(pages[b], pages'[b], b, S, d, existing, have)
             /\ pages'[b].on = pages[b].on
  BY <1>0, <1>2, <1>8, CheckEffect
<1>12. CheckedPage(b, g, d)
  <2>0. \A f \in existing : f = g
    BY <1>6, <1>8
  <2>1. CASE /\ pages[b].phase = "idle"
             /\ IsChecked(Client!NewPage, pages'[b], b, S, d, existing, have)
    <3>1. /\ Client!NewPage.active = {}
          /\ \A f \in Files : Client!NewPage.status[f] = None
      BY DEF Client!NewPage
    <3>2. /\ pages'[b].phase = "run" /\ pages'[b].sid = d /\ pages'[b].failed = {}
          /\ pages'[b].todo = S \ existing /\ pages'[b].active = {}
          /\ \A f \in Files :
               pages'[b].status[f] = IF f \in existing THEN "done"
                                     ELSE IF f \in S THEN "pending" ELSE None
          /\ g \in S \ existing => pages'[b].left[g] = (0 .. Length[b][g] - 1) \ have[g]
      BY <2>1, <3>1 DEF IsChecked
    <3> QED
      BY <1>6, <1>9, <1>11, <2>0, <2>1, <3>2 DEF CheckedPage, Chunks
  <2>2. CASE /\ S = pages[b].failed /\ S # {}
             /\ IsChecked(pages[b], pages'[b], b, S, d, existing, have)
             /\ pages'[b].on = pages[b].on
    <3>0. pages[b].active \subseteq Files
      BY <1>0 DEF Client!PageTypeOK, Client!Page
    <3>1. /\ pages'[b].phase = "run" /\ pages'[b].sid = d /\ pages'[b].failed = {}
          /\ pages'[b].todo = S \ existing /\ pages'[b].active = pages[b].active
          /\ \A f \in Files :
               pages'[b].status[f] = IF f \in existing THEN "done"
                                     ELSE IF f \in S THEN "pending" ELSE pages[b].status[f]
          /\ g \in (S \ existing) \ pages[b].active =>
               pages'[b].left[g] = (0 .. Length[b][g] - 1) \ have[g]
          /\ \A f \in pages[b].active : pages'[b].left[f] = pages[b].left[f]
      BY <2>2, <3>0 DEF IsChecked
    <3> QED
      BY <1>6, <1>9, <1>11, <2>0, <2>2, <3>1 DEF CheckedPage, Chunks
  <2> QED
    BY <1>11, <2>1, <2>2
<1> QED
  BY <1>6, <1>7, <1>10, <1>12

\* A check leaves the requests of the page, its progress, the merges and the
\* tasks as they should be.
LEMMA CheckPageStored ==
  ASSUME OnePage, SingleFileChecks, SystemInv, SystemInv', SpareInv, restarts = 0, StoredInv,
         NEW b \in Browsers, NEW g \in Files, NEW d \in Sids, NEW t \in Tasks,
         CheckedServer(b, g, d, t), TaskOfCheck(g, t), CheckedPage(b, g, d)
  PROVE  WiresInv' /\ ProgressInv' /\ MergersInv' /\ TasksInv'
<1>0. /\ \A a \in Browsers : a = b
      /\ Client!PageTypeOK /\ pages[b] \in Client!Page /\ FilesArePicked
      /\ SoundScript(pages[b]) /\ WiresInv /\ MergersInv /\ TasksInv /\ OnePage
      /\ UNCHANGED <<final, conns, jobs, ready>>
  BY DEF OnePage, SystemInv, PageInv, Client!PageTypeOK, StoredInv, ScriptInv, CheckedServer
<1>1. /\ wire' = wire
      /\ pages'[b].phase = "run" /\ pages'[b].sid = d /\ pages'[b].failed = {}
      /\ pages'[b].todo = IF Missing(b, g) THEN {g} ELSE {}
      /\ pages'[b].status[g] = IF Missing(b, g) THEN "pending" ELSE "done"
      /\ Missing(b, g) /\ g \notin pages'[b].active =>
           pages'[b].left[g] = Chunks(b, g) \ sessions'[d].files[g].done
  BY DEF CheckedPage
<1>2. /\ Live(d)' /\ sessions'[d].task = t
      /\ \A f \in Files : sessions'[d].files[f] # None <=> Missing(b, g) /\ f = g
  BY DEF CheckedServer
\* Either the page starts or it tries its only file again.
<1>3. \/ /\ pages[b].phase = "idle"
         /\ pages'[b].active = {}
         /\ \A f \in Files : f # g => pages'[b].status[f] = None
      \/ /\ pages[b].failed = {g}
         /\ pages'[b].on = pages[b].on
         /\ pages'[b].active = pages[b].active
         /\ \A f \in Files : f # g => pages'[b].status[f] = pages[b].status[f]
         /\ \A f \in pages[b].active : pages'[b].left[f] = pages[b].left[f]
  BY DEF CheckedPage
<1>4. \A f \in Files : pages'[b].status[f] # None <=> f = g
  <2>1. CASE pages[b].failed = {g} /\ \A f \in Files : f # g =>
               pages'[b].status[f] = pages[b].status[f]
    <3>1. g \in Picked(b)
      BY <1>0, <2>1 DEF FilesArePicked
    <3>2. \A f \in Picked(b) : f = g
      BY <1>0, <3>1, OnePickedFile
    <3> QED
      BY <1>1, <2>1, <3>2, NoneIsNoMark DEF Picked, Client!Chosen
  <2> QED
    BY <1>1, <1>3, <2>1, NoneIsNoMark DEF Client!Chosen
<1>5. pages'[b].on => pages'[b].active = {}
  <2>1. CASE pages[b].failed = {g} /\ pages'[b].on = pages[b].on
             /\ pages'[b].active = pages[b].active
    <3>1. g \in Picked(b)
      BY <1>0, <2>1 DEF FilesArePicked
    <3>2. \A f \in pages[b].active : f = g
      BY <1>0, <3>1, OnePickedFile DEF FilesArePicked
    <3> QED
      BY <1>0, <2>1, <3>2 DEF SoundScript
  <2> QED
    BY <1>3, <2>1
<1>6. Idle /\ pages[b].phase # "sent"
  <2>1. CASE pages[b].failed = {g}
    <3>1. pages[b].status[g] # None /\ pages[b].status[g] # "done"
      BY <1>0, <2>1 DEF FilesArePicked, Picked, SoundScript
    <3> QED
      BY <1>0, <3>1 DEF SoundScript, MergersInv
  <2> QED
    BY <1>0, <1>3, <2>1 DEF MergersInv
<1>7. WiresInv'
  <2> SUFFICES ASSUME NEW c \in Conns, wire[c] # None
               PROVE  /\ wire'[c] = wire[c]
                      /\ pages'[b].phase # "idle"
                      /\ pages'[b].on => /\ pages[b].on /\ pages'[b].sid = pages[b].sid
                                         /\ wire[c].file \in pages'[b].active
                      /\ wire[c].file \in pages'[b].active =>
                           wire[c].index \notin pages'[b].left[wire[c].file]
    BY <1>0, <1>1, WiresKept
  <2>1. wire[c].page = b
    BY <1>0 DEF Client!PageTypeOK, Client!Request
  <2>2. /\ pages[b].phase # "idle"
        /\ pages[b].on => wire[c].file \in pages[b].active
        /\ wire[c].file \in pages[b].active => wire[c].index \notin pages[b].left[wire[c].file]
    BY <1>0, <2>1 DEF WiresInv
  <2> QED
    BY <1>1, <1>3, <1>5, <2>2
<1>8. ProgressInv'
  <2>1. \A f \in Files : Entry(b, f)' = sessions'[d].files[f]
    BY <1>1 DEF Entry
  <2>2. Accounted(b)'
    <3> SUFFICES ASSUME NEW f \in Files
                 PROVE  /\ sessions'[d].files[f] # None => pages'[b].status[f] # None
                        /\ pages'[b].status[f] = "done" =>
                             IF sessions'[d].files[f] = None THEN final'[f] # None
                             ELSE Chunks(b, f) \subseteq sessions'[d].files[f].done
      BY <2>1 DEF Accounted, Picked, Chunks
    <3>1. pages'[b].status[f] = "done" => f = g /\ ~Missing(b, g)
      BY <1>1, <1>4, NoneIsNoMark DEF Client!Chosen
    <3> QED
      BY <1>0, <1>2, <1>4, <3>1 DEF Missing
  <2>3. ASSUME pages'[b].on
        PROVE  Underway(b)'
    <3> SUFFICES ASSUME NEW f \in pages'[b].todo \cup pages'[b].active
                 PROVE  /\ Entry(b, f)' # None
                        /\ Chunks(b, f) \subseteq pages'[b].left[f] \cup Entry(b, f)'.done
      BY <1>5, <2>3 DEF Underway, Chunks
    <3>1. f = g /\ Missing(b, g) /\ g \notin pages'[b].active
      BY <1>1, <1>5, <2>3
    <3> QED
      BY <1>1, <1>2, <2>1, <3>1
  <2> QED
    BY <1>0, <1>1, <1>2, <2>2, <2>3 DEF ProgressInv, Live
<1>9. MergersInv'
  BY <1>0, <1>1, <1>6 DEF MergersInv, ToMerge, Idle
<1>10. TasksInv'
  <2>1. ASSUME NEW u \in Tasks, NEW f \in Files, IsTaskOf(u, f)', tasks'[u].status = "Completed"
        PROVE  final'[f] # None
    <3>1. tasks'[u] = tasks[u]
      BY <2>1 DEF TaskOfCheck, IsTaskOf
    <3> QED
      BY <1>0, <2>1, <3>1 DEF TasksInv, IsTaskOf
  <2>2. \A f \in Files : <<"file", f>> = <<"file", g>> => f = g
    OBVIOUS
  <2>3. ready' = <<>> /\ \A w \in Merges : jobs'[w] = None
    BY <1>0, <1>6 DEF Idle
  <2>4. \A a \in Browsers, f \in Files :
          IsTaskOf(sessions[pages[a].sid].task, f)' => f \in Picked(a)'
    <3>1. ASSUME NEW f \in Files, tasks'[t].name = <<"file", f>>
          PROVE  f = g
      BY <2>2, <3>1 DEF TaskOfCheck
    <3>2. \A a \in Browsers : sessions'[pages'[a].sid].task = t /\ pages'[a].status[g] # None
      BY <1>0, <1>1, <1>2, <1>4
    <3> QED
      BY <3>1, <3>2 DEF IsTaskOf, Picked
  <2>5. Len(ready') = 0
    BY <2>3
  <2> QED
    BY <2>1, <2>3, <2>4, <2>5 DEF TasksInv
<1> QED
  BY <1>7, <1>8, <1>9, <1>10

\* A check of a page keeps the invariant.
LEMMA CheckStored ==
  ASSUME Undisturbed, SystemInv, SystemInv', SpareInv, restarts = 0, StoredInv,
         NEW b \in Browsers, StartUpload(b) \/ RetryFailed(b)
  PROVE  StoredInv'
<1>1. PICK g \in Files, d \in Sids, t \in Tasks :
        CheckedServer(b, g, d, t) /\ TaskOfCheck(g, t) /\ CheckedPage(b, g, d)
  BY CheckSteps DEF Undisturbed
<1>2. /\ \A a \in Browsers : a = b
      /\ wire' = wire
      /\ pages'[b].sid = d
  BY <1>1 DEF Undisturbed, OnePage, CheckedPage
<1>3. ScriptInv'
  BY <1>2, CheckSteps DEF ScriptInv, Undisturbed
<1>4. WiresInv' /\ ProgressInv' /\ MergersInv' /\ TasksInv'
  BY <1>1, CheckPageStored DEF Undisturbed
<1>5. BodiesInv' /\ WrittenInv' /\ ListsInv' /\ DirsInv'
  BY <1>1, <1>2, CheckServerStored DEF Undisturbed
<1> QED
  BY <1>3, <1>4, <1>5 DEF StoredInv

-----------------------------------------------------------------------------
(* What is sent is stored: the theorems *)

\* At the start nothing is sent and nothing is stored.
LEMMA InitStored == SystemInit => StoredInv
<1> SUFFICES ASSUME SystemInit
             PROVE  StoredInv
  OBVIOUS
<1>1. /\ \A b \in Browsers : pages[b] = Client!NewPage
      /\ \A c \in Conns : wire[c] = None /\ conns[c] = None
      /\ \A s \in Sids : sessions[s] = None /\ \A f \in Files : store[s][f] = None
      /\ \A f \in Files : final[f] = None /\ state[f] = None
      /\ \A w \in Merges : jobs[w] = None
      /\ \A t \in Tasks : tasks[t] = None
      /\ ready = <<>>
  BY DEF SystemInit, Init, Client!PageInit, NoDirs
<1>2. /\ Client!NewPage.phase = "idle" /\ Client!NewPage.sid = None /\ ~Client!NewPage.on
      /\ Client!NewPage.failed = {} /\ \A f \in Files : Client!NewPage.status[f] = None
  BY DEF Client!NewPage
<1>3. ScriptInv
  BY <1>1, <1>2 DEF ScriptInv, SoundScript
<1>4. WiresInv /\ BodiesInv /\ WrittenInv /\ ListsInv
  BY <1>1 DEF WiresInv, BodiesInv, WrittenInv, ListsInv, HasChunk, Live
<1>5. DirsInv /\ ProgressInv
  BY <1>1, <1>2 DEF DirsInv, ProgressInv, AtWork
<1>6. MergersInv
  BY <1>1, <1>2 DEF MergersInv, Idle, Picked
<1>7. TasksInv
  BY <1>1, <1>2 DEF TasksInv, IsTaskOf, AtWork
<1> QED
  BY <1>3, <1>4, <1>5, <1>6, <1>7 DEF StoredInv

\* A chunk is sent: the server takes the request or answers at once.
LEMMA ChunkStored ==
  ASSUME Undisturbed, SystemInv, SystemInv', SpareInv, StoredInv,
         NEW b \in Browsers, NEW f \in Files, NEW i \in Index, SendChunk(b, f, i)
  PROVE  StoredInv'
<1>1. PICK s \in Sids : s = pages[b].sid
  BY DEF SendChunk, Client!Due, SystemInv, PageInv, SidsAreSet, Client!PageTypeOK, Client!Page
<1>2. CASE \E c \in Conns : BeginChunk(c, s, f, i, Content[b]) /\ Client!Send(b, f, i, c)
  BY <1>1, <1>2, SendStored
<1>3. CASE /\ UNCHANGED vars
           /\ \/ Client!Refused(b, f, i)
              \/ Client!Skipped(b, f, i) /\ Has(pages[b].sid, f, i)
              \/ Client!Rejected(b, f, i)
  BY <1>3, AnsweredAtOnce
<1> QED
  BY <1>1, <1>2, <1>3 DEF SendChunk

\* A step of the application
LEMMA PublishStored ==
  ASSUME Undisturbed, SystemInv, SpareInv, StoredInv, ServerStep
  PROVE  StoredInv'
<1>1. Publish /\ UNCHANGED <<pages, wire>>
  BY DEF ServerStep, Undisturbed, GentleEvents
<1>2. SingleInv
  BY DEF SpareInv
<1>3. CASE FinalizeReady
  BY <1>1, <1>3, ReadyStored
<1>4. CASE \E w \in Merges : MergeStep(w)
  <2>1. PICK w \in Merges : (\E f \in Files : OpenMerged(w, f)) \/ CopyMerged(w) \/ EndMerge(w)
    BY <1>4 DEF MergeStep
  <2>2. CASE \E f \in Files : OpenMerged(w, f)
    BY <1>1, <2>2, OpenStored
  <2>3. CASE CopyMerged(w)
    BY <1>1, <1>2, <2>3, CopyStored
  <2>4. CASE EndMerge(w)
    BY <1>1, <1>2, <2>4, EndStored
  <2> QED
    BY <2>1, <2>2, <2>3, <2>4
<1> QED
  BY <1>1, <1>3, <1>4 DEF Publish

\* Nothing starts the application again.
LEMMA NoRestart ==
  ASSUME Undisturbed, SystemInv, [SystemNext]_sysVars
  PROVE  UNCHANGED restarts
<1>1. ~RestartStep
  BY DEF RestartStep, Undisturbed, GentleEvents
<1>2. CASE Check
  BY <1>2 DEF Check, UploadCheck
<1>3. CASE Finalize \/ Upload
  BY <1>3 DEF Finalize, UploadFinalize, Upload, BeginChunk, ReceiveBlock, EndChunk
<1>4. CASE Publish
  BY <1>4 DEF Publish, MergeStep, OpenMerged, CopyMerged, EndMerge, FinalizeReady
<1>5. CASE \E s \in Sids : ExpireSession(s)
  BY <1>5 DEF ExpireSession, Discard
<1>6. CASE \E t \in Tasks : PauseTask(t) \/ ResumeTask(t) \/ DeleteTask(t) \/ AutoPause(t)
  BY <1>6 DEF PauseTask, ResumeTask, DeleteTask, AutoPause
<1>7. CASE UNCHANGED vars
  BY <1>7 DEF vars
<1> QED
  BY <1>1, <1>2, <1>3, <1>4, <1>5, <1>6, <1>7, KindsOfSystemSteps

\* Every step of the undisturbed system keeps the invariant.
LEMMA StoredStep ==
  ASSUME Undisturbed, SystemInv, SystemInv', SpareInv, restarts = 0, StoredInv,
         [SystemNext]_sysVars
  PROVE  StoredInv'
<1>1. ASSUME NEW b \in Browsers,
             \/ StartUpload(b) \/ RetryFailed(b) \/ FinalizeUpload(b)
             \/ \E f \in Files, i \in Index : SendChunk(b, f, i)
             \/ PageStep(b) \/ PauseMessage(b) \/ DisconnectPage(b) \/ ReloadPage(b)
      PROVE  StoredInv'
  BY <1>1, CheckStored, FinalizeStored, ChunkStored, OwnStepsStored, ReloadStored
<1>2. ASSUME NEW c \in Conns,
             ReceiveData(c) \/ AnswerChunk(c) \/ LoseConnection(c) \/ ConnectionGone(c)
      PROVE  StoredInv'
  BY <1>2, ReceiveStored, AnswerStored, LoseConnectionStored, ConnectionsStay
<1>3. ASSUME NEW t \in Tasks, UserStep(t)
      PROVE  StoredInv'
  BY <1>3, UserStored
<1>4. ~RestartStep
  BY DEF RestartStep, Undisturbed, GentleEvents
<1>5. CASE UNCHANGED sysVars
  <2>1. UNCHANGED <<pages, wire, store, final, state, sessions, tasks, conns, jobs, ready>>
    BY <1>5 DEF sysVars, vars
  <2>2. ScriptInv' /\ WiresInv' /\ BodiesInv' /\ WrittenInv'
    BY <2>1 DEF StoredInv, ScriptInv, WiresInv, BodiesInv, WrittenInv, HasChunk
  <2>3. ListsInv' /\ DirsInv'
    BY <2>1 DEF StoredInv, ListsInv, DirsInv, Live, HasSize, HasChunk
  <2>4. ProgressInv'
    BY <2>1 DEF StoredInv, ProgressInv, Accounted, Underway, Entry, Picked, Client!InFlight,
                Live, Chunks
  <2>5. MergersInv' /\ TasksInv'
    BY <2>1 DEF StoredInv, MergersInv, TasksInv, Idle, ToMerge, Whole, HasSize, HasChunk,
                Picked, IsTaskOf
  <2> QED
    BY <2>2, <2>3, <2>4, <2>5 DEF StoredInv
<1> QED
  BY <1>1, <1>2, <1>3, <1>4, <1>5, PublishStored DEF SystemNext

\* The invariant holds as long as nothing disturbs the uploads.
LEMMA StoredInvariant ==
  ASSUME Undisturbed
  PROVE  SystemSpec => []StoredInv
<1> DEFINE FirstRun == restarts = 0
<1>1. SystemInit => FirstRun
  BY DEF SystemInit, Init
<1>2. SystemInv /\ FirstRun /\ [SystemNext]_sysVars => FirstRun'
  BY NoRestart
<1>3. SystemInv /\ SystemInv' /\ SpareInv /\ FirstRun /\ StoredInv /\ [SystemNext]_sysVars
        => StoredInv'
  BY StoredStep
<1>4. Spec => []SpareInv
  BY SpareInvariant DEF Undisturbed
<1> HIDE DEF FirstRun
<1> QED
  BY <1>1, <1>2, <1>3, <1>4, InitStored, SystemInvariant, PagesUseServer, PTL DEF SystemSpec

\* A page that tells its user that the files were sent tells the truth: once the
\* merges have ended, the files are in the upload directory with their content,
\* for any number of chunks, connections, retries, pauses, lost answers and
\* reloads (finalize of receive.html, handleUploadFinalize, mergeChunksFromDisk).
THEOREM SentStored ==
  ASSUME Undisturbed
  PROVE  SystemSpec => []SentIsStored
<1>1. StoredInv => SentIsStored
  <2> SUFFICES ASSUME StoredInv, NEW b \in Browsers, pages[b].phase = "sent", Idle,
                      NEW f \in Files, pages[b].status[f] # None
               PROVE  final[f] = [size |-> Length[b][f], data |-> Content[b]]
    BY DEF SentIsStored, Stored
  <2>1. ~ToMerge(f)
    BY DEF Idle, ToMerge
  <2> QED
    BY <2>1 DEF StoredInv, MergersInv, Picked
<1> QED
  BY <1>1, StoredInvariant, PTL

\* An upload that the transfer list shows as completed is in the upload directory,
\* whole, once no merge is at work (onUploadFinalizeReady of main.cpp).
THEOREM CompletedStored ==
  ASSUME Undisturbed
  PROVE  SystemSpec => []CompletedIsStored
<1>1. StoredInv => CompletedIsStored
  <2> SUFFICES ASSUME StoredInv, Idle, NEW t \in Tasks, NEW f \in Files,
                      tasks[t] # None, tasks[t].status = "Completed",
                      tasks[t].name = <<"file", f>>
               PROVE  \E b \in Browsers :
                        final[f] = [size |-> Length[b][f], data |-> Content[b]]
    BY DEF CompletedIsStored
  <2>1. PICK b \in Browsers : TRUE
    BY DEF Undisturbed, OnePage
  <2>2. final[f] # None
    BY ConstantsAssumption, NoneAssumption DEF StoredInv, TasksInv, IsTaskOf
  <2>3. ~ToMerge(f)
    BY DEF Idle, ToMerge
  <2> QED
    BY <2>1, <2>2, <2>3 DEF StoredInv, MergersInv
<1> QED
  BY <1>1, StoredInvariant, PTL
=============================================================================
