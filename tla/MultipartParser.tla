--------------------------- MODULE MultipartParser ---------------------------
(***************************************************************************)
(* StreamingMultipartParser: the files of a multipart request are written  *)
(* to the disk while the request's body arrives in blocks of any size.     *)
(*                                                                         *)
(* The body is a sequence of symbols.  The text of a part's headers is one *)
(* symbol, the part's file name, or None for a form field.  Each iteration *)
(* of processBuffer is a step.  The buffer starts at m_bufferOffset.       *)
(***************************************************************************)
EXTENDS Naturals, FiniteSets, Sequences, SequencesExt

CONSTANTS
  Names,         \* file names
  Nested,        \* the names that contain a directory
  Copies,        \* bound: the numbers that are added to names that are taken
  CR, LF, Dash,  \* symbols,
  Mark,          \* the boundary that the Content-Type header announces,
  Chars,         \* the symbols of data
  Requests,      \* the requests that may arrive
  MaxIterations, \* of processBuffer's loop (100 in the code)
  None           \* absence

CRLF        == <<CR, LF>>
Boundary    == <<Dash, Dash>> \o Mark
EndBoundary == Boundary \o <<Dash, Dash>>

Symbols == Chars \cup {CR, LF, Dash, None} \cup Names
Paths   == Names \X (0 .. Copies)  \* <<n, k>> is "n (k)", and n for k = 0
Text    == Seq(Symbols)

\* A part of a request: a file, or (name None) a form field.
Part    == [name : Names \cup {None}, data : Text]
Resume  == [path : Paths, offset : Nat \ {0}]

\* A file the parser writes or wrote.
SavedFile == [path : Paths, size : Nat]

\* What the parser of bodies that are in memory reads in one round.
Reading == [files : Seq(Part), next : Nat]

\* disk: the files that are there; broken: the names that cannot be opened;
\* resume: what setResumeFilePath and setResumeOffset were called with.
Request == [parts : Seq(Part), disk : [Paths -> Text \cup {None}],
            broken : SUBSET Names, resume : Resume \cup {None}]

PartText(p) == Boundary \o CRLF \o <<p.name>> \o CRLF \o CRLF \o p.data \o CRLF
Body(r) ==
  FlattenSeq([i \in DOMAIN r.parts |-> PartText(r.parts[i])]) \o EndBoundary \o CRLF

\* The places where p occurs in s, and the number of symbols before the first.
Occurrences(p, s) == {i \in 1 .. Len(s) + 1 - Len(p) : SubSeq(s, i, i + Len(p) - 1) = p}
Before(p, s)      == Min(Occurrences(p, s)) - 1

\* The line ends, the dash, the names and the absence of one are told apart.
ASSUME SymbolsAssumption ==
  /\ CR # LF /\ {CR, LF} \cap ({Dash, None} \cup Names) = {}
  /\ None \notin Names \cup Text \cup Resume \cup SavedFile \cup Reading

ASSUME ParserAssumption ==
  /\ Nested \subseteq Names
  /\ Copies \in Nat
  /\ MaxIterations \in Nat \ {0}
  /\ Mark \in Seq(Chars) /\ Mark # <<>>
  /\ Requests \subseteq Request

\* Browsers choose a boundary that does not occur in the data.  A request that
\* resumes has one file, and a file in a directory is listed once.
ASSUME RequestsAssumption ==
  \A r \in Requests :
    /\ Cardinality(Occurrences(Boundary, Body(r))) = Len(r.parts) + 1
    /\ r.resume # None => Len(r.parts) = 1
    /\ \A i, j \in DOMAIN r.parts :
         r.parts[i].name \in Nested /\ r.parts[i].name = r.parts[j].name => i = j

\* Every iteration but the last two of a call goes on to the next state of the
\* parser, of which a part has three; so 100 iterations are enough for 33 parts.
\* (The pages send requests with one.)
EnoughIterations == \A r \in Requests : 3 * Len(r.parts) < MaxIterations

VARIABLES
  request,    \* the request,
  fed,        \* and how many symbols of its body were fed
  buffer,     \* m_buffer from m_bufferOffset on
  state,      \* m_state
  file,       \* m_currentFile (m_currentSavePath, m_currentFileBytesWritten), or None
  saved,      \* m_savedFiles
  disk,       \* the contents of the files
  phase,      \* "wait": no call is active; "feed", "finish": processBuffer runs in
              \* that call; "close": finish goes on after it; "done"
  iterations  \* of processBuffer's loop

parserVars == <<request, fed, buffer, state, file, saved, disk, phase, iterations>>

ParserTypeOK ==
  /\ request \in Requests
  /\ fed \in 0 .. Len(Body(request))
  /\ buffer \in Text
  /\ state \in {"FindBoundary", "ParseHeaders", "StreamFileData", "BufferFormData"}
  /\ file \in SavedFile \cup {None}
  /\ saved \in Seq(SavedFile)
  /\ disk \in [Paths -> Text \cup {None}]
  /\ phase \in {"wait", "feed", "finish", "close", "done"}
  /\ iterations \in 0 .. MaxIterations - 1
  /\ file # None <=> state = "StreamFileData"

ParserInit ==
  /\ request \in Requests
  /\ disk = request.disk
  /\ fed = 0
  /\ buffer = <<>>
  /\ state = "FindBoundary"
  /\ file = None
  /\ saved = <<>>
  /\ phase = "wait"
  /\ iterations = 0

-----------------------------------------------------------------------------
\* Mutant: enough for a boundary that is cut, but not for the line end before it.
ShortOverlap == Len(Boundary)

\* m_overlapSize
Overlap == Len(Boundary) + 8

Feed(n) ==
  /\ phase = "wait"
  /\ n \in 1 .. Len(Body(request)) - fed
  /\ fed' = fed + n
  /\ buffer' = buffer \o SubSeq(Body(request), fed + 1, fed + n)
  /\ phase' = "feed"
  /\ UNCHANGED <<request, state, file, saved, disk, iterations>>

\* The end of the body, or of the connection.
Finish ==
  /\ phase = "wait"
  /\ phase' = "finish"
  /\ UNCHANGED <<request, fed, buffer, state, file, saved, disk, iterations>>

\* An iteration in this state; the loop ends when one consumes nothing.
Iterates(s) == phase \in {"feed", "finish"} /\ state = s
Consume(n) ==
  /\ buffer' = SubSeq(buffer, n + 1, Len(buffer))
  /\ IF n > 0 /\ iterations + 1 < MaxIterations
     THEN iterations' = iterations + 1 /\ phase' = phase
     ELSE iterations' = 0 /\ phase' = IF phase = "feed" THEN "wait" ELSE "close"
  /\ UNCHANGED <<request, fed>>

HasBoundary == Occurrences(Boundary, buffer) # {}
ToBoundary  == Before(Boundary, buffer)

\* What may be consumed while no boundary is in the buffer.
Safe == IF Len(buffer) > Overlap THEN Len(buffer) - Overlap ELSE 0

\* The number of symbols of the buffer, after the first n, that end lines.
LineEnds(n) ==
  LET others == {i \in n + 1 .. Len(buffer) : buffer[i] \notin {CR, LF}}
  IN  IF others = {} THEN Len(buffer) - n ELSE Min(others) - 1 - n

\* handleFindBoundary and handleBufferFormData without a boundary
SkipText ==
  /\ Iterates("FindBoundary") \/ Iterates("BufferFormData")
  /\ ~HasBoundary
  /\ Consume(Safe)
  /\ UNCHANGED <<state, file, saved, disk>>

AtEndBoundary == IsPrefix(EndBoundary, SubSeq(buffer, ToBoundary + 1, Len(buffer)))

SkipEnd ==
  /\ Iterates("FindBoundary")
  /\ HasBoundary /\ AtEndBoundary
  /\ Consume(Len(buffer))
  /\ UNCHANGED <<state, file, saved, disk>>

\* (An end boundary that has not arrived completely is taken for another part.)
SkipBoundary ==
  /\ Iterates("FindBoundary")
  /\ HasBoundary /\ ~AtEndBoundary
  /\ LET n == ToBoundary + Len(Boundary)
     IN  Consume(n + LineEnds(n))
  /\ state' = "ParseHeaders"
  /\ UNCHANGED <<file, saved, disk>>

HasHeaders == Occurrences(CRLF \o CRLF, buffer) # {}
ToHeaderEnd == Before(CRLF \o CRLF, buffer)

AwaitHeaders ==
  /\ Iterates("ParseHeaders")
  /\ ~HasHeaders
  /\ Consume(0)
  /\ UNCHANGED <<state, file, saved, disk>>

\* The file name in the headers, or None.
HeaderName ==
  LET named == {i \in 1 .. ToHeaderEnd : buffer[i] \in Names}
  IN  IF named = {} THEN None ELSE buffer[Min(named)]

BeginField ==
  /\ Iterates("ParseHeaders")
  /\ HasHeaders /\ HeaderName = None
  /\ Consume(ToHeaderEnd + 4)
  /\ state' = "BufferFormData"
  /\ UNCHANGED <<file, saved, disk>>

\* Mutant: the size of the file to resume is not compared.
ResumesAny ==
  /\ request.resume # None
  /\ disk[request.resume.path] # None

Resumes ==
  /\ request.resume # None
  /\ disk[request.resume.path] # None
  /\ Len(disk[request.resume.path]) = request.resume.offset

\* The numbers that are free for a name; a file in a directory is replaced.
Free(n) ==
  IF n \in Nested THEN {0} ELSE {k \in 0 .. Copies : disk[<<n, k>>] = None}
SavePath(n) == IF Resumes THEN request.resume.path ELSE <<n, Min(Free(n))>>

BeginFile ==
  /\ Iterates("ParseHeaders")
  /\ HasHeaders /\ HeaderName # None
  /\ Free(HeaderName) # {}
  /\ Consume(ToHeaderEnd + 4)
  /\ IF HeaderName \in request.broken
     THEN /\ state' = "FindBoundary"
          /\ UNCHANGED <<file, disk>>
     ELSE LET path == SavePath(HeaderName)
          IN  /\ state' = "StreamFileData"
              /\ file' = [path |-> path, size |-> IF Resumes THEN request.resume.offset ELSE 0]
              /\ disk' = IF Resumes THEN disk ELSE [disk EXCEPT ![path] = <<>>]
  /\ UNCHANGED saved

\* The first n symbols of the buffer are appended to the file.
Written(n) == [disk EXCEPT ![file.path] = @ \o SubSeq(buffer, 1, n)]

WriteSafe ==
  /\ Iterates("StreamFileData")
  /\ ~HasBoundary
  /\ Consume(Safe)
  /\ disk' = Written(Safe)
  /\ file' = [file EXCEPT !.size = @ + Safe]
  /\ UNCHANGED <<state, saved>>

\* Mutant: only half of the line end.
WithoutLineFeed(n) == IF n > 0 /\ buffer[n] = LF THEN n - 1 ELSE n

\* Without the line end before the boundary.
WithoutLineEnd(n) ==
  LET m == IF n > 0 /\ buffer[n] = LF THEN n - 1 ELSE n
  IN  IF m > 0 /\ buffer[m] = CR THEN m - 1 ELSE m

WriteRest ==
  /\ Iterates("StreamFileData")
  /\ HasBoundary
  /\ LET n == WithoutLineEnd(ToBoundary)
     IN  /\ disk' = Written(n)
         /\ saved' = Append(saved, [file EXCEPT !.size = @ + n])
  /\ file' = None
  /\ Consume(ToBoundary)
  /\ state' = "FindBoundary"

EndField ==
  /\ Iterates("BufferFormData")
  /\ HasBoundary
  /\ Consume(ToBoundary)
  /\ state' = "FindBoundary"
  /\ UNCHANGED <<file, saved, disk>>

\* Mutant: the state is not reset.
CloseFile ==
  /\ phase = "close"
  /\ phase' = "done"
  /\ saved' = IF file = None THEN saved ELSE Append(saved, file)
  /\ file' = None
  /\ UNCHANGED <<request, fed, buffer, state, disk, iterations>>

\* finish saves a file whose end did not arrive.
Close ==
  /\ phase = "close"
  /\ phase' = "done"
  /\ saved' = IF file = None THEN saved ELSE Append(saved, file)
  /\ file' = None
  /\ state' = IF file = None THEN state ELSE "FindBoundary"
  /\ UNCHANGED <<request, fed, buffer, disk, iterations>>

Process ==
  \/ SkipText \/ SkipEnd \/ SkipBoundary
  \/ AwaitHeaders \/ BeginField \/ BeginFile
  \/ WriteSafe \/ WriteRest \/ EndField

ParserNext ==
  \/ \E n \in 1 .. Len(Body(request)) : Feed(n)
  \/ Finish \/ Process \/ Close

ParserSpec == ParserInit /\ [][ParserNext]_parserVars

-----------------------------------------------------------------------------
(* The parser of bodies that are in memory (POST /api/upload/single): the   *)
(* parts with a file name that it finds in a body.                          *)

\* What it finds after the first pos symbols: a file, or nothing for a form
\* field, and where it goes on; or None, and it stops.
ReadPart(body, pos) ==
  LET From(p, n)      == {i \in Occurrences(p, body) : i > n}
      Piece(from, to) == SubSeq(body, from + 1, to)
      starts == From(Boundary, pos)
      after  == Min(starts) - 1 + Len(Boundary)
      lines  == {i \in after + 1 .. Len(body) : body[i] \notin {CR, LF}}
      ends   == From(CRLF \o CRLF, IF lines = {} THEN Len(body) ELSE Min(lines) - 1)
      begin  == Min(ends) - 1 + 4
      named  == {i \in after + 1 .. Min(ends) - 1 : body[i] \in Names}
      nexts  == From(Boundary, begin)
      last   == Min(nexts) - 1
      lf     == IF last > begin /\ body[last] = LF THEN last - 1 ELSE last
      crlf   == IF lf > begin /\ body[lf] = CR THEN lf - 1 ELSE lf
      found == [name |-> body[Min(named)], data |-> Piece(begin, crlf)]
  IN  IF starts = {} \/ ends = {} THEN None
      ELSE IF named = {} THEN [files |-> <<>>, next |-> begin]
      ELSE IF nexts = {} THEN None
      ELSE [files |-> <<found>>, next |-> last]

parseMultipartFormData(body) ==
  LET Parts[pos \in 0 .. Len(body)] ==
        IF ReadPart(body, pos) = None THEN <<>>
        ELSE ReadPart(body, pos).files \o Parts[ReadPart(body, pos).next]
  IN  Parts[0]

-----------------------------------------------------------------------------
(* The parser stores what a form contains, however its body was split. *)

\* The files of a request, in order, with what was there before them.
OpenedParts(r) ==
  FlattenSeq([i \in DOMAIN r.parts |->
                IF r.parts[i].name \in Names \ r.broken THEN <<r.parts[i]>> ELSE <<>>])
Base(r) ==
  IF /\ r.resume # None
     /\ r.disk[r.resume.path] # None
     /\ Len(r.disk[r.resume.path]) = r.resume.offset
  THEN r.disk[r.resume.path] ELSE <<>>
WantedFiles(r) == [i \in DOMAIN OpenedParts(r) |-> Base(r) \o OpenedParts(r)[i].data]

Form == INSTANCE FormUpload WITH
  wanted  <- WantedFiles(request),
  stored  <- [i \in DOMAIN saved |-> disk[saved[i].path]],
  current <- IF file = None THEN None ELSE disk[file.path],
  over    <- IF phase # "done" THEN "no"
             ELSE IF fed = Len(Body(request)) THEN "whole" ELSE "cut"

\* Whatever the blocks in which the body arrives, and wherever it is cut, the
\* files are stored as FormUpload says: a file on the disk is at any time a
\* prefix of what was sent, no file is touched after it was saved, and a whole
\* body leaves whole files (StreamingMultipartParser::feed and finish).
StoresForm == Form!FormSpec

\* The size that a saved file is reported with is its size on the disk, also
\* for a file that was resumed or cut (saveCurrentFile, which the endpoints use
\* for the list of transfers).
SizesAreTrue ==
  \A i \in DOMAIN saved : saved[i].size = Len(disk[saved[i].path])

\* The two parsers of the server read the same: the files that the streaming one
\* stored when a body arrived as a whole, in whatever blocks, are the ones that
\* parseMultipartFormData finds in that body, in their order.
ParsersAgree ==
  phase = "done" /\ fed = Len(Body(request)) /\ request.broken = {} /\ request.resume = None =>
    parseMultipartFormData(Body(request)) =
      [i \in DOMAIN saved |-> [name |-> saved[i].path[1], data |-> disk[saved[i].path]]]
=============================================================================
