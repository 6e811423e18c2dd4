-------------------------- MODULE MCMultipartParser --------------------------
(* Instances of MultipartParser for TLC. *)
EXTENDS MultipartParser, TLC

CONSTANTS Chr, Other, Seam, Flat, Deep  \* characters, the boundary's mark, and two file names

\* Data in which something looks like the end of a file or of the headers.
Traps == {<<>>, <<CR>>, <<LF>>, CRLF, CRLF \o CRLF, <<Dash>>, <<Dash, Dash>>, <<Seam>>,
          CRLF \o <<Dash>>, CRLF \o <<Dash, Dash>>, CRLF \o <<Dash, Dash, Dash>>}
Xs(n) == [i \in 1 .. n |-> Chr]
Long  == {Xs(i) \o t \o Xs(n - i) : i \in {0, 1, 2, 5, 12}, n \in {12, 13}, t \in Traps}
Short == {<<>>, <<Chr>>, CRLF}

Sole(c) == <<[name |-> Flat, data |-> c]>>
NoDisk  == [p \in Paths |-> None]
Plain(parts) == [parts |-> parts, disk |-> NoDisk, broken |-> {}, resume |-> None]

\* One file; its name may be taken.
Ones == {Plain(Sole(c)) : c \in Long \cup Short}
Taken == {[r EXCEPT !.disk[<<Flat, 0>>] = <<Other>>] : r \in {Plain(Sole(c)) : c \in Short}}

\* A file of which the disk has the beginning; the size may have changed.
Resumed == {[r EXCEPT !.disk[<<Flat, 0>>] = <<Chr, Other>>, !.resume = [path |-> <<Flat, 0>>, offset |-> o]] :
              r \in {Plain(Sole(c)) : c \in {Xs(13), <<Chr>>, <<>>}}, o \in {1, 2}}

\* Forms with a field and several files, one of which may not be opened.
Forms == {[Plain(<<[name |-> None, data |-> <<Other>>], [name |-> Flat, data |-> a],
                   [name |-> Deep, data |-> b], [name |-> Flat, data |-> <<Other>>]>>)
             EXCEPT !.broken = B] : a, b \in Short, B \in SUBSET {Flat, Deep}}

AllRequests == Ones \cup Taken \cup Resumed \cup Forms
TheMark == <<Seam>>
FileNames == {Flat, Deep}
Directories == {Deep}
AllChars == {Chr, Other, Seam}

\* The hypothesis of ParserImplementsForm and ParsersReadTheSame.
ASSUME IterationsAssumption == EnoughIterations
=============================================================================
