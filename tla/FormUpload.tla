----------------------------- MODULE FormUpload -----------------------------
(***************************************************************************)
(* What storing the files of one form (a multipart request) promises.      *)
(*                                                                         *)
(* The files are stored one after the other; each grows by what the form   *)
(* contains and nothing else.  When the whole form arrived, every file is  *)
(* there; when it was cut, the last one may be there in part, such that a  *)
(* later request can go on where it stops.                                 *)
(***************************************************************************)
EXTENDS Naturals, Sequences, SequencesExt

CONSTANTS
  Symbols,  \* what contents are made of
  None      \* absence of a file

VARIABLES
  wanted,   \* the contents the files should have, in the order of the form
  stored,   \* the contents of the files that were stored
  current,  \* the content of the file that is being stored, or None
  over      \* how the form ended: "no" (it did not), "whole" or "cut"

formVars == <<wanted, stored, current, over>>

FormInit ==
  /\ wanted \in Seq(Seq(Symbols))
  /\ stored = <<>>
  /\ current = None
  /\ over = "no"

\* The content that the next file should have.
Content == wanted[Len(stored) + 1]

\* A file is opened; the beginning of it may be there already.
Begin ==
  /\ over = "no"
  /\ current = None
  /\ Len(stored) < Len(wanted)
  /\ current' \in Prefixes(Content)
  /\ UNCHANGED <<wanted, stored, over>>

Grow ==
  /\ over = "no"
  /\ current # None
  /\ current' \in Prefixes(Content)
  /\ IsStrictPrefix(current, current')
  /\ UNCHANGED <<wanted, stored, over>>

\* The rest of the file is written, and the file is closed.
Save ==
  /\ over = "no"
  /\ current # None
  /\ stored' = Append(stored, Content)
  /\ current' = None
  /\ UNCHANGED <<wanted, over>>

EndWhole ==
  /\ over = "no"
  /\ current = None
  /\ Len(stored) = Len(wanted)
  /\ over' = "whole"
  /\ UNCHANGED <<wanted, stored, current>>

EndCut ==
  /\ over = "no"
  /\ stored' = IF current = None THEN stored ELSE Append(stored, current)
  /\ current' = None
  /\ over' = "cut"
  /\ UNCHANGED wanted

FormNext == Begin \/ Grow \/ Save \/ EndWhole \/ EndCut

FormSpec == FormInit /\ [][FormNext]_formVars

-----------------------------------------------------------------------------
\* Every stored file has its content, but for the last one of a form that was
\* cut, of which the beginning is stored.
StoredInOrder ==
  /\ Len(stored) <= Len(wanted)
  /\ \A i \in 1 .. Len(stored) :
       /\ stored[i] \in Prefixes(wanted[i])
       /\ over # "cut" \/ i < Len(stored) => stored[i] = wanted[i]

\* The files of a form that arrived as a whole are stored as a whole.
WholeIsStored == over = "whole" => stored = wanted
=============================================================================
