--------------------------- MODULE FormUploadProofs ---------------------------
(***************************************************************************)
(* What FormUpload implies for every form: the theorems that a detailed    *)
(* specification gets from implementing it.                                *)
(***************************************************************************)
EXTENDS FormUpload, TLAPS

\* The current file has the beginning of the next content.
CurrentIsPrefix ==
  current # None =>
    /\ over = "no"
    /\ Len(stored) < Len(wanted)
    /\ current \in Prefixes(Content)

FormInv ==
  /\ wanted \in Seq(Seq(Symbols))
  /\ stored \in Seq(Seq(Symbols))
  /\ CurrentIsPrefix
  /\ StoredInOrder
  /\ over = "whole" => Len(stored) = Len(wanted)

\* A prefix of a text is a text, and a text is a prefix of itself.
LEMMA PrefixesOfText ==
  ASSUME NEW t \in Seq(Symbols)
  PROVE  /\ t \in Prefixes(t)
         /\ \A p \in Prefixes(t) : p \in Seq(Symbols)
<1>1. t = SubSeq(t, 1, Len(t)) /\ Len(t) \in 0 .. Len(t)
  OBVIOUS
<1>2. \A l \in 0 .. Len(t) : SubSeq(t, 1, l) \in Seq(Symbols)
  OBVIOUS
<1> QED
  BY <1>1, <1>2 DEF Prefixes

\* What is appended to the stored files keeps the order, if it is a beginning of
\* the next content, and all of it unless the form was cut.
LEMMA AppendInOrder ==
  ASSUME FormInv, over = "no", Len(stored) < Len(wanted),
         NEW p \in Prefixes(Content), stored' = Append(stored, p), wanted' = wanted,
         over' # "cut" => p = Content
  PROVE  stored' \in Seq(Seq(Symbols)) /\ StoredInOrder'
<1> DEFINE n == Len(stored) + 1
<1>1. n \in 1 .. Len(wanted) /\ Content = wanted[n] /\ Content \in Seq(Symbols)
  BY DEF FormInv, Content
<1>2. p \in Seq(Symbols)
  BY <1>1, PrefixesOfText
<1>3. /\ stored' \in Seq(Seq(Symbols))
      /\ Len(stored') = n
      /\ stored'[n] = p
      /\ \A i \in 1 .. Len(stored) : stored'[i] = stored[i]
  BY <1>2 DEF FormInv
<1>4. ASSUME NEW i \in 1 .. Len(stored')
      PROVE  /\ stored'[i] \in Prefixes(wanted[i])
             /\ over' # "cut" \/ i < Len(stored') => stored'[i] = wanted[i]
  <2>1. CASE i = n
    BY <1>1, <1>3, <2>1
  <2>2. CASE i # n
    BY <1>3, <2>2 DEF FormInv, StoredInOrder
  <2> QED
    BY <2>1, <2>2
<1> QED
  BY <1>1, <1>3, <1>4 DEF StoredInOrder

LEMMA FormInvStep ==
  FormInv /\ [FormNext]_formVars => FormInv'
<1> SUFFICES ASSUME FormInv, [FormNext]_formVars PROVE FormInv'
  OBVIOUS
<1> USE DEF FormInv
<1>1. CASE Begin
  BY <1>1 DEF Begin, CurrentIsPrefix, StoredInOrder, Content
<1>2. CASE Grow
  BY <1>2 DEF Grow, CurrentIsPrefix, StoredInOrder, Content
<1>3. CASE Save
  <2>1. Len(stored) < Len(wanted) /\ Content \in Seq(Symbols)
    BY <1>3 DEF Save, CurrentIsPrefix, Content
  <2>2. stored' \in Seq(Seq(Symbols)) /\ StoredInOrder'
    BY <1>3, <2>1, PrefixesOfText, AppendInOrder DEF Save
  <2> QED
    BY <1>3, <2>2 DEF Save, CurrentIsPrefix
<1>4. CASE EndWhole
  BY <1>4 DEF EndWhole, CurrentIsPrefix, StoredInOrder
<1>5. CASE EndCut
  <2>1. CASE current = None
    BY <1>5, <2>1 DEF EndCut, CurrentIsPrefix, StoredInOrder
  <2>2. CASE current # None
    <3>1. stored' \in Seq(Seq(Symbols)) /\ StoredInOrder'
      BY <1>5, <2>2, AppendInOrder DEF EndCut, CurrentIsPrefix
    <3> QED
      BY <1>5, <3>1 DEF EndCut, CurrentIsPrefix
  <2> QED
    BY <2>1, <2>2
<1>6. CASE UNCHANGED formVars
  BY <1>6 DEF formVars, CurrentIsPrefix, StoredInOrder, Content
<1> QED
  BY <1>1, <1>2, <1>3, <1>4, <1>5, <1>6 DEF FormNext

\* The inductive invariant of FormUpload.
LEMMA FormInvariant == FormSpec => []FormInv
<1>1. FormInit => FormInv
  BY DEF FormInit, FormInv, CurrentIsPrefix, StoredInOrder
<1> QED
  BY <1>1, FormInvStep, PTL DEF FormSpec

\* Files are stored in the order of the form, and only the last file of a form
\* that was cut may be incomplete: what StreamingMultipartParser's callers rely
\* on when they list the saved files and resume the last one.
THEOREM FilesInOrder == FormSpec => []StoredInOrder
<1>1. FormInv => StoredInOrder
  BY DEF FormInv
<1> QED
  BY <1>1, FormInvariant, PTL

\* A form that arrived as a whole is stored as a whole.
THEOREM WholeForms == FormSpec => []WholeIsStored
<1>1. FormInv => WholeIsStored
  BY DEF FormInv, StoredInOrder, WholeIsStored
<1> QED
  BY <1>1, FormInvariant, PTL
=============================================================================
