------------------------- MODULE SplitDocumentProofs -------------------------
(***************************************************************************)
(* Proofs about SplitDocument for every body and every length of the check. *)
(***************************************************************************)
EXTENDS SplitDocument, FiniteSetTheorems, WellFoundedInduction, TLAPS

Steps == {"body", "bytes", "text", "trimmed", "html"} \cup Outcomes

(* Once the body is known to be a text it stays one, and the part of it    *)
(* that the check looks at is a text of its own whenever the check returns. *)
Decoded == {"text", "trimmed", "html", "chunks", "panic"}

TextIsWhole ==
  /\ step \in Decoded => IsUtf8(text)
  /\ step \in {"html", "chunks"} => IsUtf8(CheckedPart(text))

(* The inductive invariant: whoever panics has a text, which ends in a part *)
(* of a character where the check cuts it.                                 *)
SplitInv ==
  /\ text \in Seq(Byte)
  /\ step \in Steps
  /\ TextIsWhole
  /\ AcceptedShowsMarker
  /\ step = "panic" => ~IsCharBoundary(text, Len(CheckedPart(text)))

-----------------------------------------------------------------------------
(* Every nonempty set of naturals has a least element ...                  *)
LEMMA LeastNatural ==
  ASSUME NEW S \in SUBSET Nat, S # {}
  PROVE  \E x \in S : \A y \in S : x <= y
<1> DEFINE below == {pair \in Nat \X Nat : pair[1] < pair[2]}
<1>1. IsWellFoundedOn(below, Nat)
  BY NatLessThanWellFounded DEF OpToRel
<1>2. PICK x \in S : \A y \in S : <<y, x>> \notin below
  BY <1>1, WFMin, Zenon
<1>3. \A y \in S : ~(y < x)
  BY <1>2
<1>4. QED
  BY <1>3

(* ... which is the one that Min finds.                                    *)
LEMMA MinIsLeast ==
  ASSUME NEW S \in SUBSET Nat, S # {}
  PROVE  Min(S) \in S /\ \A y \in S : Min(S) <= y
BY LeastNatural DEF Min

(* The part that is checked is the text up to its end or to the length of  *)
(* the check, whichever comes first.                                       *)
LEMMA CheckedPartOf ==
  ASSUME NEW s \in Seq(Byte)
  PROVE  /\ CheckedPart(s) \in Seq(Byte)
         /\ Len(CheckedPart(s)) = IF Len(s) <= CheckLen THEN Len(s) ELSE CheckLen
         /\ \A i \in 1..Len(CheckedPart(s)) : CheckedPart(s)[i] = s[i]
<1> DEFINE n == Min({Len(s), CheckLen})
<1>1. n = IF Len(s) <= CheckLen THEN Len(s) ELSE CheckLen
  <2> DEFINE ends == {Len(s), CheckLen}
  <2>1. ends \in SUBSET Nat /\ ends # {}
    BY SplitAssumption
  <2> HIDE DEF ends
  <2>2. Min(ends) \in ends /\ \A y \in ends : Min(ends) <= y
    BY <2>1, MinIsLeast, Zenon
  <2>3. QED
    BY SplitAssumption, <2>2 DEF ends
<1>2. n \in Nat /\ n <= Len(s)
  BY SplitAssumption, <1>1
<1>3. CheckedPart(s) = SubSeq(s, 1, n)
  BY DEF CheckedPart
<1> HIDE DEF n
<1>4. /\ SubSeq(s, 1, n) \in Seq(Byte)
      /\ Len(SubSeq(s, 1, n)) = n
      /\ \A i \in 1..n : SubSeq(s, 1, n)[i] = s[i]
  BY <1>2
<1>5. QED
  BY <1>1, <1>3, <1>4

(* A character takes one to three bytes.                                   *)
LEMMA WidthOf ==
  ASSUME NEW b
  PROVE  Width(b) \in 1..3 /\ (b \in {"space", "cont"} => Width(b) = 1)
BY DEF Width

(* trim_start drops a number of white space bytes and nothing else.        *)
LEMMA TrimmedIsSuffix ==
  ASSUME NEW s \in Seq(Byte)
  PROVE  \E n \in 0..Len(s) :
           /\ TrimStart(s) \in Seq(Byte)
           /\ Len(TrimStart(s)) = Len(s) - n
           /\ \A i \in 1..Len(s) - n : TrimStart(s)[i] = s[n + i]
           /\ \A i \in 1..n : s[i] = "space"
<1> DEFINE I == {i \in 1..Len(s) : s[i] # "space"}
           first == SelectInSeq(s, LAMBDA b : b # "space")
<1>1. first = IF I # {} THEN Min(I) ELSE 0
  BY DEF SelectInSeq
<1>2. CASE I = {}
  <2>1. TrimStart(s) = <<>>
    BY <1>1, <1>2 DEF TrimStart
  <2>2. WITNESS Len(s) \in 0..Len(s)
  <2>3. \A i \in 1..Len(s) : s[i] = "space"
    BY <1>2
  <2>4. QED
    BY <2>1, <2>3
<1>3. CASE I # {}
  <2>1. first \in I /\ \A i \in I : first <= i
    BY <1>1, <1>3, MinIsLeast
  <2>2. TrimStart(s) = SubSeq(s, first, Len(s))
    BY <2>1 DEF TrimStart
  <2>3. \A i \in 1..first - 1 : s[i] = "space"
    BY <2>1
  <2> HIDE DEF first
  <2>4. first \in 1..Len(s) /\ first - 1 \in 0..Len(s)
    BY <2>1
  <2> DEFINE n == first - 1
  <2>5. /\ TrimStart(s) \in Seq(Byte)
        /\ Len(TrimStart(s)) = Len(s) - n
        /\ \A i \in 1..Len(s) - n : TrimStart(s)[i] = s[n + i]
    BY <2>2, <2>4
  <2>6. QED
    BY <2>3, <2>4, <2>5
<1>4. QED
  BY <1>2, <1>3
-----------------------------------------------------------------------------
(* What is left of a text after trim_start is a text: white space is not   *)
(* part of a longer character.                                             *)
LEMMA TrimmedIsUtf8 ==
  ASSUME NEW s \in Seq(Byte), IsUtf8(s)
  PROVE  IsUtf8(TrimStart(s))
<1> DEFINE t == TrimStart(s)
<1>1. PICK n \in 0..Len(s) :
        /\ t \in Seq(Byte)
        /\ Len(t) = Len(s) - n
        /\ \A i \in 1..Len(s) - n : t[i] = s[n + i]
        /\ \A i \in 1..n : s[i] = "space"
  BY TrimmedIsSuffix
<1> HIDE DEF t
<1>2. ASSUME NEW i \in 1..Len(t), t[i] = "cont"
      PROVE  \E j \in 1..(i - 1) : i < j + Width(t[j])
  <2>1. n + i \in 1..Len(s) /\ s[n + i] = "cont"
    BY <1>1, <1>2
  <2>2. PICK j \in 1..(n + i - 1) : n + i < j + Width(s[j])
    BY <2>1 DEF IsUtf8
  <2>3. j > n
    BY <1>1, <2>2, WidthOf
  <2>4. j - n \in 1..(i - 1) /\ t[j - n] = s[j]
    BY <1>1, <2>2, <2>3
  <2>5. QED
    BY <2>2, <2>4, WidthOf
<1>3. ASSUME NEW i \in 1..Len(t), t[i] # "cont"
      PROVE  /\ i + Width(t[i]) - 1 <= Len(t)
             /\ \A j \in (i + 1)..(i + Width(t[i]) - 1) : t[j] = "cont"
  <2>1. n + i \in 1..Len(s) /\ s[n + i] = t[i]
    BY <1>1
  <2>2. /\ n + i + Width(t[i]) - 1 <= Len(s)
        /\ \A j \in (n + i + 1)..(n + i + Width(t[i]) - 1) : s[j] = "cont"
    BY <1>3, <2>1 DEF IsUtf8
  <2>3. Width(t[i]) \in 1..3
    BY WidthOf
  <2>4. ASSUME NEW j \in (i + 1)..(i + Width(t[i]) - 1) PROVE t[j] = "cont"
    <3>1. n + j \in (n + i + 1)..(n + i + Width(t[i]) - 1) /\ j \in 1..Len(s) - n
      BY <1>1, <2>2, <2>3
    <3>2. QED
      BY <1>1, <2>2, <3>1
  <2>5. QED
    BY <1>1, <2>2, <2>3, <2>4
<1>4. QED
  BY <1>2, <1>3 DEF IsUtf8, t

(* A cut between two characters leaves a text ...                           *)
LEMMA CutIsUtf8 ==
  ASSUME NEW s \in Seq(Byte), IsUtf8(s), IsCharBoundary(s, Len(CheckedPart(s)))
  PROVE  IsUtf8(CheckedPart(s))
<1> DEFINE part == CheckedPart(s)
           m == Len(part)
<1>1. /\ m \in 0..Len(s)
      /\ \A i \in 1..m : part[i] = s[i]
  BY SplitAssumption, CheckedPartOf
<1>2. m \in {0, Len(s)} \/ (m < Len(s) /\ s[m + 1] # "cont")
  BY DEF IsCharBoundary
<1> HIDE DEF part
<1>3. ASSUME NEW i \in 1..m, part[i] = "cont"
      PROVE  \E j \in 1..(i - 1) : i < j + Width(part[j])
  BY <1>1, <1>3 DEF IsUtf8
<1>4. ASSUME NEW i \in 1..m, part[i] # "cont"
      PROVE  /\ i + Width(part[i]) - 1 <= m
             /\ \A j \in (i + 1)..(i + Width(part[i]) - 1) : part[j] = "cont"
  <2>1. i \in 1..Len(s) /\ s[i] = part[i] /\ Width(part[i]) \in 1..3
    BY <1>1, WidthOf
  <2>2. /\ i + Width(part[i]) - 1 <= Len(s)
        /\ \A j \in (i + 1)..(i + Width(part[i]) - 1) : s[j] = "cont"
    BY <1>4, <2>1 DEF IsUtf8
  <2>3. i + Width(part[i]) - 1 <= m
    <3>1. SUFFICES ASSUME i + Width(part[i]) - 1 > m PROVE FALSE
      BY <1>1, <2>1
    <3>2. m < Len(s) /\ m + 1 \in (i + 1)..(i + Width(part[i]) - 1)
      BY <1>1, <2>1, <2>2, <3>1
    <3>3. QED
      BY <1>1, <1>2, <2>2, <3>2
  <2>4. QED
    BY <1>1, <2>1, <2>2, <2>3
<1>5. QED
  BY <1>3, <1>4 DEF IsUtf8, part

(* ... and a cut that is not goes through a character that starts before   *)
(* byte CheckLen and ends behind it.                                       *)
LEMMA CutStraddles ==
  ASSUME NEW s \in Seq(Byte), IsUtf8(s), ~IsCharBoundary(s, Len(CheckedPart(s)))
  PROVE  \E i \in 1..CheckLen : i <= Len(s) /\ i + Width(s[i]) - 1 > CheckLen
<1>1. Len(CheckedPart(s)) = CheckLen /\ CheckLen < Len(s) /\ s[CheckLen + 1] = "cont"
  BY SplitAssumption, CheckedPartOf DEF IsCharBoundary
<1>2. PICK j \in 1..CheckLen : CheckLen + 1 < j + Width(s[j])
  BY SplitAssumption, <1>1 DEF IsUtf8
<1>3. j <= Len(s) /\ j + Width(s[j]) - 1 > CheckLen
  BY SplitAssumption, <1>1, <1>2, WidthOf
<1>4. QED
  BY <1>3

(* A marker in the bytes of the check is one within as many characters,    *)
(* which are at most as many as their bytes.                               *)
LEMMA MarkerInCharacters ==
  ASSUME NEW s \in Seq(Byte), HasMarker(CheckedPart(s))
  PROVE  \E i \in 1..Len(s) - 1 :
           s[i] = "<" /\ s[i + 1] = "html" /\ CharsWithin(s, i + 1) <= CheckLen
<1> DEFINE part == CheckedPart(s)
<1>1. PICK i \in 1..Len(part) - 1 : part[i] = "<" /\ part[i + 1] = "html"
  BY DEF HasMarker
<1>2. Len(part) \in Nat /\ Len(part) <= Len(s) /\ Len(part) <= CheckLen
  BY SplitAssumption, CheckedPartOf
<1>3. i \in 1..Len(s) - 1 /\ s[i] = "<" /\ s[i + 1] = "html"
  <2>1. \A k \in 1..Len(part) : part[k] = s[k]
    BY CheckedPartOf
  <2>2. i \in 1..Len(part) /\ i + 1 \in 1..Len(part)
    BY <1>1, <1>2
  <2> HIDE DEF part
  <2>3. QED
    BY <1>1, <1>2, <2>1, <2>2
<1>4. CharsWithin(s, i + 1) <= i + 1
  <2> DEFINE chars == {j \in 1..(i + 1) : s[j] # "cont"}
  <2>1. IsFiniteSet(1..(i + 1)) /\ Cardinality(1..(i + 1)) = i + 1
    BY <1>3, FS_Interval
  <2>2. chars \in SUBSET (1..(i + 1))
    OBVIOUS
  <2> HIDE DEF chars
  <2>3. IsFiniteSet(chars) /\ Cardinality(chars) <= Cardinality(1..(i + 1))
    BY <2>1, <2>2, FS_Subset
  <2>4. QED
    BY <2>1, <2>3 DEF CharsWithin, chars
<1>5. CharsWithin(s, i + 1) \in Int
  <2> DEFINE chars == {j \in 1..(i + 1) : s[j] # "cont"}
  <2>1. IsFiniteSet(1..(i + 1)) /\ chars \in SUBSET (1..(i + 1))
    BY <1>3, FS_Interval
  <2> HIDE DEF chars
  <2>2. Cardinality(chars) \in Nat
    BY <2>1, FS_Subset, FS_CardinalityType
  <2>3. QED
    BY <2>2 DEF CharsWithin, chars
<1>6. QED
  BY SplitAssumption, <1>1, <1>2, <1>3, <1>4, <1>5

-----------------------------------------------------------------------------
(* A body may be any, and nothing is known of it yet.                       *)
LEMMA SplitInit == Init => SplitInv
BY SplitAssumption DEF Init, SplitInv, Steps, TextIsWhole, Decoded, AcceptedShowsMarker

(* Every step of split_document preserves the invariant.                   *)
LEMMA SplitStep == SplitInv /\ [Next]_vars => SplitInv'
<1> SUFFICES ASSUME SplitInv, [Next]_vars PROVE SplitInv'
  OBVIOUS
<1> USE DEF SplitInv, Steps, Outcomes, TextIsWhole, Decoded, AcceptedShowsMarker
<1>1. CASE Decompress
  BY <1>1 DEF Decompress
<1>2. CASE FromUtf8
  BY <1>2 DEF FromUtf8
<1>3. CASE Trim
  <2>1. IsUtf8(text) /\ text' = TrimStart(text) /\ step' = "trimmed"
    BY <1>3 DEF Trim
  <2>2. text' \in Seq(Byte) /\ IsUtf8(text')
    BY <2>1, TrimmedIsUtf8, TrimmedIsSuffix
  <2>3. QED
    BY <2>1, <2>2
<1>4. CASE Check
  <2>1. step = "trimmed" /\ text' = text /\ IsUtf8(text)
    BY <1>4 DEF Check
  <2>2. CASE ~IsCharBoundary(text, Len(CheckedPart(text)))
    <3>1. step' = "panic"
      BY <1>4, <2>2 DEF Check
    <3>2. QED
      BY <2>1, <2>2, <3>1
  <2>3. CASE IsCharBoundary(text, Len(CheckedPart(text))) /\ HasMarker(CheckedPart(text))
    <3>1. step' = "html"
      BY <1>4, <2>3 DEF Check
    <3>2. QED
      BY <2>1, <2>3, <3>1, CutIsUtf8, MarkerInCharacters
  <2>4. CASE IsCharBoundary(text, Len(CheckedPart(text))) /\ ~HasMarker(CheckedPart(text))
    <3>1. step' = "error"
      BY <1>4, <2>4 DEF Check
    <3>2. QED
      BY <2>1, <3>1
  <2>5. QED
    BY <2>2, <2>3, <2>4
<1>5. CASE Split
  BY <1>5 DEF Split
<1>6. CASE UNCHANGED vars
  BY <1>6 DEF vars
<1>7. QED
  BY <1>1, <1>2, <1>3, <1>4, <1>5, <1>6 DEF Next

(* The invariant holds initially and every step preserves it.              *)
LEMMA SplitInvariant == Spec => []SplitInv
BY SplitInit, SplitStep, PTL DEF Spec

(* For every body and every length of the check: a text that goes on to    *)
(* the splitter shows a marker within as many characters as the check has  *)
(* bytes (split_document slices by bytes).                                 *)
THEOREM MarkerWithinCheck == Spec => []AcceptedShowsMarker
<1>1. SplitInv => AcceptedShowsMarker
  BY DEF SplitInv
<1>2. QED
  BY SplitInvariant, <1>1, PTL

(* For every body and every length of the check: the slice of loader.rs:94 *)
(* panics only where a character straddles the last byte of the check, and *)
(* no trimming before it makes a text that has none panic.                 *)
THEOREM PanicStraddles == Spec => []PanicOnlyOnStraddle
<1>1. SplitInv => PanicOnlyOnStraddle
  BY CutStraddles DEF SplitInv, TextIsWhole, Decoded, PanicOnlyOnStraddle
<1>2. QED
  BY SplitInvariant, <1>1, PTL

(* Validation comes once, before trim_start and the slice: the text that   *)
(* the splitter is given, and the part of it that was searched, are texts  *)
(* whatever the body was.                                                  *)
THEOREM TextStaysWhole == Spec => []TextIsWhole
<1>1. SplitInv => TextIsWhole
  BY DEF SplitInv
<1>2. QED
  BY SplitInvariant, <1>1, PTL
=============================================================================
