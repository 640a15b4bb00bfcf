---------------------------- MODULE SplitDocument ----------------------------
(***************************************************************************)
(* split_document of src/loader.rs on one body: decompression, UTF-8       *)
(* validation, trim_start, the check of the first bytes for a sign of      *)
(* HTML, and the splitter.  The check slices the text at a byte position,  *)
(* which panics inside a character of several bytes.                       *)
(***************************************************************************)
EXTENDS Naturals, Sequences, FiniteSets, SequencesExt

CONSTANTS
  Bodies,      (* decompressed bodies, sequences of Byte                    *)
  CheckLen     (* bytes that are checked, 50                                *)

(* Bytes by their part in a text: "<" and "html" stand for the two ends of *)
(* a marker ("<html" and "<!doctype html" in any case), lead2 and lead3    *)
(* start a character of two and of three bytes, cont goes on with it.      *)
Byte == {"space", "letter", "<", "html", "lead2", "lead3", "cont"}

ASSUME SplitAssumption ==
  /\ Bodies \subseteq Seq(Byte)
  /\ CheckLen \in Nat

VARIABLES
  encoding,    (* the document's Content-Encoding                           *)
  text,        (* the body, then the decoded and trimmed text               *)
  step         (* where split_document is, or how it ended                  *)

vars == <<encoding, text, step>>

Known == {"gzip", "br", "deflate", "zstd"}
Plain == {"identity", "missing"}
Outcomes == {"chunks", "error", "panic"}

Init ==
  /\ encoding \in Known \cup Plain \cup {"other"}
  /\ text \in Bodies
  /\ step = "body"

-----------------------------------------------------------------------------
(* Decompression keeps the text or finds damaged data; an encoding without *)
(* a decoder is an error.                                                  *)
Decompress ==
  /\ step = "body"
  /\ \/ encoding \in Plain \cup Known /\ step' = "bytes"
     \/ encoding \notin Plain /\ step' = "error"
  /\ UNCHANGED <<encoding, text>>

(* The number of bytes of the character that starts with byte b.           *)
Width(b) == CASE b = "lead2" -> 2 [] b = "lead3" -> 3 [] OTHER -> 1

(* std::str::from_utf8: every character is complete, and no continuation   *)
(* byte is on its own.                                                     *)
IsUtf8(s) ==
  \A i \in 1..Len(s) :
    IF s[i] = "cont"
      THEN \E j \in 1..(i - 1) : i < j + Width(s[j])
      ELSE /\ i + Width(s[i]) - 1 <= Len(s)
           /\ \A j \in (i + 1)..(i + Width(s[i]) - 1) : s[j] = "cont"

FromUtf8 ==
  /\ step = "bytes"
  /\ step' = IF IsUtf8(text) THEN "text" ELSE "error"
  /\ UNCHANGED <<encoding, text>>

(* trim_start: the longest suffix that does not start with white space.    *)
TrimStart(s) ==
  LET first == SelectInSeq(s, LAMBDA b : b # "space")
  IN  IF first = 0 THEN <<>> ELSE SubSeq(s, first, Len(s))

Trim ==
  /\ step = "text"
  /\ text' = TrimStart(text)
  /\ step' = "trimmed"
  /\ UNCHANGED encoding

(* Variants marked "bug" are faulty forms of the definition below them: they *)
(* show that a property can fail, and no action uses them.                 *)

(* bug: the end of the text is no boundary.                                 *)
IsCharBoundaryInside(s, n) == n < Len(s) /\ s[n + 1] # "cont"

(* str::is_char_boundary: position n is between two characters.            *)
IsCharBoundary(s, n) == n \in {0, Len(s)} \/ (n < Len(s) /\ s[n + 1] # "cont")

HasMarker(s) == \E i \in 1..Len(s) - 1 : s[i] = "<" /\ s[i + 1] = "html"

CheckedPart(s) == SubSeq(s, 1, Min({Len(s), CheckLen}))

(* bug: the whole text is searched for the marker.                          *)
CheckWhole ==
  /\ step = "trimmed"
  /\ LET part == CheckedPart(text) IN
       step' = CASE ~IsCharBoundary(text, Len(part)) -> "panic"
                 [] IsCharBoundary(text, Len(part)) /\ HasMarker(text) -> "html"
                 [] OTHER -> "error"
  /\ UNCHANGED <<encoding, text>>

Check ==
  /\ step = "trimmed"
  /\ LET part == CheckedPart(text) IN
       step' = CASE ~IsCharBoundary(text, Len(part)) -> "panic"
                 [] IsCharBoundary(text, Len(part)) /\ HasMarker(part) -> "html"
                 [] OTHER -> "error"
  /\ UNCHANGED <<encoding, text>>

(* The splitter's chunks, or its error.                                     *)
Split ==
  /\ step = "html"
  /\ step' \in {"chunks", "error"}
  /\ UNCHANGED <<encoding, text>>

Next == Decompress \/ FromUtf8 \/ Trim \/ Check \/ Split

Spec == Init /\ [][Next]_vars

-----------------------------------------------------------------------------
(* The number of characters that start within the first n bytes of a text. *)
CharsWithin(s, n) == Cardinality({j \in 1..n : s[j] # "cont"})

(* What the check means in characters: a text that goes on to the splitter *)
(* shows a marker within its first CheckLen characters, wherever its       *)
(* longer characters are (split_document slices by bytes).                 *)
AcceptedShowsMarker ==
  step \in {"html", "chunks"} =>
    \E i \in 1..Len(text) - 1 :
      /\ text[i] = "<"
      /\ text[i + 1] = "html"
      /\ CharsWithin(text, i + 1) <= CheckLen

(* The check panics on one kind of text only, one with a character that    *)
(* straddles byte CheckLen; in particular never on a text of single bytes, *)
(* a short one, or one that ends right there (the slice of loader.rs:94).  *)
PanicOnlyOnStraddle ==
  step = "panic" =>
    \E i \in 1..CheckLen : i <= Len(text) /\ i + Width(text[i]) - 1 > CheckLen

-----------------------------------------------------------------------------
(* loader.rs:96 "A very naive check to see if the document is HTML": a      *)
(* document that shows its marker in the bytes of the check passes it.     *)
HtmlPassesCheck ==
  step = "panic" => ~HasMarker(CheckedPart(text))
=============================================================================
