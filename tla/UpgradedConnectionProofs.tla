---------------------- MODULE UpgradedConnectionProofs ----------------------
(***************************************************************************)
(* For every client and every way the network cuts its bytes, the peek of  *)
(* serve_upgraded and the rewinding of its bytes are invisible to whoever  *)
(* serves the connection.                                                  *)
(***************************************************************************)
EXTENDS UpgradedConnection, SequenceTheorems, TLAPS

-----------------------------------------------------------------------------
(* Sequences.                                                              *)

(* A sequence is its first n elements and the others.                      *)
LEMMA SplitAt ==
  ASSUME NEW S, NEW s \in Seq(S), NEW n \in 0..Len(s)
  PROVE  /\ SubSeq(s, 1, n) \in Seq(S)
         /\ Drop(s, n) \in Seq(S)
         /\ Len(Drop(s, n)) = Len(s) - n
         /\ SubSeq(s, 1, n) \o Drop(s, n) = s
<1>1. Len(s) \in Nat /\ \A i \in 1..Len(s) : s[i] \in S
  BY LenProperties, ElementOfSeq
<1>2. SubSeq(s, 1, n) \in Seq(S)
  BY <1>1, SubSeqProperties
<1>3. Drop(s, n) \in Seq(S) /\ Len(Drop(s, n)) = Len(s) - n
  <2>1. n + 1 \in Int /\ \A i \in (n + 1)..Len(s) : s[i] \in S
    BY <1>1
  <2>2. QED
    BY <1>1, <2>1, SubSeqProperties DEF Drop
<1>4. SubSeq(s, 1, n) \o Drop(s, n) = SubSeq(s, 1, Len(s))
  <2>1. 1 \in 1..Len(s) + 1 /\ n \in (1 - 1)..Len(s) /\ Len(s) \in n..Len(s)
    BY <1>1
  <2>2. QED
    BY <2>1, ConcatAdjacentSubSeq, Zenon DEF Drop
<1>5. QED
  BY <1>2, <1>3, <1>4, SubSeqFull

(* The elements of a sequence without its first n.                         *)
LEMMA DropElements ==
  ASSUME NEW S, NEW s \in Seq(S), NEW n \in 0..Len(s)
  PROVE  \A i \in 1..Len(s) - n : Drop(s, n)[i] = s[n + i]
<1>1. Len(s) \in Nat /\ \A i \in (n + 1)..Len(s) : s[i] \in S
  BY LenProperties, ElementOfSeq
<1>2. n + 1 \in Int /\ Len(s) - (n + 1) + 1 = Len(s) - n
  BY <1>1
<1>3. \A i \in 1..Len(s) - (n + 1) + 1 : SubSeq(s, n + 1, Len(s))[i] = s[n + 1 + i - 1]
  BY <1>1, <1>2, SubSeqProperties
<1>4. QED
  BY <1>1, <1>2, <1>3 DEF Drop

(* The first elements of a concatenation that are all in its first part.   *)
LEMMA TakeFromFirst ==
  ASSUME NEW S, NEW s \in Seq(S), NEW t \in Seq(S), NEW n \in 1..Len(s)
  PROVE  /\ SubSeq(s \o t, 1, n) = SubSeq(s, 1, n)
         /\ Drop(s \o t, n) = Drop(s, n) \o t
<1>1. Len(s) \in Nat /\ Len(t) \in Nat
  BY LenProperties
<1>2. /\ s \o t \in Seq(S) /\ Len(s \o t) = Len(s) + Len(t)
      /\ n \in 0..Len(s \o t) /\ n \in 0..Len(s)
  BY <1>1, ConcatProperties
<1>3. /\ Drop(s, n) \in Seq(S) /\ Len(Drop(s, n)) = Len(s) - n
      /\ \A i \in 1..Len(s) - n : Drop(s, n)[i] = s[n + i]
  BY <1>2, SplitAt, DropElements, Zenon
<1>4. /\ Drop(s \o t, n) \in Seq(S) /\ Len(Drop(s \o t, n)) = Len(s \o t) - n
      /\ \A i \in 1..Len(s \o t) - n : Drop(s \o t, n)[i] = (s \o t)[n + i]
  BY <1>2, SplitAt, DropElements, Zenon
<1>5. /\ Drop(s, n) \o t \in Seq(S)
      /\ Len(Drop(s, n) \o t) = Len(Drop(s, n)) + Len(t)
      /\ \A i \in 1..Len(Drop(s, n)) + Len(t) :
           (Drop(s, n) \o t)[i] =
             IF i <= Len(Drop(s, n)) THEN Drop(s, n)[i] ELSE t[i - Len(Drop(s, n))]
  BY <1>3, ConcatProperties, Zenon
<1>6. \A i \in 1..Len(s) + Len(t) :
        (s \o t)[i] = IF i <= Len(s) THEN s[i] ELSE t[i - Len(s)]
  BY ConcatProperties, Zenon
<1>7. \A i \in 1..Len(s) - n + Len(t) : Drop(s \o t, n)[i] = (Drop(s, n) \o t)[i]
  <2> SUFFICES ASSUME NEW i \in 1..Len(s) - n + Len(t)
               PROVE  Drop(s \o t, n)[i] = (Drop(s, n) \o t)[i]
    OBVIOUS
  <2>1. n + i \in 1..Len(s) + Len(t) /\ i \in 1..Len(s \o t) - n
    BY <1>1, <1>2
  <2>2. Drop(s \o t, n)[i] = (s \o t)[n + i]
    BY <1>4, <2>1, Zenon
  <2>3. (s \o t)[n + i] = IF n + i <= Len(s) THEN s[n + i] ELSE t[n + i - Len(s)]
    BY <1>6, <2>1
  <2>4. (Drop(s, n) \o t)[i] = IF i <= Len(s) - n THEN Drop(s, n)[i] ELSE t[i - (Len(s) - n)]
    <3>1. i \in 1..Len(Drop(s, n)) + Len(t)
      BY <1>3
    <3>2. QED
      BY <1>3, <1>5, <3>1, Zenon
  <2>5. i <= Len(s) - n => Drop(s, n)[i] = s[n + i]
    BY <1>1, <1>3
  <2>6. /\ n + i <= Len(s) <=> i <= Len(s) - n
        /\ n + i - Len(s) = i - (Len(s) - n)
    BY <1>1
  <2>7. QED
    BY <2>2, <2>3, <2>4, <2>5, <2>6, Zenon
<1>8. Len(Drop(s \o t, n)) = Len(s) - n + Len(t) /\ Len(Drop(s, n) \o t) = Len(s) - n + Len(t)
  BY <1>1, <1>2, <1>3, <1>4, <1>5
<1>9. Drop(s \o t, n) = Drop(s, n) \o t
  BY <1>4, <1>5, <1>7, <1>8, SeqEqual, Zenon
<1>10. QED
  BY <1>1, <1>9, SubSeqOfConcat1

(* Reading the first n elements of s \o t when they are all in s ...        *)
LEMMA ReadFirst ==
  ASSUME NEW S, NEW s \in Seq(S), NEW t \in Seq(S), NEW n \in 1..Len(s)
  PROVE  /\ n \in 1..Len(s \o t)
         /\ SubSeq(s \o t, 1, n) = SubSeq(s, 1, n)
         /\ SubSeq(s \o t, n + 1, Len(s \o t)) = Drop(s, n) \o t
<1>1. n \in 1..Len(s \o t)
  BY LenProperties, ConcatProperties
<1>2. QED
  BY <1>1, TakeFromFirst DEF Drop

(* Moving the beginning of u behind r, and the rest of u behind that, makes *)
(* r and u.                                                                *)
LEMMA MoveFirst ==
  \A r, u, x, y \in Seq(Byte) : x \o y = u => (r \o x) \o y = r \o u
<1>1. ASSUME NEW r \in Seq(Byte), NEW u \in Seq(Byte), NEW x \in Seq(Byte), NEW y \in Seq(Byte),
             x \o y = u
      PROVE  (r \o x) \o y = r \o u
  <2>1. (r \o x) \o y = r \o (x \o y)
    OBVIOUS
  <2>2. r \o (x \o y) = r \o u
    BY <1>1
  <2>3. QED
    BY <2>1, <2>2
<1>2. QED
  BY <1>1

(* An element behind u is one behind r and u.                               *)
LEMMA AppendBehind ==
  \A r, u \in Seq(Byte) : \A b \in Byte : Append(r \o u, b) = r \o Append(u, b)
<1>1. ASSUME NEW r \in Seq(Byte), NEW u \in Seq(Byte), NEW b \in Byte
      PROVE  Append(r \o u, b) = r \o Append(u, b)
  OBVIOUS
<1>2. QED
  BY <1>1

-----------------------------------------------------------------------------
(* The invariant.                                                          *)

(* Nothing has been read when the connection is upgraded.                   *)
LEMMA ConnectionInit == Init => TypeOK
BY EmptySeq DEF Init, RewindInit, TypeOK

(* A read keeps the types and returns what was in front.                    *)
LEMMA PollReadType ==
  ASSUME TypeOK, NEW remaining \in 0..MaxRead, PollRead(remaining)
  PROVE  /\ {pre, inner, sent, received}' \subseteq Seq(Byte)
         /\ eof' \in BOOLEAN
<1> USE DEF TypeOK
<1>1. CASE PollPrefix(remaining)
  <2>1. Smaller(Len(pre), remaining) \in 0..Len(pre)
    BY RewindAssumption DEF Smaller
  <2>2. /\ SubSeq(pre, 1, Smaller(Len(pre), remaining)) \in Seq(Byte)
        /\ Drop(pre, Smaller(Len(pre), remaining)) \in Seq(Byte)
    BY <2>1, SplitAt
  <2>3. QED
    BY <1>1, <2>2 DEF PollPrefix
<1>2. CASE PollInner(remaining)
  <2>1. PICK n \in 1..Smaller(Len(inner), remaining) :
          received' = received \o SubSeq(inner, 1, n) /\ inner' = Drop(inner, n)
    BY <1>2 DEF PollInner
  <2>2. n \in 0..Len(inner)
    BY <2>1, RewindAssumption DEF Smaller
  <2>3. SubSeq(inner, 1, n) \in Seq(Byte) /\ Drop(inner, n) \in Seq(Byte)
    BY <2>2, SplitAt
  <2>4. QED
    BY <1>2, <2>1, <2>3 DEF PollInner
<1>3. CASE PollEnd(remaining)
  BY <1>3 DEF PollEnd
<1>4. QED
  BY <1>1, <1>2, <1>3 DEF PollRead

(* Every step preserves the invariant.                                     *)
LEMMA ConnectionStep == TypeOK /\ [Next]_vars => TypeOK'
<1> SUFFICES ASSUME TypeOK, [Next]_vars PROVE TypeOK'
  OBVIOUS
<1> USE StreamsAssumption DEF TypeOK, rewindVars
<1>1. CASE ClientWrites
  <2>1. stream \in Seq(Byte) /\ Len(sent) + 1 \in 1..Len(stream)
    BY <1>1 DEF ClientWrites
  <2>2. stream[Len(sent) + 1] \in Byte
    BY <2>1, ElementOfSeq
  <2>3. QED
    BY <1>1, <2>2, AppendProperties DEF ClientWrites, Write
<1>2. CASE ClientCloses
  BY <1>2 DEF ClientCloses, Close
<1>3. CASE Passthrough
  BY <1>3 DEF Passthrough
<1>4. CASE Sniff
  <2>1. PICK n \in 0..Smaller(Len(inner), SniffLen) :
          /\ pre' = SubSeq(inner, 1, n)
          /\ inner' = Drop(inner, n)
          /\ stage' = Selected(SubSeq(inner, 1, n))
    BY <1>4 DEF Sniff
  <2>2. n \in 0..Len(inner)
    BY <2>1 DEF Smaller, SniffLen
  <2>3. SubSeq(inner, 1, n) \in Seq(Byte) /\ Drop(inner, n) \in Seq(Byte)
    BY <2>2, SplitAt
  <2>4. stage' \in {"http", "tls", "failed"}
    BY <2>1 DEF Selected
  <2>5. QED
    BY <1>4, <2>1, <2>3, <2>4 DEF Sniff
<1>5. CASE Serve
  <2>1. PICK remaining \in 0..MaxRead : PollRead(remaining)
    BY <1>5 DEF Serve
  <2>2. {pre, inner, sent, received}' \subseteq Seq(Byte) /\ eof' \in BOOLEAN
    BY <2>1, PollReadType
  <2>3. closed' = closed
    BY <2>1 DEF PollRead, PollPrefix, PollInner, PollEnd
  <2>4. QED
    BY <1>5, <2>2, <2>3 DEF Serve, Serving
<1>6. CASE Stall \/ Resume \/ Break
  BY <1>6 DEF Stall, Resume, Break, Serving
<1>7. CASE UNCHANGED vars
  BY <1>7 DEF vars
<1>8. QED
  BY <1>1, <1>2, <1>3, <1>4, <1>5, <1>6, <1>7 DEF Next

-----------------------------------------------------------------------------
(* The refinement.                                                         *)

(* A read from the prefix or from the connection is a read of the stream   *)
(* that the two make together, or returns nothing and changes nothing.     *)
LEMMA PollReadsStream ==
  ASSUME TypeOK, NEW remaining \in 0..MaxRead, PollRead(remaining)
  PROVE  [Stream!Next]_Stream!vars
<1> USE DEF TypeOK
<1>1. CASE PollPrefix(remaining)
  <2> DEFINE n == Smaller(Len(pre), remaining)
  <2>1. n \in 0..Len(pre) /\ Len(pre) \in Nat
    BY RewindAssumption DEF Smaller
  <2>2. /\ received' = received \o SubSeq(pre, 1, n)
        /\ pre' = Drop(pre, n)
        /\ UNCHANGED <<inner, sent, closed, eof>>
    BY <1>1 DEF PollPrefix
  <2> HIDE DEF n
  <2>3. CASE n = 0
    <3>1. SubSeq(pre, 1, n) = <<>> /\ Drop(pre, n) = pre
      BY <2>3, SubSeqEmpty, SubSeqFull DEF Drop
    <3>2. UNCHANGED <<pre, inner, sent, received, closed, eof>>
      BY <2>2, <3>1, ConcatEmptySeq
    <3>3. QED
      BY <3>2 DEF Stream!vars
  <2>4. CASE n # 0
    <3>1. n \in 1..Len(pre)
      BY <2>1, <2>4
    <3>2. /\ n \in 1..Len(pre \o inner)
          /\ SubSeq(pre \o inner, 1, n) = SubSeq(pre, 1, n)
          /\ SubSeq(pre \o inner, n + 1, Len(pre \o inner)) = Drop(pre, n) \o inner
      BY <3>1, ReadFirst
    <3>3. Stream!Read(n)
      BY <2>2, <3>2 DEF Stream!Read
    <3>4. QED
      BY <3>2, <3>3 DEF Stream!Next
  <2>5. QED
    BY <2>3, <2>4
<1>2. CASE PollInner(remaining)
  <2>1. PICK n \in 1..Smaller(Len(inner), remaining) :
          received' = received \o SubSeq(inner, 1, n) /\ inner' = Drop(inner, n)
    BY <1>2 DEF PollInner
  <2>2. n \in 1..Len(inner)
    BY <2>1, RewindAssumption DEF Smaller
  <2>3. pre = <<>> /\ UNCHANGED <<pre, sent, closed, eof>>
    BY <1>2 DEF PollInner
  <2>4. Drop(inner, n) \in Seq(Byte)
    BY <2>2, SplitAt
  <2>5. pre \o inner = inner /\ pre' \o inner' = Drop(inner, n)
    BY <2>1, <2>3, <2>4, ConcatEmptySeq
  <2>6. Stream!Read(n)
    BY <2>1, <2>3, <2>5 DEF Stream!Read, Drop
  <2>7. QED
    BY <2>2, <2>5, <2>6 DEF Stream!Next
<1>3. CASE PollEnd(remaining)
  <2>1. pre \o inner = <<>> /\ closed /\ eof' = TRUE
        /\ UNCHANGED <<pre, inner, sent, received, closed>>
    BY <1>3 DEF PollEnd
  <2>2. Stream!ReadEof
    BY <2>1 DEF Stream!ReadEof
  <2>3. QED
    BY <2>2 DEF Stream!Next
<1>4. QED
  BY <1>1, <1>2, <1>3 DEF PollRead

(* Every step of the connection is a step of the stream, or none: the peek *)
(* is none.                                                                *)
LEMMA StreamStep ==
  ASSUME TypeOK, [Next]_vars
  PROVE  [Stream!Next]_Stream!vars
<1> USE DEF TypeOK, rewindVars
<1>1. CASE ClientWrites
  <2>1. stream \in Seq(Byte) /\ Len(sent) + 1 \in 1..Len(stream)
    BY <1>1, StreamsAssumption DEF ClientWrites
  <2>2. PICK b \in Byte : b = stream[Len(sent) + 1]
    BY <2>1, ElementOfSeq
  <2>3. Write(b)
    BY <1>1, <2>2 DEF ClientWrites
  <2>4. pre \o Append(inner, b) = Append(pre \o inner, b)
    OBVIOUS
  <2>5. Stream!Write(b)
    BY <2>3, <2>4 DEF Write, Stream!Write
  <2>6. QED
    BY <2>5 DEF Stream!Next
<1>2. CASE ClientCloses
  BY <1>2 DEF ClientCloses, Close, Stream!Close, Stream!Next
<1>3. CASE Passthrough
  BY <1>3 DEF Passthrough, Stream!vars
<1>4. CASE Sniff
  <2>1. PICK n \in 0..Smaller(Len(inner), SniffLen) :
          pre' = SubSeq(inner, 1, n) /\ inner' = Drop(inner, n)
    BY <1>4 DEF Sniff
  <2>2. n \in 0..Len(inner)
    BY <2>1 DEF Smaller, SniffLen
  <2>3. pre' \o inner' = inner
    BY <2>1, <2>2, SplitAt
  <2>4. pre \o inner = inner
    BY <1>4, ConcatEmptySeq DEF Sniff
  <2>5. UNCHANGED <<sent, received, closed, eof>>
    BY <1>4 DEF Sniff
  <2>6. QED
    BY <2>3, <2>4, <2>5 DEF Stream!vars
<1>5. CASE Serve
  <2>1. PICK remaining \in 0..MaxRead : PollRead(remaining)
    BY <1>5 DEF Serve
  <2>2. QED
    BY <2>1, PollReadsStream
<1>6. CASE Stall \/ Resume \/ Break
  BY <1>6 DEF Stall, Resume, Break, Stream!vars
<1>7. CASE UNCHANGED vars
  BY <1>7 DEF vars, Stream!vars
<1>8. QED
  BY <1>1, <1>2, <1>3, <1>4, <1>5, <1>6, <1>7 DEF Next

(* At every moment, what was read and what the prefix and the connection    *)
(* hold are together what the client sent, in its order, and the end of    *)
(* the stream is reported after its last byte (rewind.rs).                 *)
StreamIntact == Stream!NothingLost

(* No step of a stream loses, repeats or reorders a byte, or reports the   *)
(* end early.                                                              *)
LEMMA StreamKeepsBytes ==
  ASSUME TypeOK, Stream!NothingLost, [Stream!Next]_Stream!vars
  PROVE  Stream!NothingLost'
<1> USE DEF Stream!NothingLost
<1> DEFINE unread == pre \o inner
<1>1. unread \in Seq(Byte) /\ received \in Seq(Byte)
  BY DEF TypeOK
<1>2. ASSUME NEW b \in Byte, Stream!Write(b) PROVE Stream!NothingLost'
  <2>1. /\ sent' = Append(sent, b) /\ unread' = Append(unread, b)
        /\ ~closed /\ UNCHANGED <<received, closed, eof>>
    BY <1>2 DEF Stream!Write
  <2> HIDE DEF unread
  <2>2. Append(received \o unread, b) = received \o Append(unread, b)
    BY <1>1, AppendBehind, Zenon
  <2>3. QED
    BY <2>1, <2>2 DEF unread
<1>3. CASE Stream!Close
  BY <1>3 DEF Stream!Close
<1>4. ASSUME NEW n \in 1..Len(unread), Stream!Read(n) PROVE Stream!NothingLost'
  <2> DEFINE first == SubSeq(unread, 1, n)
             rest == Drop(unread, n)
  <2>1. /\ received' = received \o first /\ unread' = rest
        /\ UNCHANGED <<sent, closed, eof>>
    BY <1>4 DEF Stream!Read, Drop
  <2>2. unread # <<>>
    BY <1>1, <1>4
  <2> HIDE DEF unread
  <2>3. first \in Seq(Byte) /\ rest \in Seq(Byte) /\ first \o rest = unread
    BY <1>1, SplitAt
  <2> HIDE DEF first, rest
  <2>4. (received \o first) \o rest = received \o unread
    <3>1. \A x, y \in Seq(Byte) :
            x \o y = unread => (received \o x) \o y = received \o unread
      BY <1>1, MoveFirst
    <3>2. QED
      BY <2>3, <3>1
  <2>5. QED
    BY <2>1, <2>2, <2>4 DEF unread
<1>5. CASE Stream!ReadEof
  BY <1>5 DEF Stream!ReadEof
<1>6. CASE UNCHANGED Stream!vars
  BY <1>6 DEF Stream!vars
<1>7. QED
  BY <1>2, <1>3, <1>4, <1>5, <1>6 DEF Stream!Next

-----------------------------------------------------------------------------
(* Every variable keeps its type, and the peek is the first to read         *)
(* (serve_upgraded).                                                       *)
THEOREM ConnectionTypeCorrect == Spec => []TypeOK
BY ConnectionInit, ConnectionStep, PTL DEF Spec

(* For every client stream and every way the network cuts it, whoever      *)
(* serves the connection after the peek reads a plain byte stream: the     *)
(* bytes of the client in their order, each once, then the end             *)
(* (serve_upgraded, Rewind::poll_read).                                    *)
THEOREM RewindIsTransparent == Spec => ImplementsByteStream
<1>1. Init => Stream!Init
  BY ConcatEmptySeq, EmptySeq DEF Init, RewindInit, Stream!Init
<1>2. TypeOK /\ [Next]_vars => [Stream!Next]_Stream!vars
  BY StreamStep
<1>3. QED
  BY ConnectionTypeCorrect, <1>1, <1>2, PTL DEF Spec, ImplementsByteStream, Stream!Spec

-----------------------------------------------------------------------------
(* The protocol.                                                           *)

Symbol == Byte \cup {"G", "E", "T", " ", "0x16", "0x03"}

(* The two beginnings that are looked for.                                 *)
Beginnings == {Get, TlsRecord}

LEMMA BeginningsType ==
  \A prefix \in Beginnings : prefix \in Seq(Symbol) /\ Len(prefix) \in 1..SniffLen
<1>1. Get \in Seq(Symbol) /\ Len(Get) = 4
  BY DEF Get, Symbol
<1>2. TlsRecord \in Seq(Symbol) /\ Len(TlsRecord) = 2
  BY DEF TlsRecord, Symbol
<1>3. QED
  BY <1>1, <1>2 DEF Beginnings, SniffLen

(* A sequence starts with what its first elements are.                     *)
LEMMA StartsWithElements ==
  ASSUME NEW s \in Seq(Byte), NEW prefix \in Beginnings
  PROVE  StartsWith(s, prefix) <=>
           Len(prefix) <= Len(s) /\ \A i \in 1..Len(prefix) : s[i] = prefix[i]
<1>1. /\ prefix \in Seq(Symbol) /\ Len(prefix) \in Nat
      /\ s \in Seq(Symbol) /\ Len(s) \in Nat
  BY BeginningsType, SeqMonotonic, LenProperties DEF Symbol, SniffLen
<1>2. ASSUME Len(prefix) <= Len(s)
      PROVE  /\ SubSeq(s, 1, Len(prefix)) \in Seq(Symbol)
             /\ Len(SubSeq(s, 1, Len(prefix))) = Len(prefix)
             /\ \A i \in 1..Len(prefix) : SubSeq(s, 1, Len(prefix))[i] = s[i]
  <2>1. \A i \in 1..Len(prefix) : s[i] \in Symbol
    BY <1>1, <1>2, ElementOfSeq
  <2>2. /\ SubSeq(s, 1, Len(prefix)) \in Seq(Symbol)
        /\ Len(SubSeq(s, 1, Len(prefix))) = IF 1 <= Len(prefix) THEN Len(prefix) - 1 + 1 ELSE 0
        /\ \A i \in 1..Len(prefix) - 1 + 1 : SubSeq(s, 1, Len(prefix))[i] = s[1 + i - 1]
    BY <1>1, <2>1, SubSeqProperties
  <2>3. QED
    BY <1>1, <2>2
<1>3. ASSUME Len(prefix) <= Len(s), \A i \in 1..Len(prefix) : s[i] = prefix[i]
      PROVE  SubSeq(s, 1, Len(prefix)) = prefix
  <2>1. \A i \in 1..Len(prefix) : SubSeq(s, 1, Len(prefix))[i] = prefix[i]
    BY <1>2, <1>3
  <2>2. QED
    BY <1>1, <1>2, <1>3, <2>1, SeqEqual, Zenon
<1>4. QED
  BY <1>2, <1>3 DEF StartsWith

(* What comes behind does not change how a sequence starts ...             *)
LEMMA StartGrows ==
  ASSUME NEW s \in Seq(Byte), NEW t \in Seq(Byte), NEW prefix \in Beginnings,
         StartsWith(s, prefix)
  PROVE  StartsWith(s \o t, prefix)
<1>1. /\ s \o t \in Seq(Byte) /\ Len(s \o t) = Len(s) + Len(t)
      /\ \A i \in 1..Len(s) + Len(t) : (s \o t)[i] = IF i <= Len(s) THEN s[i] ELSE t[i - Len(s)]
      /\ Len(s) \in Nat /\ Len(t) \in Nat /\ Len(prefix) \in Nat
  BY ConcatProperties, LenProperties, BeginningsType DEF SniffLen
<1>2. Len(prefix) <= Len(s) /\ \A i \in 1..Len(prefix) : s[i] = prefix[i]
  BY StartsWithElements
<1>3. Len(prefix) <= Len(s \o t) /\ \A i \in 1..Len(prefix) : (s \o t)[i] = prefix[i]
  BY <1>1, <1>2
<1>4. QED
  BY <1>1, <1>3, StartsWithElements

(* ... and the start is in the first part when that is long enough.        *)
LEMMA StartStays ==
  ASSUME NEW s \in Seq(Byte), NEW t \in Seq(Byte), NEW prefix \in Beginnings,
         StartsWith(s \o t, prefix), Len(s) >= Len(prefix)
  PROVE  StartsWith(s, prefix)
<1>1. /\ s \o t \in Seq(Byte) /\ Len(s \o t) = Len(s) + Len(t)
      /\ \A i \in 1..Len(s) + Len(t) : (s \o t)[i] = IF i <= Len(s) THEN s[i] ELSE t[i - Len(s)]
      /\ Len(s) \in Nat /\ Len(t) \in Nat /\ Len(prefix) \in Nat
  BY ConcatProperties, LenProperties, BeginningsType DEF SniffLen
<1>2. \A i \in 1..Len(prefix) : (s \o t)[i] = prefix[i]
  BY <1>1, StartsWithElements
<1>3. Len(prefix) <= Len(s) /\ \A i \in 1..Len(prefix) : s[i] = prefix[i]
  BY <1>1, <1>2
<1>4. QED
  BY <1>3, StartsWithElements

(* What has been sent is a beginning of the client's stream, ...            *)
SentIsStream ==
  Len(sent) <= Len(stream) /\ \A i \in 1..Len(sent) : sent[i] = stream[i]

(* ... none of it is read before the peek, and what the server has been     *)
(* given and is about to be given again starts with what selected it.      *)
StartIsKept ==
  /\ stage = "upgraded" => received = <<>>
  /\ stage = "http" => StartsWith(received \o pre, Get)
  /\ stage = "tls" => StartsWith(received \o pre, TlsRecord)

(* Only an excluded host gets a tunnel.                                    *)
TunnelIsExcluded == stage = "tunnel" => excluded

(* The inductive invariant.                                                *)
PeekInv ==
  /\ TypeOK
  /\ TunnelIsExcluded
  /\ StreamIntact
  /\ SentIsStream
  /\ StartIsKept
  /\ PeekDecides

(* The invariant holds when the connection is upgraded.                     *)
LEMMA PeekInit == Init => PeekInv
<1> SUFFICES ASSUME Init PROVE PeekInv
  OBVIOUS
<1>1. StreamIntact
  BY ConcatEmptySeq, EmptySeq DEF Init, RewindInit, StreamIntact, Stream!NothingLost
<1>2. SentIsStream
  <2>1. stream \in Seq(Byte) /\ Len(sent) = 0
    BY StreamsAssumption, EmptySeq DEF Init, RewindInit
  <2>2. QED
    BY <2>1, LenProperties DEF SentIsStream
<1>3. StartIsKept /\ PeekDecides /\ TunnelIsExcluded
  BY DEF Init, RewindInit, StartIsKept, PeekDecides, TunnelIsExcluded
<1>4. QED
  BY <1>1, <1>2, <1>3, ConnectionInit DEF PeekInv

(* The client goes on where it was in its stream.                          *)
LEMMA SentStep ==
  ASSUME TypeOK, SentIsStream, [Next]_vars
  PROVE  SentIsStream'
<1>1. ASSUME ClientWrites PROVE SentIsStream'
  <2>1. /\ stream \in Seq(Byte) /\ sent \in Seq(Byte)
        /\ Len(stream) \in Nat /\ Len(sent) \in Nat
        /\ Len(sent) + 1 <= Len(stream)
        /\ stream' = stream /\ sent' = Append(sent, stream[Len(sent) + 1])
    BY <1>1, StreamsAssumption, LenProperties DEF ClientWrites, Write, TypeOK
  <2>2. stream[Len(sent) + 1] \in Byte
    BY <2>1, ElementOfSeq
  <2>3. /\ Len(sent') = Len(sent) + 1
        /\ \A i \in 1..Len(sent) : sent'[i] = sent[i]
        /\ sent'[Len(sent) + 1] = stream[Len(sent) + 1]
    BY <2>1, <2>2, AppendProperties
  <2>4. QED
    BY <2>1, <2>3 DEF SentIsStream
<1>2. ASSUME ClientCloses \/ Passthrough \/ Sniff \/ Serve \/ Stall \/ Resume \/ Break
               \/ UNCHANGED vars
      PROVE  UNCHANGED <<sent, stream>>
  BY <1>2 DEF ClientCloses, Close, Passthrough, Sniff, Serve, PollRead, PollPrefix, PollInner, PollEnd,
              Stall, Resume, Break, rewindVars, vars
<1>3. QED
  BY <1>1, <1>2 DEF SentIsStream, Next

(* A read moves bytes from the prefix to what was read, or puts others      *)
(* behind both.                                                            *)
LEMMA ReadKeepsStart ==
  ASSUME TypeOK, NEW remaining \in 0..MaxRead, PollRead(remaining),
         NEW prefix \in Beginnings, StartsWith(received \o pre, prefix)
  PROVE  StartsWith(received' \o pre', prefix)
<1> USE DEF TypeOK
<1>1. CASE PollPrefix(remaining)
  <2> DEFINE n == Smaller(Len(pre), remaining)
  <2>1. n \in 0..Len(pre) /\ received' = received \o SubSeq(pre, 1, n) /\ pre' = Drop(pre, n)
    BY <1>1, RewindAssumption DEF PollPrefix, Smaller
  <2> HIDE DEF n
  <2>2. /\ SubSeq(pre, 1, n) \in Seq(Byte) /\ Drop(pre, n) \in Seq(Byte)
        /\ SubSeq(pre, 1, n) \o Drop(pre, n) = pre
        /\ received \in Seq(Byte) /\ pre \in Seq(Byte)
    BY <2>1, SplitAt
  <2>3. (received \o SubSeq(pre, 1, n)) \o Drop(pre, n) = received \o pre
    <3>1. \A x, y \in Seq(Byte) : x \o y = pre => (received \o x) \o y = received \o pre
      BY <2>2, MoveFirst
    <3>2. QED
      BY <2>2, <3>1
  <2>4. QED
    BY <2>1, <2>3
<1>2. CASE PollInner(remaining)
  <2>1. PICK n \in 1..Smaller(Len(inner), remaining) : received' = received \o SubSeq(inner, 1, n)
    BY <1>2 DEF PollInner
  <2>2. n \in 0..Len(inner)
    BY <2>1, RewindAssumption DEF Smaller
  <2>3. SubSeq(inner, 1, n) \in Seq(Byte)
    BY <2>2, SplitAt
  <2>4. pre = <<>> /\ pre' = <<>>
    BY <1>2 DEF PollInner
  <2>5. StartsWith(received, prefix)
    BY <2>4, ConcatEmptySeq
  <2>6. StartsWith(received \o SubSeq(inner, 1, n), prefix)
    BY <2>3, <2>5, StartGrows
  <2>7. received \o SubSeq(inner, 1, n) \in Seq(Byte)
    BY <2>3, ConcatProperties
  <2>8. QED
    BY <2>1, <2>4, <2>6, <2>7, ConcatEmptySeq
<1>3. CASE PollEnd(remaining)
  BY <1>3 DEF PollEnd
<1>4. QED
  BY <1>1, <1>2, <1>3 DEF PollRead

(* The peek sees the first bytes of the client's stream.                   *)
LEMMA PeekSees ==
  ASSUME PeekInv, Sniff
  PROVE  /\ pre' \in Seq(Byte) /\ received' = <<>>
         /\ Len(pre') <= SniffLen /\ Len(pre') <= Len(stream)
         /\ \A i \in 1..Len(pre') : pre'[i] = stream[i]
         /\ stage' = Selected(pre')
         /\ UNCHANGED <<stream, excluded>>
<1> USE DEF PeekInv, TypeOK
<1>1. PICK n \in 0..Smaller(Len(inner), SniffLen) :
        pre' = SubSeq(inner, 1, n) /\ stage' = Selected(SubSeq(inner, 1, n))
  BY DEF Sniff
<1>2. received = <<>> /\ pre = <<>> /\ UNCHANGED <<received, stream, excluded>>
  BY DEF Sniff, StartIsKept
<1>3. sent = inner
  BY <1>2, ConcatEmptySeq, EmptySeq DEF StreamIntact, Stream!NothingLost
<1>4. Len(inner) \in Nat /\ n \in 0..Len(inner) /\ n <= SniffLen
  BY <1>1, LenProperties DEF Smaller, SniffLen
<1>5. /\ SubSeq(inner, 1, n) \in Seq(Byte)
      /\ Len(SubSeq(inner, 1, n)) = n
      /\ \A i \in 1..n : SubSeq(inner, 1, n)[i] = inner[i]
  <2>1. \A i \in 1..n : inner[i] \in Byte
    BY <1>4, ElementOfSeq
  <2>2. /\ SubSeq(inner, 1, n) \in Seq(Byte)
        /\ Len(SubSeq(inner, 1, n)) = IF 1 <= n THEN n - 1 + 1 ELSE 0
        /\ \A i \in 1..n - 1 + 1 : SubSeq(inner, 1, n)[i] = inner[1 + i - 1]
    BY <1>4, <2>1, SubSeqProperties
  <2>3. QED
    BY <1>4, <2>2
<1>6. stream \in Seq(Byte) /\ Len(stream) \in Nat
  BY StreamsAssumption, LenProperties
<1>7. n <= Len(stream) /\ \A i \in 1..n : inner[i] = stream[i]
  BY <1>3, <1>4, <1>6 DEF SentIsStream
<1>8. QED
  BY <1>1, <1>2, <1>4, <1>5, <1>7

(* Every step keeps the start of the stream in front of its server.        *)
LEMMA StartStep ==
  ASSUME PeekInv, [Next]_vars
  PROVE  StartIsKept'
<1> USE DEF PeekInv, TypeOK
<1>1. CASE ClientWrites
  BY <1>1 DEF ClientWrites, Write, StartIsKept
<1>2. CASE ClientCloses
  BY <1>2 DEF ClientCloses, Close, StartIsKept
<1>3. CASE Passthrough
  BY <1>3 DEF Passthrough, StartIsKept
<1>4. CASE Sniff
  <2>1. pre' \in Seq(Byte) /\ received' = <<>> /\ stage' = Selected(pre')
    BY <1>4, PeekSees
  <2>2. received' \o pre' = pre'
    BY <2>1, ConcatEmptySeq
  <2>3. stage' = "http" => pre' = Get
    BY <2>1 DEF Selected
  <2>4. stage' = "tls" => StartsWith(pre', TlsRecord)
    BY <2>1 DEF Selected
  <2>5. StartsWith(Get, Get)
    <3>1. Len(Get) = 4 /\ Get \in Seq(Symbol)
      BY DEF Get, Symbol
    <3>2. QED
      BY <3>1, SubSeqFull DEF StartsWith
  <2>6. stage' # "upgraded"
    BY <2>1 DEF Selected
  <2>7. QED
    BY <2>2, <2>3, <2>4, <2>5, <2>6 DEF StartIsKept
<1>5. CASE Serve
  <2>1. PICK remaining \in 0..MaxRead : PollRead(remaining)
    BY <1>5 DEF Serve
  <2>2. stage' = stage /\ stage # "upgraded"
    BY <1>5 DEF Serve, Serving
  <2>3. QED
    BY <2>1, <2>2, ReadKeepsStart DEF StartIsKept, Beginnings
<1>6. CASE Stall \/ Resume \/ Break
  BY <1>6 DEF Stall, Resume, Break, Serving, rewindVars, StartIsKept
<1>7. CASE UNCHANGED vars
  BY <1>7 DEF vars, rewindVars, StartIsKept
<1>8. QED
  BY <1>1, <1>2, <1>3, <1>4, <1>5, <1>6, <1>7 DEF Next

(* A peek that accepts has seen one of the two beginnings, and one that     *)
(* refuses has seen too little of a stream that starts so.                 *)
LEMMA DecidedStep ==
  ASSUME PeekInv, [Next]_vars
  PROVE  PeekDecides'
<1> USE DEF PeekInv, TypeOK
<1>1. ASSUME Sniff, stage' = "failed" PROVE PeekDecides'
  <2>1. /\ pre' \in Seq(Byte) /\ Len(pre') \in Nat
        /\ Len(pre') <= SniffLen /\ Len(pre') <= Len(stream)
        /\ \A i \in 1..Len(pre') : pre'[i] = stream[i]
        /\ Selected(pre') = "failed" /\ stream' = stream
        /\ stream \in Seq(Byte)
    BY <1>1, PeekSees, StreamsAssumption, LenProperties
  <2>2. ASSUME NEW prefix \in Beginnings, StartsWith(stream, prefix), Len(prefix) <= Len(pre')
        PROVE  StartsWith(pre', prefix)
    <3> HIDE DEF PeekInv, TypeOK
    <3>1. \A i \in 1..Len(prefix) : stream[i] = prefix[i]
      BY <2>1, <2>2, StartsWithElements, Zenon
    <3>11. Len(prefix) \in Nat
      BY BeginningsType DEF SniffLen
    <3>2. \A i \in 1..Len(prefix) : pre'[i] = prefix[i]
      BY <2>1, <2>2, <3>1, <3>11
    <3>3. QED
      BY <2>1, <2>2, <3>2, StartsWithElements
  <2>3. ~StartsWith(pre', TlsRecord) /\ pre' # Get
    BY <2>1 DEF Selected
  <2>4. Len(TlsRecord) <= Len(pre') => ~StartsWith(stream, TlsRecord)
    BY <2>2, <2>3 DEF Beginnings
  <2>5. Len(Get) <= Len(pre') => ~StartsWith(stream, Get)
    <3> SUFFICES ASSUME Len(Get) <= Len(pre'), StartsWith(stream, Get) PROVE FALSE
      OBVIOUS
    <3>1. StartsWith(pre', Get)
      BY <2>2 DEF Beginnings
    <3>2. Len(pre') = Len(Get)
      <4>1. Len(Get) = SniffLen /\ SniffLen \in Nat
        BY DEF Get, SniffLen
      <4>2. QED
        BY <2>1, <4>1
    <3>3. pre' = Get
      BY <2>1, <3>1, <3>2, SubSeqFull DEF StartsWith
    <3>4. QED
      BY <2>3, <3>3
  <2>6. Len(Get) \in Nat /\ Len(TlsRecord) \in Nat
    BY DEF Get, TlsRecord
  <2>7. QED
    BY <1>1, <2>1, <2>4, <2>5, <2>6 DEF PeekDecides
<1>2. ASSUME stage = "upgraded", Break PROVE PeekDecides'
  <2>1. pre' = <<>> /\ stage' = "failed"
    BY <1>2 DEF Break, Serving, rewindVars
  <2>2. Len(<<>>) < Len(Get) /\ Len(<<>>) < Len(TlsRecord)
    BY DEF Get, TlsRecord
  <2>3. QED
    BY <2>1, <2>2 DEF PeekDecides
<1>3. ASSUME Sniff, stage' # "failed" PROVE PeekDecides'
  <2>1. /\ pre' \in Seq(Byte) /\ Len(pre') \in Nat
        /\ Len(pre') <= Len(stream)
        /\ \A i \in 1..Len(pre') : pre'[i] = stream[i]
        /\ stage' = Selected(pre') /\ stream' = stream
        /\ stream \in Seq(Byte) /\ Len(stream) \in Nat
    BY <1>3, PeekSees, StreamsAssumption, LenProperties
  <2>2. PICK prefix \in Beginnings : StartsWith(pre', prefix)
    <3>1. pre' = Get \/ StartsWith(pre', TlsRecord)
      BY <1>3, <2>1 DEF Selected
    <3>2. StartsWith(Get, Get)
      <4>1. Len(Get) = 4 /\ Get \in Seq(Symbol)
        BY DEF Get, Symbol
      <4>2. QED
        BY <4>1, SubSeqFull DEF StartsWith
    <3>3. QED
      BY <3>1, <3>2 DEF Beginnings
  <2>3. /\ Len(prefix) \in Nat /\ Len(prefix) <= Len(pre')
        /\ \A i \in 1..Len(prefix) : pre'[i] = prefix[i]
    BY <2>1, <2>2, StartsWithElements, BeginningsType DEF SniffLen
  <2>4. Len(prefix) <= Len(stream) /\ \A i \in 1..Len(prefix) : stream[i] = prefix[i]
    BY <2>1, <2>3
  <2>5. StartsWith(stream, prefix)
    BY <2>1, <2>4, StartsWithElements
  <2>6. QED
    BY <1>3, <2>1, <2>5 DEF PeekDecides, Beginnings
<1>4. ASSUME ~Sniff, ~(stage = "upgraded" /\ Break) PROVE PeekDecides'
  <2>1. UNCHANGED <<stream, excluded>>
    BY <1>4 DEF Next, ClientWrites, ClientCloses, Passthrough, Serve, Stall, Resume, Break, vars
  <2>2. CASE excluded
    BY <2>1, <2>2 DEF PeekDecides
  <2>3. CASE ~excluded
    <3>1. stage' = "failed" => stage = "failed" /\ pre' = pre
      BY <1>4, <2>3 DEF Next, ClientWrites, Write, ClientCloses, Close, Passthrough, Serve, Serving,
                        Stall, Resume, Break, vars, rewindVars
    <3>2. stage' \in {"http", "tls", "ended"} => stage \in {"http", "tls", "tunnel", "ended"}
      BY <1>4, <2>3 DEF Next, ClientWrites, ClientCloses, Passthrough, Serve, Serving,
                        Stall, Resume, Break, vars
    <3>3. stage # "tunnel"
      BY <2>3 DEF TunnelIsExcluded
    <3>4. QED
      BY <2>1, <2>3, <3>1, <3>2, <3>3 DEF PeekDecides
  <2>4. QED
    BY <2>2, <2>3
<1>5. QED
  BY <1>1, <1>2, <1>3, <1>4

(* The invariant holds initially and every step preserves it.              *)
LEMMA PeekInvariant == Spec => []PeekInv
<1>1. PeekInv /\ [Next]_vars => PeekInv'
  <2> SUFFICES ASSUME PeekInv, [Next]_vars PROVE PeekInv'
    OBVIOUS
  <2>1. TypeOK' /\ StreamIntact'
    BY ConnectionStep, StreamStep, StreamKeepsBytes DEF PeekInv, StreamIntact
  <2>2. SentIsStream' /\ StartIsKept' /\ PeekDecides'
    BY SentStep, StartStep, DecidedStep DEF PeekInv
  <2>3. TunnelIsExcluded'
    BY DEF PeekInv, TunnelIsExcluded, Next, ClientWrites, ClientCloses, Passthrough, Sniff, Selected,
           Serve, Stall, Resume, Break, vars
  <2>4. QED
    BY <2>1, <2>2, <2>3 DEF PeekInv
<1>2. QED
  BY PeekInit, <1>1, PTL DEF Spec

(* For every client and every cut of its bytes: the server that the peek    *)
(* selects gets a stream of its protocol (serve_upgraded).                 *)
THEOREM SelectedServerIsRight == Spec => []ServerSeesProtocol
<1>1. PeekInv => ServerSeesProtocol
  <2> SUFFICES ASSUME PeekInv PROVE ServerSeesProtocol
    OBVIOUS
  <2>1. received \in Seq(Byte) /\ pre \in Seq(Byte)
    BY DEF PeekInv, TypeOK
  <2>2. \A prefix \in Beginnings :
          StartsWith(received \o pre, prefix) /\ Len(received) >= Len(prefix)
            => StartsWith(received, prefix)
    BY <2>1, StartStays
  <2>3. QED
    BY <2>2 DEF PeekInv, StartIsKept, ServerSeesProtocol, Beginnings
<1>2. QED
  BY PeekInvariant, <1>1, PTL

(* For every client stream: nothing is served but what starts with "GET "   *)
(* or a TLS record, whichever of the two the proxy could serve besides;    *)
(* and what starts so is given up at the peek only when the one read       *)
(* returned too little of it (serve_upgraded, which does not read again).  *)
THEOREM FirstBytesDecide == Spec => []PeekDecides
<1>1. PeekInv => PeekDecides
  BY DEF PeekInv
<1>2. QED
  BY PeekInvariant, <1>1, PTL
-----------------------------------------------------------------------------
(* What is left of a closed stream.                                        *)

(* The bytes a server is still to be given, and then their end.             *)
Unread == Len(pre) + Len(inner) + IF eof THEN 0 ELSE 1

(* A client that has closed sends no more, the peek loses nothing of what   *)
(* it sent, and every read brings its server nearer to the end.            *)
ClosedStreamDrains ==
  closed =>
    /\ closed'
    /\ Unread' <= Unread
    /\ Serve => (Unread' < Unread \/ UNCHANGED vars)

(* The measure is a number.                                                *)
LEMMA UnreadType == TypeOK => Unread \in Nat
BY LenProperties DEF TypeOK, Unread

(* A read that gives its server nothing leaves everything as it was: it had *)
(* no room, or comes after the end.                                        *)
LEMMA ReadDrains ==
  ASSUME TypeOK, NEW remaining \in 0..MaxRead, PollRead(remaining)
  PROVE  Unread' < Unread \/ UNCHANGED rewindVars
<1> USE DEF TypeOK
<1>1. Len(pre) \in Nat /\ Len(inner) \in Nat
  BY LenProperties
<1>2. CASE PollPrefix(remaining)
  <2> DEFINE n == Smaller(Len(pre), remaining)
  <2>1. n \in 0..Len(pre) /\ received' = received \o SubSeq(pre, 1, n) /\ pre' = Drop(pre, n)
        /\ UNCHANGED <<inner, sent, closed, eof>>
    BY <1>1, <1>2, RewindAssumption DEF PollPrefix, Smaller
  <2> HIDE DEF n
  <2>2. Len(Drop(pre, n)) = Len(pre) - n
    BY <2>1, SplitAt
  <2>3. CASE n = 0
    <3>1. SubSeq(pre, 1, 0) = <<>> /\ Drop(pre, 0) = pre
      BY <1>1, SubSeqEmpty, SubSeqFull DEF Drop
    <3>2. received \o <<>> = received
      BY ConcatEmptySeq
    <3>3. QED
      BY <2>1, <2>3, <3>1, <3>2 DEF rewindVars
  <2>4. CASE n # 0
    <3>1. Unread' = Len(pre) - n + Len(inner) + IF eof THEN 0 ELSE 1
      BY <2>1, <2>2 DEF Unread
    <3>2. QED
      BY <1>1, <2>1, <2>4, <3>1 DEF Unread
  <2>5. QED
    BY <2>3, <2>4
<1>3. CASE PollInner(remaining)
  <2>1. PICK n \in 1..Smaller(Len(inner), remaining) : inner' = Drop(inner, n)
    BY <1>3 DEF PollInner
  <2>2. n \in 0..Len(inner) /\ n >= 1
    BY <1>1, <2>1, RewindAssumption DEF Smaller
  <2>3. Len(Drop(inner, n)) = Len(inner) - n
    BY <2>2, SplitAt
  <2>4. pre' = pre /\ eof' = eof
    BY <1>3 DEF PollInner
  <2>5. Unread' = Len(pre) + (Len(inner) - n) + IF eof THEN 0 ELSE 1
    BY <2>1, <2>3, <2>4 DEF Unread
  <2>6. QED
    BY <1>1, <2>2, <2>5 DEF Unread
<1>4. CASE PollEnd(remaining)
  <2>1. eof' = TRUE /\ UNCHANGED <<pre, inner, sent, received, closed>>
    BY <1>4 DEF PollEnd
  <2>2. eof => UNCHANGED rewindVars
    BY <2>1 DEF rewindVars
  <2>3. ~eof => Unread = Len(pre) + Len(inner) + 1
    BY DEF Unread
  <2>4. Unread' = Len(pre) + Len(inner) + 0
    BY <2>1 DEF Unread
  <2>5. ~eof => Unread' < Unread
    BY <1>1, <2>3, <2>4
  <2>6. QED
    BY <2>2, <2>5
<1>5. QED
  BY <1>2, <1>3, <1>4 DEF PollRead

(* The peek moves bytes to the prefix, and nothing comes in any more.      *)
LEMMA ClosedStep == TypeOK /\ [Next]_vars => [ClosedStreamDrains]_vars
<1> SUFFICES ASSUME TypeOK, [Next]_vars, closed
             PROVE  /\ closed'
                    /\ Unread' <= Unread
                    /\ Serve => (Unread' < Unread \/ UNCHANGED vars)
  BY DEF ClosedStreamDrains
<1>1. Unread \in Nat /\ Unread' \in Nat
  <2>1. TypeOK'
    BY ConnectionStep
  <2>2. Len(pre') \in Nat /\ Len(inner') \in Nat
    BY <2>1, LenProperties DEF TypeOK
  <2>3. QED
    BY UnreadType, <2>2 DEF Unread
<1>2. ASSUME Serve PROVE closed' /\ (Unread' < Unread \/ UNCHANGED vars)
  <2>1. PICK remaining \in 0..MaxRead : PollRead(remaining)
    BY <1>2 DEF Serve
  <2>2. UNCHANGED <<stream, excluded, stage, stalled, closed>>
    BY <1>2, <2>1 DEF Serve, PollRead, PollPrefix, PollInner, PollEnd
  <2>3. Unread' < Unread \/ UNCHANGED rewindVars
    BY <2>1, ReadDrains
  <2>4. QED
    BY <2>2, <2>3 DEF vars
<1>3. ASSUME Sniff PROVE closed' /\ Unread' = Unread
  <2>1. PICK n \in 0..Smaller(Len(inner), SniffLen) :
          pre' = SubSeq(inner, 1, n) /\ inner' = Drop(inner, n)
    BY <1>3 DEF Sniff
  <2>2. pre = <<>> /\ closed' /\ eof' = eof
    BY <1>3 DEF Sniff, TypeOK
  <2>3. inner \in Seq(Byte) /\ Len(inner) \in Nat /\ Len(pre) = 0
    BY <2>2, LenProperties, EmptySeq DEF TypeOK
  <2>4. n \in 0..Len(inner)
    BY <2>1, <2>3 DEF Smaller, SniffLen
  <2>5. Len(Drop(inner, n)) = Len(inner) - n
    BY <2>3, <2>4, SplitAt
  <2>6. Len(SubSeq(inner, 1, n)) = n
    <3>1. \A i \in 1..n : inner[i] \in Byte
      BY <2>3, <2>4, ElementOfSeq
    <3>2. Len(SubSeq(inner, 1, n)) = IF 1 <= n THEN n - 1 + 1 ELSE 0
      BY <2>4, <3>1, SubSeqProperties
    <3>3. QED
      BY <2>4, <3>2
  <2>7. Len(pre') + Len(inner') = Len(pre) + Len(inner)
    BY <2>1, <2>3, <2>4, <2>5, <2>6
  <2>8. QED
    BY <2>2, <2>7 DEF Unread
<1>4. ASSUME Passthrough \/ Stall \/ Resume \/ Break \/ UNCHANGED vars PROVE closed' /\ Unread' = Unread
  <2>1. UNCHANGED <<pre, inner, closed, eof>>
    BY <1>4 DEF Passthrough, Stall, Resume, Break, vars, rewindVars
  <2>2. QED
    BY <2>1 DEF Unread
<1>5. ASSUME ClientWrites \/ ClientCloses PROVE FALSE
  BY <1>5 DEF ClientWrites, Write, ClientCloses, Close
<1>6. CASE Serve
  <2>1. UNCHANGED vars => Unread' = Unread
    BY DEF vars, rewindVars, Unread
  <2>2. QED
    BY <1>1, <1>2, <1>6, <2>1
<1>7. CASE ~Serve
  <2>1. closed' /\ Unread' = Unread
    BY <1>3, <1>4, <1>5, <1>7 DEF Next
  <2>2. QED
    BY <1>1, <1>7, <2>1
<1>8. QED
  BY <1>6, <1>7

(* The safety behind EverythingIsServed, for every stream and every cut of  *)
(* it: what a closed client leaves unread only shrinks, by every read that *)
(* does anything (serve_upgraded, Rewind::poll_read).                      *)
THEOREM ClosedStreamIsDrained == Spec => [][ClosedStreamDrains]_vars
BY ConnectionTypeCorrect, ClosedStep, PTL DEF Spec
=============================================================================
