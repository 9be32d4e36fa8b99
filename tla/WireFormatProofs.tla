-------------------------- MODULE WireFormatProofs --------------------------
(***************************************************************************)
(* Proofs about Negotiation and WireFormat, for any names, any lengths and *)
(* any capabilities.                                                       *)
(***************************************************************************)
EXTENDS WireFormat, TLAPS

-----------------------------------------------------------------------------
(***************************************************************************)
(* The negotiation.  The answer is determined by the offer, the page size  *)
(* and the operations, none of which change, and so is all that the kernel *)
(* may send.                                                               *)
(***************************************************************************)
TheAnswer ==
  [minor |-> Least(offer.minor, FUSE_KERNEL_MINOR_VERSION),
   flags |-> Accepted, max_write |-> MAX_WRITE, max_pages |-> MaxPages]

MessageOk(m) ==
  \/ m = NoMessage
  \/ m.op = "Write" /\ m.len \in Int /\ m.len <= WriteHeaders + MAX_WRITE
  \/ m.op = "Readdir" /\ m.len = 80
  \/ m.op = "Readdirplus" /\ m.len = 80 /\ "readdirplus" \in ops

NegotiationInv ==
  /\ page \in PageSizes
  /\ answer \in {NoAnswer, TheAnswer}
  /\ MessageOk(message)

LEMMA AnswerIs ==
  ASSUME page \in PageSizes, answer = TheAnswer
  PROVE  /\ answer # NoAnswer
         /\ answer.flags = Wanted \cap offer.flags
         /\ answer.max_write = 262144
         /\ answer.max_pages \in Nat
<1>1. page \in Nat
  BY OffersAssumption
<1>2. MaxPages \in Nat
  BY <1>1 DEF MaxPages, MAX_WRITE
<1> QED
  BY <1>2 DEF TheAnswer, NoAnswer, Accepted, MAX_WRITE

(* The kernel's limit never exceeds max_write, *)
LEMMA MaxWriteFits ==
  ASSUME page \in PageSizes, answer = TheAnswer
  PROVE  MaxWrite \in Int /\ MaxWrite <= 262144 /\ KernelPage \in Nat
<1>1. page \in Nat
  BY OffersAssumption
<1>2. KernelPage \in Nat
  BY <1>1 DEF KernelPage
<1> DEFINE pages == IF "MAX_PAGES" \in answer.flags THEN Most(answer.max_pages, 1) ELSE 32
<1>3. pages \in Nat
  BY AnswerIs DEF Most
<1>4. pages * KernelPage \in Int
  BY <1>2, <1>3
<1> HIDE DEF pages
<1> QED
  BY <1>2, <1>4, AnswerIs DEF MaxWrite, Least, pages

(* and reaches it where both sides can do large requests. *)
LEMMA MaxWriteFull ==
  ASSUME page \in PageSizes, answer = TheAnswer,
         "MAX_PAGES" \in answer.flags, "BIG_WRITES" \in answer.flags
  PROVE  MaxWrite = 262144
<1>1. page \in Nat /\ page > 0 /\ "MAX_PAGES" \in offer.flags
  BY OffersAssumption, AnswerIs DEF Wanted
<1>2. page >= 4096 /\ 262144 % page = 0
  BY <1>1, PagesAssumption DEF MAX_WRITE
<1>3. PICK n \in Nat : n = 262144 \div page
  BY <1>1
<1>4. n * page = 262144 /\ n >= 1 /\ n <= 64
  BY <1>1, <1>2, <1>3
<1>5. answer.max_pages = n
  BY <1>1, <1>3, <1>4 DEF TheAnswer, MaxPages, MAX_WRITE
<1>6. Most(answer.max_pages, 1) * KernelPage = 262144
  BY <1>1, <1>4, <1>5 DEF Most, KernelPage
<1> QED
  BY <1>6, AnswerIs DEF MaxWrite, Least

LEMMA NegotiationStart == NegotiationInit => NegotiationInv
BY DEF NegotiationInit, NegotiationInv, MessageOk

LEMMA NegotiationStep ==
  ASSUME NegotiationInv,
         \/ negotiate_init \/ KernelFullWrite \/ KernelReaddir \/ ReadMessage
         \/ UNCHANGED negotiationVars
  PROVE  NegotiationInv'
<1>1. page \in PageSizes /\ answer \in {NoAnswer, TheAnswer} /\ MessageOk(message)
  BY DEF NegotiationInv
<1>2. UNCHANGED <<offer, page, ops>>
  BY DEF negotiate_init, KernelFullWrite, KernelReaddir, ReadMessage, negotiationVars
<1>3. TheAnswer' = TheAnswer
  BY <1>2 DEF TheAnswer, Accepted, Wanted, MaxPages
<1>4. ASSUME NEW m, MessageOk(m) PROVE MessageOk(m)'
  BY <1>2, <1>4 DEF MessageOk
<1>5. CASE negotiate_init
  BY <1>1, <1>2, <1>3, <1>5 DEF NegotiationInv, negotiate_init, MessageOk, TheAnswer
<1>6. CASE KernelFullWrite
  <2>1. answer = TheAnswer /\ answer' = answer
    BY <1>1, <1>6 DEF KernelFullWrite, Quiet
  <2>2. PICK n \in {1, KernelPage, MaxWrite} :
          n <= MaxWrite /\ message' = [op |-> "Write", len |-> WriteHeaders + n]
    BY <1>6 DEF KernelFullWrite
  <2>3. n \in Int /\ n <= 262144
    BY <1>1, <2>1, <2>2, MaxWriteFits
  <2>4. MessageOk(message)'
    BY <2>2, <2>3 DEF MessageOk, WriteHeaders, MAX_WRITE
  <2> QED
    BY <1>1, <1>2, <1>3, <2>1, <2>4 DEF NegotiationInv
<1>7. CASE KernelReaddir
  <2>1. answer = TheAnswer /\ answer' = answer
    BY <1>1, <1>7 DEF KernelReaddir, Quiet
  <2>2. PICK plus \in BOOLEAN :
          /\ plus => "DO_READDIRPLUS" \in answer.flags
          /\ message' = [op |-> IF plus THEN "Readdirplus" ELSE "Readdir", len |-> 40 + 40]
    BY <1>7 DEF KernelReaddir
  <2>3. plus => "readdirplus" \in ops
    BY <1>1, <2>1, <2>2, AnswerIs DEF Wanted
  <2>4. MessageOk(message)'
    BY <1>2, <2>2, <2>3 DEF MessageOk
  <2> QED
    BY <1>1, <1>2, <1>3, <2>1, <2>4 DEF NegotiationInv
<1>8. CASE ReadMessage
  BY <1>1, <1>2, <1>3, <1>8 DEF NegotiationInv, ReadMessage, MessageOk
<1>9. CASE UNCHANGED negotiationVars
  BY <1>1, <1>2, <1>3, <1>9 DEF NegotiationInv, negotiationVars, MessageOk
<1> QED
  BY <1>5, <1>6, <1>7, <1>8, <1>9

LEMMA NegotiationKept == NegotiationInv => AgreementIsKept
<1> SUFFICES ASSUME NegotiationInv PROVE AgreementIsKept
  OBVIOUS
<1>1. page \in PageSizes /\ answer \in {NoAnswer, TheAnswer} /\ MessageOk(message)
  BY DEF NegotiationInv
<1>2. message.len <= READ_BUF_SIZE
  BY <1>1 DEF MessageOk, NoMessage, READ_BUF_SIZE, WriteHeaders, MAX_WRITE
<1>3. answer # NoAnswer =>
        READ_BUF_SIZE >= Most(FUSE_MIN_READ_BUFFER, WriteHeaders + answer.max_write)
  BY <1>1, AnswerIs
     DEF READ_BUF_SIZE, MAX_WRITE, Most, FUSE_MIN_READ_BUFFER, WriteHeaders
<1>4. WritesAreFull
  BY <1>1, MaxWriteFull DEF WritesAreFull, NoAnswer, MAX_WRITE
<1>5. ReaddirPlusIsServed
  BY <1>1 DEF MessageOk, NoMessage, ReaddirPlusIsServed
<1> QED
  BY <1>2, <1>3, <1>4, <1>5 DEF AgreementIsKept, MessagesFit

(***************************************************************************)
(* What negotiate_init agrees to can be kept with one buffer of            *)
(* READ_BUF_SIZE bytes, for every page size and every set of capabilities: *)
(* each message fits, full writes are used where both sides can, and no    *)
(* READDIRPLUS comes that the session would refuse.                        *)
(***************************************************************************)
THEOREM AgreementHolds == Spec => []AgreementIsKept
<1>1. Init => NegotiationInv
  BY NegotiationStart DEF Init
<1>2. NegotiationInv /\ [Next]_vars => NegotiationInv'
  <2> SUFFICES ASSUME NegotiationInv, [Next]_vars PROVE NegotiationInv'
    OBVIOUS
  <2>1. \/ negotiate_init \/ KernelFullWrite \/ KernelReaddir \/ ReadMessage
        \/ UNCHANGED negotiationVars
    BY DEF Next, vars, Negotiate, SendWrite, SendReaddir, ReadIt, KernelBare, KernelNamed,
           KernelRename, KernelWrite, KernelBatch, Compose, Cut, ProcessBare, ProcessNamed,
           ProcessRename, ProcessWrite, ProcessBatchForget, Take, NextMessage
  <2> QED
    BY <2>1, NegotiationStep
<1> QED
  BY <1>1, <1>2, NegotiationKept, PTL DEF Spec

-----------------------------------------------------------------------------
(***************************************************************************)
(* The bodies of messages.  Sequences of cells by their elements.          *)
(***************************************************************************)
Cell == [k : {"byte", "field", "rest"}, v : Int]

LEMMA ConcatIs ==
  ASSUME NEW s \in Seq(Cell), NEW t \in Seq(Cell)
  PROVE  /\ s \o t \in Seq(Cell) /\ Len(s \o t) = Len(s) + Len(t)
         /\ \A i \in 1 .. Len(s) : (s \o t)[i] = s[i]
         /\ \A i \in 1 .. Len(t) : (s \o t)[Len(s) + i] = t[i]
OBVIOUS

LEMMA SubSeqIs ==
  ASSUME NEW S, NEW s \in Seq(S), NEW m \in 1 .. Len(s) + 1, NEW n \in m - 1 .. Len(s)
  PROVE  /\ SubSeq(s, m, n) \in Seq(S) /\ Len(SubSeq(s, m, n)) = n - m + 1
         /\ \A i \in 1 .. n - m + 1 : SubSeq(s, m, n)[i] = s[m + i - 1]
OBVIOUS

LEMMA SameSequence ==
  ASSUME NEW S, NEW s \in Seq(S), NEW t \in Seq(S), Len(s) = Len(t),
         \A i \in 1 .. Len(s) : s[i] = t[i]
  PROVE  s = t
OBVIOUS

LEMMA PrefixIs ==
  ASSUME NEW S, NEW s \in Seq(S), NEW t \in Seq(S), Len(s) <= Len(t),
         \A i \in 1 .. Len(s) : s[i] = t[i]
  PROVE  IsPrefix(s, t)
<1>1. Len(s) \in Nat /\ Len(t) \in Nat
  OBVIOUS
<1>2. /\ SubSeq(s, 1, Len(s)) \in Seq(S) /\ Len(SubSeq(s, 1, Len(s))) = Len(s)
      /\ \A i \in 1 .. Len(s) : SubSeq(s, 1, Len(s))[i] = s[i]
  BY <1>1, SubSeqIs
<1>3. /\ SubSeq(t, 1, Len(s)) \in Seq(S) /\ Len(SubSeq(t, 1, Len(s))) = Len(s)
      /\ \A i \in 1 .. Len(s) : SubSeq(t, 1, Len(s))[i] = t[i]
  BY <1>1, SubSeqIs
<1>4. SubSeq(s, 1, Len(s)) = SubSeq(t, 1, Len(s))
  BY <1>2, <1>3, SameSequence
<1> QED
  BY <1>4 DEF IsPrefix

LEMMA ElementOf ==
  ASSUME NEW S, NEW s \in Seq(S)
  PROVE  \A i \in 1 .. Len(s) : s[i] \in S
OBVIOUS

LEMMA FunctionIsSequence ==
  ASSUME NEW n \in Nat, NEW S, NEW f \in [1 .. n -> S]
  PROVE  f \in Seq(S) /\ Len(f) = n
OBVIOUS

LEMMA StructIs ==
  ASSUME NEW n \in Nat, NEW v \in Int
  PROVE  /\ Struct(n, v) \in Seq(Cell) /\ Len(Struct(n, v)) = n
         /\ n >= 1 => Struct(n, v)[1] = [k |-> "field", v |-> v]
<1>1. Struct(n, v) \in [1 .. n -> Cell]
  BY DEF Struct, Cell
<1>2. n >= 1 => Struct(n, v)[1] = [k |-> "field", v |-> v]
  BY DEF Struct
<1> QED
  BY <1>1, <1>2, FunctionIsSequence

LEMMA CharsIs ==
  ASSUME NEW s \in Seq(1 .. 255)
  PROVE  /\ Chars(s) \in Seq(Cell) /\ Len(Chars(s)) = Len(s)
         /\ \A i \in 1 .. Len(s) : ~IsNul(Chars(s)[i])
         /\ Terminated(s) \in Seq(Cell) /\ Len(Terminated(s)) = Len(s) + 1
         /\ \A i \in 1 .. Len(s) : Terminated(s)[i] = Chars(s)[i]
         /\ IsNul(Terminated(s)[Len(s) + 1])
<1>1. \A i \in 1 .. Len(s) : s[i] \in Int /\ s[i] # 0
  <2>1. \A x \in 1 .. 255 : x \in Int /\ x # 0
    OBVIOUS
  <2> QED
    BY <2>1, ElementOf, Zenon
<1>2. Chars(s) \in [1 .. Len(s) -> Cell]
  BY <1>1 DEF Chars, Byte, Cell
<1>3. \A i \in 1 .. Len(s) : ~IsNul(Chars(s)[i])
  BY <1>1 DEF Chars, Byte, IsNul
<1>4. Chars(s) \in Seq(Cell) /\ Len(Chars(s)) = Len(s)
  BY <1>2, FunctionIsSequence
<1>5. Byte(0) \in Cell /\ IsNul(Byte(0))
  BY DEF Byte, Cell, IsNul
<1> QED
  BY <1>3, <1>4, <1>5 DEF Terminated

(* The first zero, and what is in front of it. *)
LEMMA FirstNulIs ==
  ASSUME NEW s \in Seq(Cell)
  PROVE  /\ (\A i \in 1 .. Len(s) : ~IsNul(s[i])) => FirstNul(s) = 0
         /\ \A k \in 1 .. Len(s) :
              IsNul(s[k]) /\ (\A i \in 1 .. k - 1 : ~IsNul(s[i])) => FirstNul(s) = k
<1> DEFINE I == {i \in 1 .. Len(s) : IsNul(s[i])}
<1>1. FirstNul(s) = IF I # {} THEN Min(I) ELSE 0
  BY DEF FirstNul, SelectInSeq
<1>2. ASSUME NEW k \in 1 .. Len(s), IsNul(s[k]), \A i \in 1 .. k - 1 : ~IsNul(s[i])
      PROVE  FirstNul(s) = k
  <2>1. k \in I /\ \A i \in I : k <= i
    BY <1>2
  <2>2. \A x \in I : (\A i \in I : x <= i) => x = k
    BY <2>1
  <2>3. Min(I) = k
    BY <2>1, <2>2 DEF Min
  <2> QED
    BY <1>1, <2>1, <2>3
<1> QED
  BY <1>1, <1>2

(* A name that arrived up to its length m is a beginning of the name, all  *)
(* of it if the zero arrived too.                                          *)
LEMMA NameRead ==
  ASSUME NEW s \in Seq(1 .. 255), NEW b \in Seq(Cell), Len(b) <= Len(s) + 1,
         \A i \in 1 .. Len(b) : b[i] = Terminated(s)[i]
  PROVE  /\ IsPrefix(name_from_bytes(b), Chars(s))
         /\ Len(b) = Len(s) + 1 => name_from_bytes(b) = Chars(s)
<1>1. Len(s) \in Nat /\ Len(b) \in Nat
  OBVIOUS
<1>2. CASE Len(b) = Len(s) + 1
  <2>1. FirstNul(b) = Len(s) + 1
    BY <1>1, <1>2, CharsIs, FirstNulIs
  <2>2. name_from_bytes(b) = SubSeq(b, 1, Len(s))
    BY <1>1, <2>1 DEF name_from_bytes
  <2>3. /\ SubSeq(b, 1, Len(s)) \in Seq(Cell) /\ Len(SubSeq(b, 1, Len(s))) = Len(s)
        /\ \A i \in 1 .. Len(s) : SubSeq(b, 1, Len(s))[i] = b[i]
    BY <1>1, <1>2, SubSeqIs
  <2>4. name_from_bytes(b) = Chars(s)
    BY <1>1, <1>2, <2>2, <2>3, CharsIs, SameSequence
  <2> QED
    BY <1>1, <2>4, CharsIs DEF IsPrefix
<1>3. CASE Len(b) <= Len(s)
  <2>1. \A i \in 1 .. Len(b) : b[i] = Chars(s)[i] /\ ~IsNul(b[i])
    BY <1>1, <1>3, CharsIs
  <2>2. name_from_bytes(b) = b
    BY <2>1, FirstNulIs DEF name_from_bytes
  <2> QED
    BY <1>1, <1>3, <2>1, <2>2, CharsIs, PrefixIs
<1> QED
  BY <1>1, <1>2, <1>3

(***************************************************************************)
(* What arrives of a body is all of it or a beginning.                     *)
(***************************************************************************)
Arrived(b, w) ==
  /\ b \in Seq(Cell) /\ w \in Seq(Cell) /\ Len(b) <= Len(w)
  /\ \A i \in 1 .. Len(b) : b[i] = w[i]

(* Behind the structure at the beginning. *)
LEMMA AfterArrived ==
  ASSUME NEW u \in Seq(Cell), NEW x \in Seq(Cell), NEW b, Arrived(b, u \o x),
         Len(u) <= Len(b)
  PROVE  /\ Arrived(SubSeq(b, Len(u) + 1, Len(b)), x)
         /\ Len(SubSeq(b, Len(u) + 1, Len(b))) = Len(b) - Len(u)
         /\ Len(b) = Len(u \o x) <=> Len(SubSeq(b, Len(u) + 1, Len(b))) = Len(x)
<1> DEFINE a == SubSeq(b, Len(u) + 1, Len(b))
<1>1. /\ b \in Seq(Cell) /\ Len(b) \in Nat /\ Len(u) \in Nat /\ Len(x) \in Nat
      /\ Len(b) <= Len(u) + Len(x) /\ Len(u \o x) = Len(u) + Len(x)
      /\ \A i \in 1 .. Len(b) : b[i] = (u \o x)[i]
  BY ConcatIs DEF Arrived
<1>2. /\ a \in Seq(Cell) /\ Len(a) = Len(b) - Len(u)
      /\ \A i \in 1 .. Len(b) - Len(u) : a[i] = b[Len(u) + i]
  <2>1. Len(u) + 1 \in 1 .. Len(b) + 1 /\ Len(b) \in Len(u) + 1 - 1 .. Len(b)
    BY <1>1
  <2>2. /\ a \in Seq(Cell) /\ Len(a) = Len(b) - (Len(u) + 1) + 1
        /\ \A i \in 1 .. Len(b) - (Len(u) + 1) + 1 : a[i] = b[Len(u) + 1 + i - 1]
    BY <1>1, <2>1, SubSeqIs
  <2> QED
    BY <1>1, <2>2
<1>3. \A i \in 1 .. Len(a) : a[i] = x[i]
  BY <1>1, <1>2, ConcatIs
<1> HIDE DEF a
<1>4. Arrived(a, x)
  BY <1>1, <1>2, <1>3 DEF Arrived
<1>5. Len(b) = Len(u \o x) <=> Len(a) = Len(x)
  BY <1>1, <1>2
<1> QED
  BY <1>2, <1>4, <1>5 DEF a

(* What the code may make of a message that meant m, all of which arrived  *)
(* or not.                                                                 *)
Right(result, m, whole) ==
  /\ whole => result = m
  /\ \/ result.err
     \/ /\ Len(result.names) = Len(m.names)
        /\ \A i \in DOMAIN result.names : IsPrefix(result.names[i], m.names[i])
        /\ IsPrefix(result.ids, m.ids)
        /\ result.data = m.data

LEMMA ErrorRight ==
  ASSUME NEW m
  PROVE  Right(Error, m, FALSE)
BY DEF Right, Error, Nothing

LEMMA OneNameRight ==
  ASSUME NEW s \in Names, NEW b, Arrived(b, Terminated(s))
  PROVE  Right([Nothing EXCEPT !.names = <<name_from_bytes(b)>>],
               [Nothing EXCEPT !.names = <<Chars(s)>>], Len(b) = Len(Terminated(s)))
<1>1. s \in Seq(1 .. 255)
  BY BodiesAssumption
<1>2. /\ IsPrefix(name_from_bytes(b), Chars(s))
      /\ Len(b) = Len(Terminated(s)) => name_from_bytes(b) = Chars(s)
  BY <1>1, CharsIs, NameRead DEF Arrived
<1>3. IsPrefix(<<>>, <<>>)
  BY DEF IsPrefix
<1> QED
  BY <1>2, <1>3 DEF Right, Nothing

LEMMA NamedRight ==
  ASSUME NEW s \in Names, NEW t, SizeOf[t] \in Nat, NEW b,
         Arrived(b, Struct(SizeOf[t], 1) \o Terminated(s))
  PROVE  Right(name_after(b, t), [Nothing EXCEPT !.names = <<Chars(s)>>],
               Len(b) = Len(Struct(SizeOf[t], 1) \o Terminated(s)))
<1> DEFINE u == Struct(SizeOf[t], 1)
           w == u \o Terminated(s)
<1>1. u \in Seq(Cell) /\ Len(u) = SizeOf[t]
  <2>1. 1 \in Int
    OBVIOUS
  <2> QED
    BY <2>1, StructIs, Zenon
<1>2. Terminated(s) \in Seq(Cell)
  BY BodiesAssumption, CharsIs
<1>3. b \in Seq(Cell) /\ Len(b) \in Nat /\ Len(w) >= SizeOf[t]
  BY <1>1, <1>2, ConcatIs DEF Arrived
<1>4. CASE Short(b, t)
  <2>1. Len(b) # Len(w) /\ name_after(b, t) = Error
    BY <1>3, <1>4 DEF Short, name_after
  <2> QED
    BY <2>1, ErrorRight
<1>5. CASE ~Short(b, t)
  <2>1. Len(u) <= Len(b)
    BY <1>1, <1>3, <1>5 DEF Short
  <2>2. After(b, t) = SubSeq(b, Len(u) + 1, Len(b))
    BY <1>1 DEF After
  <2> HIDE DEF u
  <2>3. Arrived(After(b, t), Terminated(s))
        /\ (Len(b) = Len(w) <=> Len(After(b, t)) = Len(Terminated(s)))
    BY <1>1, <1>2, <2>1, <2>2, AfterArrived DEF u
  <2>4. Right([Nothing EXCEPT !.names = <<name_from_bytes(After(b, t))>>],
              [Nothing EXCEPT !.names = <<Chars(s)>>], Len(b) = Len(w))
    BY <2>3, OneNameRight DEF Right
  <2> QED
    BY <1>5, <2>4 DEF name_after, u
<1> QED
  BY <1>4, <1>5

LEMMA ConcatAssociative ==
  ASSUME NEW s \in Seq(Cell), NEW t \in Seq(Cell), NEW u \in Seq(Cell)
  PROVE  s \o t \o u = s \o (t \o u)
OBVIOUS

(* Rename2: the first name ends at its zero, the second is what follows. *)
LEMMA RestRight ==
  ASSUME NEW s \in Names, NEW t \in Names, NEW rest,
         Arrived(rest, Terminated(s) \o Terminated(t)), Len(s) < Len(rest)
  PROVE  /\ FirstNul(rest) = Len(s) + 1
         /\ SubSeq(rest, 1, Len(s)) = Chars(s)
         /\ LET x == SubSeq(rest, Len(s) + 2, Len(rest))
            IN  /\ IsPrefix(name_from_bytes(x), Chars(t))
                /\ Len(rest) = Len(Terminated(s) \o Terminated(t)) =>
                     name_from_bytes(x) = Chars(t)
<1> DEFINE x == SubSeq(rest, Len(s) + 2, Len(rest))
           w == Terminated(s) \o Terminated(t)
<1>1. s \in Seq(1 .. 255) /\ t \in Seq(1 .. 255)
  BY BodiesAssumption
<1>2. /\ Len(s) \in Nat /\ Len(t) \in Nat /\ Len(rest) \in Nat
      /\ rest \in Seq(Cell) /\ \A i \in 1 .. Len(rest) : rest[i] = w[i]
  BY <1>1 DEF Arrived
<1>3. /\ Terminated(s) \in Seq(Cell) /\ Len(Terminated(s)) = Len(s) + 1
      /\ Terminated(t) \in Seq(Cell) /\ Len(Terminated(t)) = Len(t) + 1
      /\ Chars(s) \in Seq(Cell) /\ Len(Chars(s)) = Len(s)
      /\ \A i \in 1 .. Len(s) : Terminated(s)[i] = Chars(s)[i] /\ ~IsNul(Chars(s)[i])
      /\ IsNul(Terminated(s)[Len(s) + 1])
  BY <1>1, CharsIs
<1>4. \A i \in 1 .. Len(s) + 1 : w[i] = Terminated(s)[i]
  BY <1>3, ConcatIs
<1> HIDE DEF w
<1>5. \A i \in 1 .. Len(s) + 1 : rest[i] = Terminated(s)[i]
  BY <1>2, <1>4
<1>6. FirstNul(rest) = Len(s) + 1
  <2>1. Len(s) + 1 \in 1 .. Len(rest) /\ IsNul(rest[Len(s) + 1])
    BY <1>2, <1>3, <1>5
  <2>2. \A i \in 1 .. Len(s) + 1 - 1 : ~IsNul(rest[i])
    BY <1>2, <1>3, <1>5
  <2> QED
    BY <1>2, <2>1, <2>2, FirstNulIs
<1>7. SubSeq(rest, 1, Len(s)) = Chars(s)
  <2>1. /\ SubSeq(rest, 1, Len(s)) \in Seq(Cell) /\ Len(SubSeq(rest, 1, Len(s))) = Len(s)
        /\ \A i \in 1 .. Len(s) : SubSeq(rest, 1, Len(s))[i] = rest[i]
    BY <1>2, SubSeqIs
  <2>2. \A i \in 1 .. Len(s) : rest[i] = Chars(s)[i]
    BY <1>2, <1>3, <1>5
  <2> QED
    BY <1>3, <2>1, <2>2, SameSequence
<1>8. /\ Arrived(x, Terminated(t))
      /\ Len(rest) = Len(w) <=> Len(x) = Len(Terminated(t))
  <2>1. x = SubSeq(rest, Len(Terminated(s)) + 1, Len(rest))
    BY <1>2, <1>3
  <2>2. Len(Terminated(s)) <= Len(rest)
    BY <1>2, <1>3
  <2> QED
    BY <1>3, <2>1, <2>2, AfterArrived DEF w
<1> HIDE DEF x
<1>9. /\ IsPrefix(name_from_bytes(x), Chars(t))
      /\ Len(rest) = Len(w) => name_from_bytes(x) = Chars(t)
  BY <1>1, <1>3, <1>8, NameRead DEF Arrived
<1> QED
  BY <1>6, <1>7, <1>9 DEF x, w

LEMMA TwoNamesRight ==
  ASSUME NEW s \in Names, NEW t \in Names, NEW u \in Seq(Cell), Len(u) = 16, NEW b,
         Arrived(b, u \o (Terminated(s) \o Terminated(t)))
  PROVE  Right(two_names_after(b, "FuseRename2In"),
               [Nothing EXCEPT !.names = <<Chars(s), Chars(t)>>],
               Len(b) = Len(u \o (Terminated(s) \o Terminated(t))))
<1> DEFINE x == Terminated(s) \o Terminated(t)
           w == u \o x
           rest == After(b, "FuseRename2In")
           m == [Nothing EXCEPT !.names = <<Chars(s), Chars(t)>>]
<1>2. s \in Seq(1 .. 255) /\ t \in Seq(1 .. 255)
  BY BodiesAssumption
<1>3. /\ Terminated(s) \in Seq(Cell) /\ Terminated(t) \in Seq(Cell)
      /\ Len(Terminated(s)) = Len(s) + 1 /\ Len(Terminated(t)) = Len(t) + 1
      /\ Len(s) \in Nat /\ Len(t) \in Nat
  BY <1>2, CharsIs
<1>4. x \in Seq(Cell) /\ Len(x) = Len(s) + Len(t) + 2
      /\ \A i \in 1 .. Len(s) : x[i] = Terminated(s)[i]
  <2>1. /\ x \in Seq(Cell) /\ Len(x) = Len(Terminated(s)) + Len(Terminated(t))
        /\ \A i \in 1 .. Len(Terminated(s)) : x[i] = Terminated(s)[i]
    BY <1>3, ConcatIs, Zenon
  <2> HIDE DEF x
  <2> QED
    BY <1>3, <2>1
<1> HIDE DEF x
<1>6. Arrived(b, w) /\ b \in Seq(Cell) /\ Len(b) \in Nat /\ Len(w) = 16 + Len(x)
  <2>1. Arrived(b, w)
    BY DEF x
  <2>2. Len(w) = Len(u) + Len(x)
    BY <1>4, ConcatIs
  <2> QED
    BY <2>1, <2>2 DEF Arrived
<1>7. Short(b, "FuseRename2In") <=> Len(b) < 16
  BY DEF Short, SizeOf
<1>8. rest = SubSeq(b, 17, Len(b))
  BY DEF After, SizeOf
<1> HIDE DEF w, rest
<1>9. CASE Len(b) < 16
  <2>1. two_names_after(b, "FuseRename2In") = Error
    BY <1>7, <1>9 DEF two_names_after
  <2>2. Len(b) # Len(w)
    BY <1>4, <1>6, <1>9, <1>3
  <2> QED
    BY <2>1, <2>2, ErrorRight DEF w, x
<1>10. CASE Len(b) >= 16
  <2>1. /\ Arrived(rest, x) /\ Len(rest) = Len(b) - 16
        /\ Len(b) = Len(w) <=> Len(rest) = Len(x)
    BY <1>4, <1>6, <1>8, <1>10, AfterArrived DEF w
  <2>2. CASE Len(rest) <= Len(s)
    <3>1. \A i \in 1 .. Len(rest) : ~IsNul(rest[i])
      <4>1. \A i \in 1 .. Len(s) : ~IsNul(x[i])
        BY <1>2, <1>4, CharsIs
      <4>2. \A i \in 1 .. Len(rest) : rest[i] = x[i] /\ Len(rest) \in Nat
        BY <2>1 DEF Arrived
      <4> QED
        BY <1>3, <2>2, <4>1, <4>2
    <3>2. FirstNul(rest) = 0
      BY <2>1, <3>1, FirstNulIs DEF Arrived
    <3>3. two_names_after(b, "FuseRename2In") = Error
      BY <1>6, <1>7, <1>10, <3>2 DEF two_names_after, rest
    <3>4. Len(b) # Len(w)
      BY <1>3, <1>4, <2>1, <2>2
    <3> QED
      BY <3>3, <3>4, ErrorRight DEF w, x
  <2>3. CASE Len(rest) > Len(s)
    <3> DEFINE y == name_from_bytes(SubSeq(rest, Len(s) + 2, Len(rest)))
    <3>1. /\ FirstNul(rest) = Len(s) + 1 /\ SubSeq(rest, 1, Len(s)) = Chars(s)
          /\ IsPrefix(y, Chars(t))
          /\ Len(rest) = Len(x) => y = Chars(t)
      <4>1. Len(s) < Len(rest)
        BY <1>3, <1>6, <2>1, <2>3
      <4>2. Arrived(rest, Terminated(s) \o Terminated(t))
        BY <2>1 DEF x
      <4> QED
        BY <4>1, <4>2, RestRight DEF x
    <3>2. two_names_after(b, "FuseRename2In") = [Nothing EXCEPT !.names = <<Chars(s), y>>]
      <4>1. Len(s) + 1 # 0 /\ Len(s) + 1 - 1 = Len(s) /\ Len(s) + 1 + 1 = Len(s) + 2
        BY <1>3
      <4>2. two_names_after(b, "FuseRename2In") =
              IF FirstNul(rest) = 0 THEN Error
              ELSE [Nothing EXCEPT !.names =
                      <<SubSeq(rest, 1, FirstNul(rest) - 1),
                        name_from_bytes(SubSeq(rest, FirstNul(rest) + 1, Len(rest)))>>]
        BY <1>6, <1>7, <1>10 DEF two_names_after, rest
      <4>3. /\ FirstNul(rest) # 0 /\ FirstNul(rest) - 1 = Len(s)
            /\ FirstNul(rest) + 1 = Len(s) + 2
        BY <1>3, <3>1, <4>1
      <4> QED
        BY <3>1, <4>2, <4>3, Zenon
    <3> HIDE DEF y
    <3>3. IsPrefix(<<>>, <<>>) /\ IsPrefix(Chars(s), Chars(s))
      BY <1>2, CharsIs, PrefixIs DEF IsPrefix
    <3>4. Right([Nothing EXCEPT !.names = <<Chars(s), y>>], m, Len(rest) = Len(x))
      <4> DEFINE z == [Nothing EXCEPT !.names = <<Chars(s), y>>]
      <4>1. /\ z.names = <<Chars(s), y>> /\ m.names = <<Chars(s), Chars(t)>>
            /\ z.ids = <<>> /\ m.ids = <<>> /\ z.data = m.data
            /\ y = Chars(t) => z = m
        BY DEF Nothing
      <4> HIDE DEF z, m
      <4>2. /\ Len(z.names) = 2 /\ Len(m.names) = 2 /\ DOMAIN z.names = {1, 2}
            /\ z.names[1] = Chars(s) /\ m.names[1] = Chars(s)
            /\ z.names[2] = y /\ m.names[2] = Chars(t)
        BY <4>1
      <4>3. Right(z, m, Len(rest) = Len(x))
        BY <3>1, <3>3, <4>1, <4>2 DEF Right
      <4> QED
        BY <4>3 DEF z
    <3> QED
      BY <2>1, <3>2, <3>4 DEF Right, w, x
  <2> QED
    BY <1>3, <1>6, <2>1, <2>2, <2>3
<1> QED
  BY <1>6, <1>9, <1>10

LEMMA RenameRight ==
  ASSUME NEW s \in Names, NEW t \in Names, NEW b,
         Arrived(b, Struct(16, 1) \o Terminated(s) \o Terminated(t))
  PROVE  Right(two_names_after(b, "FuseRename2In"),
               [Nothing EXCEPT !.names = <<Chars(s), Chars(t)>>],
               Len(b) = Len(Struct(16, 1) \o Terminated(s) \o Terminated(t)))
<1> DEFINE u == Struct(16, 1)
<1>1. 16 \in Nat /\ 1 \in Int
  OBVIOUS
<1>2. u \in Seq(Cell) /\ Len(u) = 16
  BY <1>1, StructIs, Zenon
<1>3. Terminated(s) \in Seq(Cell) /\ Terminated(t) \in Seq(Cell)
  BY BodiesAssumption, CharsIs, Zenon
<1>4. \A a, b1, c \in Seq(Cell) : a \o b1 \o c = a \o (b1 \o c)
  BY ConcatAssociative
<1>5. u \o Terminated(s) \o Terminated(t) = u \o (Terminated(s) \o Terminated(t))
  BY <1>2, <1>3, <1>4, Zenon
<1> QED
  BY <1>2, <1>5, TwoNamesRight, Zenon

(* Write: the data is taken only if all of it is there. *)
LEMMA WriteRight ==
  ASSUME NEW n \in Nat, NEW u \in Seq(Cell), Len(u) = 40,
         u[1] = [k |-> "field", v |-> n], NEW data \in Seq(Cell), Len(data) = n,
         NEW b, Arrived(b, u \o data)
  PROVE  Right(IF Short(b, "FuseWriteIn") THEN Error ELSE WriteData(b, FuseInHeader + Len(b)),
               [Nothing EXCEPT !.data = data], Len(b) = Len(u \o data))
<1> DEFINE w == u \o data
<1>0. Len(w) = Len(u) + Len(data) /\ \A i \in 1 .. Len(u) : w[i] = u[i]
  BY ConcatIs, Zenon
<1> HIDE DEF w
<1>1. /\ b \in Seq(Cell) /\ Len(b) \in Nat /\ Len(w) = 40 + n /\ Len(b) <= 40 + n
      /\ \A i \in 1 .. Len(b) : b[i] = w[i]
  <2>1. /\ b \in Seq(Cell) /\ Len(b) <= Len(w)
        /\ \A i \in 1 .. Len(b) : b[i] = w[i]
    BY Zenon DEF Arrived, w
  <2>2. Len(w) = 40 + n
    BY <1>0
  <2> QED
    BY <2>1, <2>2
<1>2. w[1] = u[1]
  <2>1. 1 \in 1 .. Len(u)
    OBVIOUS
  <2> QED
    BY <1>0, <2>1
<1>3. Short(b, "FuseWriteIn") <=> Len(b) < 40
  BY DEF Short, SizeOf
<1>4. CASE Len(b) < 40
  <2>1. Short(b, "FuseWriteIn") /\ Len(b) # Len(w)
    BY <1>1, <1>3, <1>4
  <2> QED
    BY <2>1, ErrorRight, Zenon DEF w
<1>5. CASE Len(b) >= 40
  <2>1. read_body(b) = n
    BY <1>1, <1>2, <1>5 DEF read_body
  <2>2. WriteData(b, FuseInHeader + Len(b)) =
          IF 80 + n > 40 + Len(b) THEN Error
          ELSE [Nothing EXCEPT !.data = SubSeq(b, 41, 40 + n)]
    <3>1. SizeOf.FuseWriteIn = 40
      BY DEF SizeOf
    <3>2. WriteData(b, FuseInHeader + Len(b)) =
            IF 40 + SizeOf.FuseWriteIn + read_body(b) > 40 + Len(b) THEN Error
            ELSE [Nothing EXCEPT !.data =
                    SubSeq(b, (40 + SizeOf.FuseWriteIn) - 40 + 1,
                              (40 + SizeOf.FuseWriteIn + read_body(b)) - 40)]
      BY Zenon DEF WriteData, FuseInHeader
    <3>3. /\ (40 + SizeOf.FuseWriteIn) - 40 + 1 = 41
          /\ (40 + SizeOf.FuseWriteIn + read_body(b)) - 40 = 40 + n
          /\ 40 + SizeOf.FuseWriteIn + read_body(b) = 80 + n
      BY <2>1, <3>1
    <3> QED
      BY <3>2, <3>3, Zenon
  <2>3. CASE Len(b) < 40 + n
    <3>1. WriteData(b, FuseInHeader + Len(b)) = Error
      BY <1>1, <2>2, <2>3
    <3>2. Len(b) # Len(w) /\ ~Short(b, "FuseWriteIn")
      BY <1>1, <1>3, <1>5, <2>3
    <3> QED
      BY <3>1, <3>2, ErrorRight DEF w
  <2>4. CASE Len(b) = 40 + n
    <3> DEFINE a == SubSeq(b, 41, 40 + n)
    <3>1. Arrived(a, data) /\ Len(a) = n
      <4>1. Len(u) <= Len(b) /\ a = SubSeq(b, Len(u) + 1, Len(b))
        BY <1>1, <1>5, <2>4
      <4>2. /\ Arrived(SubSeq(b, Len(u) + 1, Len(b)), data)
            /\ Len(SubSeq(b, Len(u) + 1, Len(b))) = Len(b) - Len(u)
        BY <4>1, AfterArrived, ZenonT(40)
      <4> HIDE DEF a
      <4> QED
        BY <2>4, <4>1, <4>2
    <3> HIDE DEF a
    <3>2. a = data
      BY <3>1, SameSequence DEF Arrived
    <3>3. WriteData(b, FuseInHeader + Len(b)) = [Nothing EXCEPT !.data = data]
      <4>1. ~(80 + n > 40 + Len(b))
        BY <2>4
      <4> QED
        BY <2>2, <3>2, <4>1, Zenon DEF a
    <3>4. IsPrefix(<<>>, <<>>)
      BY DEF IsPrefix
    <3>5. Right([Nothing EXCEPT !.data = data], [Nothing EXCEPT !.data = data], TRUE)
      BY <3>4 DEF Right, Nothing
    <3>6. ~Short(b, "FuseWriteIn") /\ (Len(b) = Len(w)) = TRUE
      BY <1>1, <1>3, <1>5, <2>4
    <3> QED
      BY <3>3, <3>5, <3>6, Zenon DEF w
  <2> QED
    BY <1>1, <2>3, <2>4
<1> QED
  BY <1>1, <1>4, <1>5

(* BatchForget: entry e, from 0 on, has its id in its first cell. *)
LEMMA BatchBodyIs ==
  ASSUME NEW n \in Nat
  PROVE  /\ BatchBody(n) \in Seq(Cell) /\ Len(BatchBody(n)) = 8 + 16 * n
         /\ BatchBody(n)[1] = [k |-> "field", v |-> n]
         /\ \A e \in 0 .. n - 1 :
              BatchBody(n)[8 + 16 * e + 1] = [k |-> "field", v |-> 11 + e]
<1> DEFINE u == Struct(8, n)
           E(i) == Struct(16, 11 + ((i - 1) \div 16))[1 + ((i - 1) % 16)]
           x == [i \in 1 .. n * 16 |-> E(i)]
<1>1. u \in Seq(Cell) /\ Len(u) = 8 /\ u[1] = [k |-> "field", v |-> n]
  <2>1. 8 \in Nat /\ n \in Int /\ 8 >= 1
    OBVIOUS
  <2> QED
    BY <2>1, StructIs, ZenonT(40)
<1>2. ASSUME NEW i \in 1 .. n * 16
      PROVE  /\ E(i) \in Cell
             /\ \A e \in 0 .. n - 1 : i = 16 * e + 1 => E(i) = [k |-> "field", v |-> 11 + e]
  <2>1. (i - 1) \div 16 \in Int /\ (i - 1) % 16 \in 0 .. 15
    OBVIOUS
  <2>2. 1 + ((i - 1) % 16) \in 1 .. 16
    BY <2>1
  <2>3. E(i) \in Cell
    BY <2>1, <2>2 DEF Struct, Cell
  <2>4. ASSUME NEW e \in 0 .. n - 1, i = 16 * e + 1
        PROVE  E(i) = [k |-> "field", v |-> 11 + e]
    <3>1. (i - 1) \div 16 = e /\ (i - 1) % 16 = 0
      BY <2>4
    <3> QED
      BY <3>1 DEF Struct
  <2> QED
    BY <2>3, <2>4
<1> HIDE DEF E
<1>3. x \in [1 .. n * 16 -> Cell]
  BY <1>2
<1>4. x \in Seq(Cell) /\ Len(x) = n * 16
  <2>1. n * 16 \in Nat
    OBVIOUS
  <2> HIDE DEF x
  <2> QED
    BY <1>3, <2>1, FunctionIsSequence
<1>5. \A e \in 0 .. n - 1 : x[16 * e + 1] = [k |-> "field", v |-> 11 + e]
                             /\ 16 * e + 1 \in 1 .. n * 16
  BY <1>2
<1>6. BatchBody(n) = u \o x
  BY DEF BatchBody, SizeOf, E
<1> HIDE DEF u, x
<1>7. /\ u \o x \in Seq(Cell) /\ Len(u \o x) = 8 + n * 16
      /\ (u \o x)[1] = u[1]
      /\ \A i \in 1 .. n * 16 : (u \o x)[8 + i] = x[i]
  <2>1. /\ u \o x \in Seq(Cell) /\ Len(u \o x) = Len(u) + Len(x)
        /\ \A i \in 1 .. Len(u) : (u \o x)[i] = u[i]
        /\ \A i \in 1 .. Len(x) : (u \o x)[Len(u) + i] = x[i]
    BY <1>1, <1>4, ConcatIs
  <2>2. 1 \in 1 .. Len(u)
    BY <1>1
  <2> QED
    BY <1>1, <1>4, <2>1, <2>2, Zenon
<1>8. \A e \in 0 .. n - 1 : (u \o x)[8 + (16 * e + 1)] = [k |-> "field", v |-> 11 + e]
  BY <1>5, <1>7
<1>9. \A e \in 0 .. n - 1 : 8 + 16 * e + 1 = 8 + (16 * e + 1)
  OBVIOUS
<1> QED
  BY <1>1, <1>6, <1>7, <1>8, <1>9

(* The loop of the handler: it takes the complete entries and no other. *)
LEMMA ForgetsIs ==
  ASSUME NEW n \in Nat, NEW b, Arrived(b, BatchBody(n)), Len(b) >= 8
  PROVE  LET c == (Len(b) - 8) \div 16
         IN  /\ c \in 0 .. n
             /\ Forgets(b) = [Nothing EXCEPT !.ids = [i \in 1 .. c |-> 10 + i]]
<1> DEFINE c == (Len(b) - 8) \div 16
           L == Len(b)
           At(i) == read_body(SubSeq(b, 8 + i * 16 + 1, Len(b)))
<1>1. /\ b \in Seq(Cell) /\ L \in Nat /\ L <= 8 + 16 * n
      /\ \A i \in 1 .. L : b[i] = BatchBody(n)[i]
  <2>1. Len(BatchBody(n)) = 8 + 16 * n
    BY BatchBodyIs
  <2> QED
    BY <2>1 DEF Arrived
<1> HIDE DEF L
<1>2. c \in 0 .. n /\ 8 + 16 * c <= L /\ L < 8 + 16 * c + 16
  BY <1>1 DEF L
<1> HIDE DEF c
<1>3. read_body(b) = n
  <2>1. BatchBody(n)[1] = [k |-> "field", v |-> n]
    BY BatchBodyIs
  <2>2. 1 \in 1 .. L
    BY <1>1 DEF L
  <2> QED
    BY <1>1, <2>1, <2>2 DEF read_body
<1>4. \A i \in Int : Complete(b, i) <=> 8 + i * 16 + 16 <= L
  BY DEF Complete, SizeOf, L
<1>5. (CHOOSE m \in 0 .. n : /\ \A i \in 0 .. m - 1 : Complete(b, i)
                             /\ m < n => ~Complete(b, m)) = c
  <2>1. (\A i \in 0 .. c - 1 : Complete(b, i)) /\ (c < n => ~Complete(b, c))
    BY <1>1, <1>2, <1>4
  <2>2. ASSUME NEW m \in 0 .. n, \A i \in 0 .. m - 1 : Complete(b, i), m < n => ~Complete(b, m)
        PROVE  m = c
    <3>1. m # 0 => 8 + (m - 1) * 16 + 16 <= L
      <4>1. m # 0 => m - 1 \in 0 .. m - 1 /\ m - 1 \in Int
        OBVIOUS
      <4> QED
        BY <1>4, <2>2, <4>1
    <3>2. m < n => ~(8 + m * 16 + 16 <= L)
      BY <1>4, <2>2
    <3> QED
      BY <1>1, <1>2, <3>1, <3>2
  <2> QED
    BY <1>2, <2>1, <2>2
<1>6. ASSUME NEW i \in 0 .. c - 1
      PROVE  At(i) = 11 + i /\ 16 <= L - 8 - i * 16
  <2>1. i \in 0 .. n - 1 /\ 8 + i * 16 + 1 \in 1 .. L /\ 16 <= L - 8 - i * 16
        /\ 8 + 16 * i + 1 = 8 + i * 16 + 1
    BY <1>1, <1>2
  <2>2. b[8 + i * 16 + 1] = [k |-> "field", v |-> 11 + i]
    BY <1>1, <2>1, BatchBodyIs, ZenonT(40)
  <2>3. SubSeq(b, 8 + i * 16 + 1, L)[1] = b[8 + i * 16 + 1]
    <3> DEFINE k == 8 + i * 16 + 1
    <3>1. k \in 1 .. L + 1 /\ L \in k - 1 .. L /\ 1 \in 1 .. L - k + 1 /\ k + 1 - 1 = k
      BY <1>1, <2>1
    <3> HIDE DEF k
    <3>2. \A j \in 1 .. L - k + 1 : SubSeq(b, k, L)[j] = b[k + j - 1]
      BY <1>1, <3>1, SubSeqIs DEF L
    <3> QED
      BY <3>1, <3>2 DEF k
  <2> QED
    BY <2>1, <2>2, <2>3 DEF read_body, L
<1>7. [i \in 1 .. c |-> At(i - 1)] = [i \in 1 .. c |-> 10 + i]
  <2>1. \A i \in 1 .. c : i - 1 \in 0 .. c - 1 /\ 11 + (i - 1) = 10 + i
    BY <1>2
  <2> HIDE DEF At
  <2>2. \A i \in 1 .. c : At(i - 1) = 10 + i
    BY <1>6, <2>1
  <2> QED
    BY <2>2
<1>8. Forgets(b) =
        IF \E i \in 0 .. c - 1 : ~(16 <= L - 8 - i * 16)
          THEN Error ELSE [Nothing EXCEPT !.ids = [i \in 1 .. c |-> At(i - 1)]]
  BY <1>3, <1>5 DEF Forgets, SizeOf, L
<1> HIDE DEF At
<1>9. Forgets(b) = [Nothing EXCEPT !.ids = [i \in 1 .. c |-> 10 + i]]
  BY <1>6, <1>7, <1>8
<1> QED
  BY <1>2, <1>9 DEF c, L

BatchResult(b) == IF Short(b, "FuseBatchForgetIn") THEN Error ELSE Forgets(b)

LEMMA BatchRight ==
  ASSUME NEW n \in Nat, NEW b, Arrived(b, BatchBody(n))
  PROVE  /\ Right(BatchResult(b), [Nothing EXCEPT !.ids = [i \in 1 .. n |-> 10 + i]],
                  Len(b) = Len(BatchBody(n)))
         /\ ~Short(b, "FuseBatchForgetIn") =>
              ~BatchResult(b).err /\ Len(BatchResult(b).ids) = (Len(b) - 8) \div 16
<1> DEFINE m == [Nothing EXCEPT !.ids = [i \in 1 .. n |-> 10 + i]]
<1>1. Len(b) \in Nat /\ Len(BatchBody(n)) = 8 + 16 * n
  <2>1. b \in Seq(Cell)
    BY DEF Arrived
  <2>2. Len(BatchBody(n)) = 8 + 16 * n
    BY BatchBodyIs
  <2> QED
    BY <2>1, <2>2
<1>2. Short(b, "FuseBatchForgetIn") <=> Len(b) < 8
  BY DEF Short, SizeOf
<1>3. CASE Len(b) < 8
  <2>1. Len(b) # Len(BatchBody(n))
    BY <1>1, <1>3
  <2>2. BatchResult(b) = Error
    BY <1>2, <1>3 DEF BatchResult
  <2> QED
    BY <1>2, <1>3, <2>1, <2>2, ErrorRight
<1>4. CASE Len(b) >= 8
  <2>1. PICK c \in 0 .. n : c = (Len(b) - 8) \div 16
    BY <1>4, ForgetsIs
  <2> DEFINE f == [i \in 1 .. c |-> 10 + i]
             g == [i \in 1 .. n |-> 10 + i]
             z == [Nothing EXCEPT !.ids = f]
  <2>2. BatchResult(b) = z
    <3>1. Forgets(b) = [Nothing EXCEPT !.ids = [i \in 1 .. (Len(b) - 8) \div 16 |-> 10 + i]]
      BY <1>4, ForgetsIs
    <3>2. ~Short(b, "FuseBatchForgetIn")
      BY <1>1, <1>2, <1>4
    <3> QED
      BY <2>1, <3>1, <3>2, Zenon DEF BatchResult
  <2>3. c \in Nat /\ f \in [1 .. c -> Int] /\ g \in [1 .. n -> Int]
    OBVIOUS
  <2>4. \A i \in 1 .. c : f[i] = g[i]
    BY <2>3
  <2>5. c = n => f = g
    OBVIOUS
  <2>6. /\ z.names = <<>> /\ m.names = <<>> /\ z.ids = f /\ m.ids = g
        /\ z.data = m.data /\ z.err = FALSE /\ (f = g => z = m)
    BY DEF Nothing
  <2> HIDE DEF f, g, z, m
  <2>7. /\ f \in Seq(Int) /\ Len(f) = c
        /\ g \in Seq(Int) /\ Len(g) = n
    BY <2>3, FunctionIsSequence
  <2>8. IsPrefix(f, g)
    BY <2>4, <2>7, PrefixIs
  <2>9. Len(b) = Len(BatchBody(n)) => z = m
    BY <1>1, <2>1, <2>5, <2>6
  <2>10. DOMAIN z.names = {} /\ Len(z.names) = Len(m.names)
    BY <2>6
  <2>11. Right(z, m, Len(b) = Len(BatchBody(n)))
    BY <2>6, <2>8, <2>9, <2>10 DEF Right
  <2>12. ~z.err /\ Len(z.ids) = (Len(b) - 8) \div 16
    BY <2>1, <2>6, <2>7
  <2> QED
    BY <2>2, <2>11, <2>12 DEF m
<1> QED
  BY <1>1, <1>3, <1>4

(***************************************************************************)
(* The inductive invariant: what is under way is (a beginning of) the body *)
(* that some request has, and what was made of a message is right.         *)
(***************************************************************************)
Meant(op, w, m) ==
  \/ \E s \in Names :
       /\ op \in Bare /\ w = Terminated(s)
       /\ m = [Nothing EXCEPT !.names = <<Chars(s)>>]
  \/ \E s \in Names :
       /\ op \in DOMAIN Before /\ w = Struct(SizeOf[Before[op]], 1) \o Terminated(s)
       /\ m = [Nothing EXCEPT !.names = <<Chars(s)>>]
  \/ \E s, t \in Names :
       /\ op = "Rename2" /\ w = Struct(16, 1) \o Terminated(s) \o Terminated(t)
       /\ m = [Nothing EXCEPT !.names = <<Chars(s), Chars(t)>>]
  \/ \E n \in Nat, u, data \in Seq(Cell) :
       /\ op = "Write" /\ w = u \o data
       /\ Len(u) = 40 /\ u[1] = [k |-> "field", v |-> n] /\ Len(data) = n
       /\ m = [Nothing EXCEPT !.data = data]
  \/ \E n \in Nat :
       /\ op = "BatchForget" /\ w = BatchBody(n)
       /\ m = [Nothing EXCEPT !.ids = [i \in 1 .. n |-> 10 + i]]

Underway ==
  /\ msg = [op |-> msg.op, body |-> msg.body]
  /\ \E w : /\ Meant(msg.op, w, sent) /\ Arrived(msg.body, w)
            /\ ~cut => Len(msg.body) = Len(w)

BodyInv ==
  /\ pc \in {"kernel", "sent", "done"} /\ cut \in BOOLEAN
  /\ pc = "kernel" => ~cut
  /\ pc = "sent" => Underway
  /\ pc = "done" => BodiesUnderstood /\ CompleteForgetsCount

LEMMA BeforeIs ==
  /\ DOMAIN Before = {"Mkdir", "Mknod", "Create", "Getxattr"}
  /\ \A op \in DOMAIN Before : SizeOf[Before[op]] \in Nat
BY DEF Before, SizeOf

LEMMA WholeArrived ==
  ASSUME NEW w \in Seq(Cell)
  PROVE  Arrived(w, w)
BY DEF Arrived

LEMMA ComposeMeant ==
  ASSUME BodyInv, NEW op, NEW w \in Seq(Cell), NEW m, Meant(op, w, m), Compose(op, w, m)
  PROVE  BodyInv'
<1>1. ~cut /\ cut \in BOOLEAN
  BY DEF BodyInv, Compose
<1>2. /\ pc' = "sent" /\ msg' = [op |-> op, body |-> w] /\ msg'.op = op /\ msg'.body = w
      /\ sent' = m /\ cut' = cut
  BY DEF Compose
<1>3. Underway'
  BY <1>1, <1>2, WholeArrived DEF Underway
<1> QED
  BY <1>1, <1>2, <1>3 DEF BodyInv

LEMMA ComposeSteps ==
  ASSUME BodyInv,
         KernelBare \/ KernelNamed \/ KernelRename \/ KernelWrite \/ KernelBatch
  PROVE  BodyInv'
<1>1. ASSUME NEW s \in Names
      PROVE  Terminated(s) \in Seq(Cell)
  BY BodiesAssumption, CharsIs
<1>2. CASE KernelBare
  <2>1. PICK op \in Bare, s \in Names :
          Compose(op, Terminated(s), [Nothing EXCEPT !.names = <<Chars(s)>>])
    BY <1>2 DEF KernelBare
  <2>2. Meant(op, Terminated(s), [Nothing EXCEPT !.names = <<Chars(s)>>])
    BY Zenon DEF Meant
  <2> QED
    BY <1>1, <2>1, <2>2, ComposeMeant
<1>3. CASE KernelNamed
  <2>1. PICK op \in DOMAIN Before, s \in Names :
          Compose(op, Struct(SizeOf[Before[op]], 1) \o Terminated(s),
                  [Nothing EXCEPT !.names = <<Chars(s)>>])
    BY <1>3 DEF KernelNamed
  <2> DEFINE w == Struct(SizeOf[Before[op]], 1) \o Terminated(s)
             m == [Nothing EXCEPT !.names = <<Chars(s)>>]
  <2>2. w \in Seq(Cell)
    <3>1. SizeOf[Before[op]] \in Nat /\ 1 \in Int
      BY BeforeIs
    <3>2. Struct(SizeOf[Before[op]], 1) \in Seq(Cell)
      BY <3>1, StructIs, Zenon
    <3> QED
      BY <1>1, <3>2, ConcatIs, Zenon
  <2>3. Meant(op, w, m)
    BY Zenon DEF Meant
  <2> QED
    BY <2>1, <2>2, <2>3, ComposeMeant, Zenon
<1>4. CASE KernelRename
  <2>1. PICK s \in Names, t \in Names :
          Compose("Rename2", Struct(16, 1) \o Terminated(s) \o Terminated(t),
                  [Nothing EXCEPT !.names = <<Chars(s), Chars(t)>>])
    BY <1>4 DEF KernelRename, SizeOf
  <2> DEFINE w == Struct(16, 1) \o Terminated(s) \o Terminated(t)
             m == [Nothing EXCEPT !.names = <<Chars(s), Chars(t)>>]
  <2>2. w \in Seq(Cell)
    <3>1. 16 \in Nat /\ 1 \in Int
      OBVIOUS
    <3>2. Struct(16, 1) \in Seq(Cell)
      BY <3>1, StructIs, Zenon
    <3> QED
      BY <1>1, <3>2, ConcatIs, Zenon
  <2>3. Meant("Rename2", w, m)
    BY Zenon DEF Meant
  <2> QED
    BY <2>1, <2>2, <2>3, ComposeMeant, Zenon
<1>5. CASE KernelWrite
  <2>1. PICK n \in 0 .. MaxData :
          Compose("Write", Struct(40, n) \o [i \in 1 .. n |-> Byte(i)],
                  [Nothing EXCEPT !.data = [i \in 1 .. n |-> Byte(i)]])
    BY <1>5 DEF KernelWrite, SizeOf
  <2> DEFINE u == Struct(40, n)
             data == [i \in 1 .. n |-> Byte(i)]
             m == [Nothing EXCEPT !.data = data]
  <2>2. n \in Nat /\ n \in Int /\ 40 \in Nat /\ 40 >= 1
    BY BodiesAssumption
  <2>3. u \in Seq(Cell) /\ Len(u) = 40 /\ u[1] = [k |-> "field", v |-> n]
    BY <2>2, StructIs, ZenonT(40)
  <2>4. data \in [1 .. n -> Cell]
    BY DEF Byte, Cell
  <2>5. data \in Seq(Cell) /\ Len(data) = n
    BY <2>2, <2>4, FunctionIsSequence, Zenon
  <2>6. Compose("Write", u \o data, m)
    BY <2>1
  <2> HIDE DEF u, data, m
  <2>7. Meant("Write", u \o data, m)
    BY <2>2, <2>3, <2>5, Zenon DEF Meant, m
  <2>8. u \o data \in Seq(Cell)
    BY <2>3, <2>5, ConcatIs
  <2> QED
    BY <2>6, <2>7, <2>8, ComposeMeant, Zenon
<1>6. CASE KernelBatch
  <2>1. PICK n \in 0 .. MaxForgets :
          Compose("BatchForget", BatchBody(n),
                  [Nothing EXCEPT !.ids = [i \in 1 .. n |-> 10 + i]])
    BY <1>6 DEF KernelBatch
  <2>2. n \in Nat
    BY BodiesAssumption
  <2>3. BatchBody(n) \in Seq(Cell)
    BY <2>2, BatchBodyIs
  <2>4. Meant("BatchForget", BatchBody(n), [Nothing EXCEPT !.ids = [i \in 1 .. n |-> 10 + i]])
    BY <2>2, Zenon DEF Meant
  <2> QED
    BY <2>1, <2>3, <2>4, ComposeMeant, Zenon
<1> QED
  BY <1>2, <1>3, <1>4, <1>5, <1>6

LEMMA CutStep ==
  ASSUME BodyInv, Cut
  PROVE  BodyInv'
<1>1. /\ pc = "sent" /\ pc' = "sent" /\ cut' = TRUE /\ sent' = sent
      /\ Underway
  BY DEF BodyInv, Cut
<1>2. PICK n \in 0 .. Len(msg.body) - 1 : msg' = [msg EXCEPT !.body = SubSeq(@, 1, n)]
  BY DEF Cut
<1>3. PICK w : Meant(msg.op, w, sent) /\ Arrived(msg.body, w)
  BY <1>1 DEF Underway
<1>4. /\ msg' = [op |-> msg.op, body |-> SubSeq(msg.body, 1, n)]
      /\ msg'.op = msg.op /\ msg'.body = SubSeq(msg.body, 1, n)
  BY <1>1, <1>2 DEF Underway
<1>5. Arrived(SubSeq(msg.body, 1, n), w)
  BY <1>3, SubSeqIs DEF Arrived
<1>6. Underway'
  BY <1>1, <1>3, <1>4, <1>5 DEF Underway
<1> QED
  BY <1>1, <1>6 DEF BodyInv

(* What an arm of process_request must achieve. *)
LEMMA TakeRight ==
  ASSUME BodyInv, NEW kinds, NEW result, Take(kinds, result),
         NEW w, Right(result, sent, Len(msg.body) = Len(w)),
         ~cut => Len(msg.body) = Len(w),
         msg.op = "BatchForget" /\ ~Short(msg.body, "FuseBatchForgetIn") =>
           ~result.err /\ Len(result.ids) = (Len(msg.body) - 8) \div 16
  PROVE  BodyInv'
<1>1. /\ pc' = "done" /\ got' = result /\ UNCHANGED <<msg, sent, cut>>
      /\ cut \in BOOLEAN
  BY DEF Take, BodyInv
<1>2. WholeIsUnderstood'
  BY <1>1 DEF WholeIsUnderstood, Right
<1>3. CutInventsNothing'
  BY <1>1 DEF CutInventsNothing, Right
<1>4. CompleteForgetsCount'
  BY <1>1 DEF CompleteForgetsCount, SizeOf
<1> QED
  BY <1>1, <1>2, <1>3, <1>4 DEF BodyInv, BodiesUnderstood

LEMMA ProcessSteps ==
  ASSUME BodyInv,
         ProcessBare \/ ProcessNamed \/ ProcessRename \/ ProcessWrite \/ ProcessBatchForget
  PROVE  BodyInv'
<1>1. pc = "sent"
  BY DEF ProcessBare, ProcessNamed, ProcessRename, ProcessWrite, ProcessBatchForget, Take
<1>2. PICK w : /\ Meant(msg.op, w, sent) /\ Arrived(msg.body, w)
               /\ ~cut => Len(msg.body) = Len(w)
  BY <1>1 DEF BodyInv, Underway
<1>3. CASE ProcessBare
  <2>1. msg.op \in {"Lookup", "Unlink", "Rmdir"}
        /\ Take(Bare, [Nothing EXCEPT !.names = <<name_from_bytes(msg.body)>>])
    BY <1>3 DEF ProcessBare, Take, Bare
  <2>2. PICK s \in Names : w = Terminated(s) /\ sent = [Nothing EXCEPT !.names = <<Chars(s)>>]
    BY <1>2, <2>1, BeforeIs DEF Meant
  <2>3. Right([Nothing EXCEPT !.names = <<name_from_bytes(msg.body)>>], sent,
              Len(msg.body) = Len(w))
    BY <1>2, <2>2, OneNameRight, Zenon
  <2>4. msg.op # "BatchForget"
    BY <2>1
  <2> QED
    BY <1>2, <2>1, <2>3, <2>4, TakeRight, Zenon
<1>4. CASE ProcessNamed
  <2>1. msg.op \in {"Mkdir", "Mknod", "Create", "Getxattr"}
        /\ Take(DOMAIN Before, name_after(msg.body, Before[msg.op]))
    BY <1>4, BeforeIs DEF ProcessNamed, Take
  <2>2. PICK s \in Names :
          /\ w = Struct(SizeOf[Before[msg.op]], 1) \o Terminated(s)
          /\ sent = [Nothing EXCEPT !.names = <<Chars(s)>>]
    BY <1>2, <2>1 DEF Meant, Bare
  <2>3. SizeOf[Before[msg.op]] \in Nat
    BY <2>1, BeforeIs
  <2>4. Right(name_after(msg.body, Before[msg.op]), sent, Len(msg.body) = Len(w))
    BY <1>2, <2>2, <2>3, NamedRight, Zenon
  <2>5. msg.op # "BatchForget"
    BY <2>1
  <2> QED
    BY <1>2, <2>1, <2>4, <2>5, TakeRight, Zenon
<1>5. CASE ProcessRename
  <2>1. msg.op = "Rename2" /\ Take({"Rename2"}, two_names_after(msg.body, "FuseRename2In"))
    BY <1>5 DEF ProcessRename, Take
  <2>2. PICK s \in Names, t \in Names :
          /\ w = Struct(16, 1) \o Terminated(s) \o Terminated(t)
          /\ sent = [Nothing EXCEPT !.names = <<Chars(s), Chars(t)>>]
    BY <1>2, <2>1, BeforeIs DEF Meant, Bare
  <2>3. Right(two_names_after(msg.body, "FuseRename2In"), sent, Len(msg.body) = Len(w))
    BY <1>2, <2>2, RenameRight, Zenon
  <2>4. msg.op # "BatchForget"
    BY <2>1
  <2> QED
    BY <1>2, <2>1, <2>3, <2>4, TakeRight, Zenon
<1>6. CASE ProcessWrite
  <2> DEFINE result == IF Short(msg.body, "FuseWriteIn") THEN Error
                       ELSE WriteData(msg.body, FuseInHeader + Len(msg.body))
  <2>1. msg.op = "Write" /\ Take({"Write"}, result)
    BY <1>6 DEF ProcessWrite, Take
  <2>2. PICK n \in Nat, u \in Seq(Cell), data \in Seq(Cell) :
          /\ w = u \o data
          /\ Len(u) = 40 /\ u[1] = [k |-> "field", v |-> n] /\ Len(data) = n
          /\ sent = [Nothing EXCEPT !.data = data]
    <3>1. /\ msg.op \notin Bare /\ msg.op \notin DOMAIN Before
          /\ msg.op # "Rename2" /\ msg.op # "BatchForget"
      BY <2>1, BeforeIs DEF Bare
    <3> QED
      BY <1>2, <3>1, ZenonT(40) DEF Meant
  <2>3. Right(result, sent, Len(msg.body) = Len(w))
    BY <1>2, <2>2, WriteRight, Zenon
  <2>4. msg.op # "BatchForget"
    BY <2>1
  <2> QED
    BY <1>2, <2>1, <2>3, <2>4, TakeRight, Zenon
<1>7. CASE ProcessBatchForget
  <2>1. msg.op = "BatchForget" /\ Take({"BatchForget"}, BatchResult(msg.body))
    BY <1>7 DEF ProcessBatchForget, Take, BatchResult
  <2>2. PICK n \in Nat :
          /\ w = BatchBody(n)
          /\ sent = [Nothing EXCEPT !.ids = [i \in 1 .. n |-> 10 + i]]
    BY <1>2, <2>1, BeforeIs DEF Meant, Bare
  <2>3. /\ Right(BatchResult(msg.body), sent, Len(msg.body) = Len(w))
        /\ ~Short(msg.body, "FuseBatchForgetIn") =>
             /\ ~BatchResult(msg.body).err
             /\ Len(BatchResult(msg.body).ids) = (Len(msg.body) - 8) \div 16
    BY <1>2, <2>2, BatchRight, Zenon
  <2> QED
    BY <1>2, <2>1, <2>3, TakeRight, Zenon
<1> QED
  BY <1>3, <1>4, <1>5, <1>6, <1>7

(* All of process_request, the negotiation and the stream keep BodyInv. *)
THEOREM BodyInvariant == Spec => []BodyInv
<1>1. Init => BodyInv
  BY DEF Init, BodyInv
<1>2. BodyInv /\ [Next]_vars => BodyInv'
  <2> SUFFICES ASSUME BodyInv, [Next]_vars PROVE BodyInv'
    OBVIOUS
  <2>1. CASE UNCHANGED bodyVars
    <3>1. UNCHANGED <<pc, msg, sent, cut, got>>
      BY <2>1 DEF bodyVars
    <3>2. (Underway <=> Underway') /\ (BodiesUnderstood <=> BodiesUnderstood')
          /\ (CompleteForgetsCount <=> CompleteForgetsCount')
      BY <3>1 DEF Underway, BodiesUnderstood, WholeIsUnderstood, CutInventsNothing,
                  CompleteForgetsCount
    <3> QED
      BY <3>1, <3>2 DEF BodyInv
  <2>2. CASE NextMessage
    BY <2>2 DEF NextMessage, BodyInv
  <2>3. CASE KernelBare \/ KernelNamed \/ KernelRename \/ KernelWrite \/ KernelBatch
    BY <2>3, ComposeSteps
  <2>4. CASE ProcessBare \/ ProcessNamed \/ ProcessRename \/ ProcessWrite \/ ProcessBatchForget
    BY <2>4, ProcessSteps
  <2> QED
    BY <2>1, <2>2, <2>3, <2>4, CutStep
       DEF Next, vars, Negotiate, SendWrite, SendReaddir, ReadIt
<1> QED
  BY <1>1, <1>2, PTL DEF Spec

(***************************************************************************)
(* What process_request reads out of a body is what the kernel put into    *)
(* it, for names, data and batches of any length, and out of a body that   *)
(* was cut anywhere it reads a beginning of that or refuses it.            *)
(***************************************************************************)
THEOREM EveryBodyUnderstood == Spec => []BodiesUnderstood
<1>1. BodyInv => BodiesUnderstood
  BY DEF BodyInv, BodiesUnderstood, WholeIsUnderstood, CutInventsNothing
<1> QED
  BY <1>1, BodyInvariant, PTL

(***************************************************************************)
(* The loop over a BATCH_FORGET takes exactly the complete entries of what *)
(* arrived, for any number of entries and wherever the message was cut.    *)
(***************************************************************************)
THEOREM EveryForgetCounts == Spec => []CompleteForgetsCount
<1>1. BodyInv => CompleteForgetsCount
  BY DEF BodyInv, CompleteForgetsCount
<1> QED
  BY <1>1, BodyInvariant, PTL
=============================================================================
