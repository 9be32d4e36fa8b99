----------------------------- MODULE WireFormat -----------------------------
(***************************************************************************)
(* The messages after the negotiation that carry something of variable     *)
(* length: the kernel encodes names, forget entries or data behind a fixed *)
(* structure, process_request (session.rs) takes them apart with read_body *)
(* and the name helpers of protocol.rs.  A body may also arrive cut short, *)
(* which the code checks for in several places and must survive.           *)
(*                                                                         *)
(* A body is a sequence of cells, one per byte, with the real sizes.  The  *)
(* first cell of a structure carries the value of the field that matters   *)
(* and the others are "rest"; bytes of names and data are "byte" cells.    *)
(***************************************************************************)
EXTENDS Negotiation, Sequences, SequencesExt

CONSTANTS
  Names,       \* the names used, as sequences of non-zero bytes
  MaxForgets,  \* bound on the entries of a BATCH_FORGET
  MaxData      \* bound on the bytes of a WRITE

ASSUME BodiesAssumption ==
  /\ Names \subseteq Seq(1 .. 255)
  /\ MaxForgets \in Nat /\ MaxData \in Nat

FuseInHeader == 40
SizeOf ==
  [FuseMkdirIn |-> 8, FuseMknodIn |-> 16, FuseCreateIn |-> 16, FuseGetxattrIn |-> 8,
   FuseRename2In |-> 16, FuseWriteIn |-> 40, FuseBatchForgetIn |-> 8, FuseForgetOne |-> 16]

(* The structure in front of the name, for the requests that have one name. *)
Before == [Mkdir |-> "FuseMkdirIn", Mknod |-> "FuseMknodIn", Create |-> "FuseCreateIn",
           Getxattr |-> "FuseGetxattrIn"]
Bare   == {"Lookup", "Unlink", "Rmdir"}

VARIABLES
  pc,    \* "kernel" composes, "sent" is to be processed, "done"
  msg,   \* [op, body]
  sent,  \* what the kernel meant: the names, or the ids and data
  cut,   \* the body arrived cut short
  got    \* what process_request made of it

bodyVars == <<pc, msg, sent, cut, got>>
vars == <<bodyVars, negotiationVars>>

-----------------------------------------------------------------------------
(* The kernel's side. *)
Byte(b)       == [k |-> "byte", v |-> b]
Struct(n, v)  == [i \in 1 .. n |-> [k |-> IF i = 1 THEN "field" ELSE "rest",
                                    v |-> IF i = 1 THEN v ELSE 0]]
Chars(s)      == [i \in 1 .. Len(s) |-> Byte(s[i])]
Terminated(s) == Append(Chars(s), Byte(0))

Nothing == [names |-> << >>, ids |-> << >>, data |-> << >>, err |-> FALSE]
Error   == [Nothing EXCEPT !.err = TRUE]

Compose(op, body, meant) ==
  /\ Quiet
  /\ pc = "kernel" /\ pc' = "sent"
  /\ msg' = [op |-> op, body |-> body]
  /\ sent' = meant
  /\ UNCHANGED <<cut, got, negotiationVars>>

KernelBare ==
  \E op \in Bare, s \in Names :
    Compose(op, Terminated(s), [Nothing EXCEPT !.names = <<Chars(s)>>])

KernelNamed ==
  \E op \in DOMAIN Before, s \in Names :
    Compose(op, Struct(SizeOf[Before[op]], 1) \o Terminated(s),
            [Nothing EXCEPT !.names = <<Chars(s)>>])

KernelRename ==
  \E s, t \in Names :
    Compose("Rename2", Struct(SizeOf.FuseRename2In, 1) \o Terminated(s) \o Terminated(t),
            [Nothing EXCEPT !.names = <<Chars(s), Chars(t)>>])

KernelWrite ==
  \E n \in 0 .. MaxData :
    LET data == [i \in 1 .. n |-> Byte(i)]
    IN  Compose("Write", Struct(SizeOf.FuseWriteIn, n) \o data, [Nothing EXCEPT !.data = data])

(* n entries behind their count; 10 + e is the id in entry e, from 1 on.   *)
BatchBody(n) ==
  Struct(SizeOf.FuseBatchForgetIn, n) \o
  [i \in 1 .. n * SizeOf.FuseForgetOne |->
     Struct(SizeOf.FuseForgetOne, 11 + ((i - 1) \div SizeOf.FuseForgetOne))
       [1 + ((i - 1) % SizeOf.FuseForgetOne)]]

KernelBatch ==
  \E n \in 0 .. MaxForgets :
    Compose("BatchForget", BatchBody(n), [Nothing EXCEPT !.ids = [i \in 1 .. n |-> 10 + i]])

(* The end of the message is missing.  (header.len agrees with what was    *)
(* read, so the test in front of all this does not notice.)                *)
Cut ==
  /\ pc = "sent" /\ ~cut
  /\ \E n \in 0 .. Len(msg.body) - 1 : msg' = [msg EXCEPT !.body = SubSeq(@, 1, n)]
  /\ cut' = TRUE
  /\ UNCHANGED <<pc, sent, got, negotiationVars>>

-----------------------------------------------------------------------------
(* The helpers of protocol.rs and session.rs. *)
IsNul(c) == c.k = "byte" /\ c.v = 0

(* The field of the structure at the beginning, if all of it is there. *)
Short(body, t)     == Len(body) < SizeOf[t]
read_body(body)    == IF body[1].k = "field" THEN body[1].v ELSE 0
After(body, t)     == SubSeq(body, SizeOf[t] + 1, Len(body))
FirstNul(s)        == SelectInSeq(s, IsNul)

name_from_bytes(s) == IF FirstNul(s) = 0 THEN s ELSE SubSeq(s, 1, FirstNul(s) - 1)

name_after(body, t) ==
  IF Short(body, t) THEN Error
  ELSE [Nothing EXCEPT !.names = <<name_from_bytes(After(body, t))>>]

two_names_after(body, t) ==
  IF Short(body, t) THEN Error
  ELSE LET rest == After(body, t)
           nul  == FirstNul(rest)
       IN  IF nul = 0 THEN Error
           ELSE [Nothing EXCEPT !.names =
                   <<SubSeq(rest, 1, nul - 1),
                     name_from_bytes(SubSeq(rest, nul + 1, Len(rest)))>>]

-----------------------------------------------------------------------------
(* The arms of process_request. *)
Take(kinds, result) ==
  /\ pc = "sent" /\ msg.op \in kinds
  /\ pc' = "done"
  /\ got' = result
  /\ UNCHANGED <<msg, sent, cut, negotiationVars>>

ProcessBare == Take(Bare, [Nothing EXCEPT !.names = <<name_from_bytes(msg.body)>>])

ProcessNamed == Take(DOMAIN Before, name_after(msg.body, Before[msg.op]))

ProcessRename == Take({"Rename2"}, two_names_after(msg.body, "FuseRename2In"))

(* Mutant of WriteData: the claimed size is believed.                      *)
WriteDataTrusting(body, nbytes) ==
  LET offset == FuseInHeader + SizeOf.FuseWriteIn
      end    == offset + read_body(body)
  IN  [Nothing EXCEPT !.data =
         [i \in 1 .. end - offset |->
            IF offset - FuseInHeader + i <= Len(body)
              THEN body[offset - FuseInHeader + i] ELSE Byte(0)]]

(* data_offset and data_end are offsets in the read buffer, which begins   *)
(* with the header; behind nbytes it holds an older message.               *)
WriteData(body, nbytes) ==
  LET offset == FuseInHeader + SizeOf.FuseWriteIn
      end    == offset + read_body(body)
  IN  IF end > nbytes THEN Error
      ELSE [Nothing EXCEPT !.data = SubSeq(body, offset - FuseInHeader + 1, end - FuseInHeader)]

ProcessWrite ==
  Take({"Write"}, IF Short(msg.body, "FuseWriteIn") THEN Error
                  ELSE WriteData(msg.body, FuseInHeader + Len(msg.body)))

(* Mutant of Complete: the bound is tested at the beginning of the entry.  *)
CompleteStarted(body, i) ==
  SizeOf.FuseBatchForgetIn + i * SizeOf.FuseForgetOne < Len(body)

(* Entry i (from 0) lies within the body. *)
Complete(body, i) ==
  SizeOf.FuseBatchForgetIn + i * SizeOf.FuseForgetOne + SizeOf.FuseForgetOne <= Len(body)

(* The loop over batch_in.count entries, up to the first incomplete one.   *)
Forgets(body) ==
  LET count == read_body(body)
      n     == CHOOSE m \in 0 .. count :
                 /\ \A i \in 0 .. m - 1 : Complete(body, i)
                 /\ m < count => ~Complete(body, m)
      At(i) == read_body(SubSeq(body, SizeOf.FuseBatchForgetIn + i * SizeOf.FuseForgetOne + 1,
                                Len(body)))
      Read(i) == SizeOf.FuseForgetOne <=
                   Len(body) - SizeOf.FuseBatchForgetIn - i * SizeOf.FuseForgetOne
  IN  IF \E i \in 0 .. n - 1 : ~Read(i)
        THEN Error
        ELSE [Nothing EXCEPT !.ids = [i \in 1 .. n |-> At(i - 1)]]

ProcessBatchForget ==
  Take({"BatchForget"}, IF Short(msg.body, "FuseBatchForgetIn") THEN Error ELSE Forgets(msg.body))

(* The next message. *)
NextMessage ==
  /\ pc = "done" /\ pc' = "kernel"
  /\ msg' = [op |-> "none", body |-> << >>]
  /\ sent' = Nothing /\ got' = Nothing /\ cut' = FALSE
  /\ UNCHANGED negotiationVars

Init ==
  /\ NegotiationInit
  /\ pc = "kernel" /\ msg = [op |-> "none", body |-> << >>]
  /\ sent = Nothing /\ got = Nothing /\ cut = FALSE

(* The steps of Negotiation, between two messages with a body. *)
Negotiate == pc = "kernel" /\ negotiate_init /\ UNCHANGED bodyVars
SendWrite == pc = "kernel" /\ KernelFullWrite /\ UNCHANGED bodyVars
SendReaddir == pc = "kernel" /\ KernelReaddir /\ UNCHANGED bodyVars
ReadIt == pc = "kernel" /\ ReadMessage /\ UNCHANGED bodyVars

Next ==
  \/ Negotiate \/ SendWrite \/ SendReaddir \/ ReadIt
  \/ KernelBare \/ KernelNamed \/ KernelRename \/ KernelWrite \/ KernelBatch \/ Cut
  \/ ProcessBare \/ ProcessNamed \/ ProcessRename \/ ProcessWrite \/ ProcessBatchForget
  \/ NextMessage

Spec == Init /\ [][Next]_vars

-----------------------------------------------------------------------------
(* A whole message is understood as it was meant: the same names in the    *)
(* same order, the same forget entries, the same data.                     *)
WholeIsUnderstood == pc = "done" /\ ~cut => got = sent

(* What is read out of a message that was cut short was in it: it is       *)
(* refused, or names are beginnings of the names that were sent, as many   *)
(* of them, and forget entries are the first ones that were sent.  Data is *)
(* never taken from a WRITE that lacks some, which would be bytes of an    *)
(* older message in the same buffer.                                       *)
CutInventsNothing ==
  pc = "done" /\ cut =>
    \/ got.err
    \/ /\ Len(got.names) = Len(sent.names)
       /\ \A i \in DOMAIN got.names : IsPrefix(got.names[i], sent.names[i])
       /\ IsPrefix(got.ids, sent.ids)
       /\ got.data = sent.data

(* What process_request reads out of a body was put into it. *)
BodiesUnderstood == WholeIsUnderstood /\ CutInventsNothing

(* A BATCH_FORGET with a broken end still counts for its complete entries: *)
(* none of them is lost and the stream does not fail on them.  (No forget  *)
(* is ever answered, so the kernel would not send it again.)               *)
CompleteForgetsCount ==
  pc = "done" /\ msg.op = "BatchForget" /\ ~Short(msg.body, "FuseBatchForgetIn") =>
    ~got.err /\ Len(got.ids) = (Len(msg.body) - SizeOf.FuseBatchForgetIn) \div SizeOf.FuseForgetOne
=============================================================================
