---------------------------- MODULE Negotiation ----------------------------
(***************************************************************************)
(* FUSE_INIT: the kernel offers a protocol version and capabilities, the   *)
(* session answers (negotiate_init), and from then on the size and the     *)
(* kind of the kernel's messages follow from the answer.  The session      *)
(* reads all of them into one buffer of READ_BUF_SIZE bytes.               *)
(*                                                                         *)
(* How the kernel (external) uses the answer: it refuses every read with a *)
(* buffer smaller than it may need; it writes at most max_write bytes and  *)
(* at most max_pages pages at a time (32 pages without MAX_PAGES, one page *)
(* without BIG_WRITES); it sends READDIRPLUS only where that was agreed.   *)
(*                                                                         *)
(* WireFormat adds the bodies of the messages to these steps.              *)
(***************************************************************************)
EXTENDS Integers

CONSTANTS
  PageSizes,  \* the page sizes of the machines, or 0 when sysconf fails
  Minors,     \* minor protocol versions of kernels
  Offers      \* the sets of capabilities that kernels offer

FUSE_KERNEL_MINOR_VERSION == 31
FUSE_MIN_READ_BUFFER      == 8192
MAX_WRITE                 == 256 * 1024

(* Mutant of READ_BUF_SIZE: no room for the headers. *)
NoRoomForHeaders == MAX_WRITE

READ_BUF_SIZE == MAX_WRITE + 4096

(* sizeof(fuse_in_header) + sizeof(fuse_write_in) *)
WriteHeaders == 40 + 40

InitFlags ==
  {"ASYNC_READ", "ATOMIC_O_TRUNC", "BIG_WRITES", "DO_READDIRPLUS", "READDIRPLUS_AUTO",
   "NO_OPEN_SUPPORT", "MAX_PAGES", "NO_OPENDIR_SUPPORT"}

ASSUME OffersAssumption ==
  /\ PageSizes \subseteq Nat
  /\ Minors \subseteq Nat
  /\ Offers \subseteq SUBSET InitFlags

(* Linux has pages of 4 KiB and more, in powers of two; the largest, of    *)
(* 256 KiB, is as long as a write.                                         *)
ASSUME PagesAssumption ==
  \A p \in PageSizes \ {0} : p >= 4096 /\ MAX_WRITE % p = 0

VARIABLES
  offer,    \* the kernel's FuseInitIn: [minor, flags]
  page,     \* the page size
  ops,      \* the enabled operations that negotiate_init looks at
  answer,   \* the FuseInitOut, once sent
  message   \* the message the kernel has sent since: [op, len]

negotiationVars == <<offer, page, ops, answer, message>>

NoAnswer  == [minor |-> 0, flags |-> {}, max_write |-> 0, max_pages |-> 0]
NoMessage == [op |-> "none", len |-> 0]

Least(a, b) == IF a < b THEN a ELSE b
Most(a, b)  == IF a > b THEN a ELSE b

NegotiationInit ==
  /\ offer \in [minor : Minors, flags : Offers]
  /\ page \in PageSizes
  /\ ops \in SUBSET {"readdirplus", "open"}
  /\ answer = NoAnswer
  /\ message = NoMessage

-----------------------------------------------------------------------------
(* The flags the session wants.  MAX_PAGES only goes with a page size. *)
Wanted ==
  {"ASYNC_READ", "BIG_WRITES", "ATOMIC_O_TRUNC", "NO_OPENDIR_SUPPORT"}
    \cup (IF "readdirplus" \in ops THEN {"DO_READDIRPLUS", "READDIRPLUS_AUTO"} ELSE {})
    \cup (IF "open" \notin ops THEN {"NO_OPEN_SUPPORT"} ELSE {})
    \cup (IF page > 0 THEN {"MAX_PAGES"} ELSE {})

(* (MAX_WRITE / page_size) as u16 *)
MaxPages ==
  IF "MAX_PAGES" \in offer.flags /\ page > 0 THEN (MAX_WRITE \div page) % 65536 ELSE 0

Accepted == Wanted \cap offer.flags

negotiate_init ==
  /\ answer = NoAnswer
  /\ answer' = [minor |-> Least(offer.minor, FUSE_KERNEL_MINOR_VERSION),
                flags |-> Accepted, max_write |-> MAX_WRITE, max_pages |-> MaxPages]
  /\ UNCHANGED <<offer, page, ops, message>>

-----------------------------------------------------------------------------
(* The kernel's messages. *)
KernelPage == IF page > 0 THEN page ELSE 4096

MaxWrite ==
  LET pages == IF "MAX_PAGES" \in answer.flags THEN Most(answer.max_pages, 1) ELSE 32
  IN  IF "BIG_WRITES" \in answer.flags
        THEN Least(answer.max_write, pages * KernelPage)
        ELSE Least(answer.max_write, KernelPage)

(* The session is initialized and no message of this module is under way. *)
Quiet == answer # NoAnswer /\ message = NoMessage

KernelFullWrite ==
  /\ Quiet
  /\ \E n \in {1, KernelPage, MaxWrite} :
       /\ n <= MaxWrite
       /\ message' = [op |-> "Write", len |-> WriteHeaders + n]
  /\ UNCHANGED <<offer, page, ops, answer>>

KernelReaddir ==
  /\ Quiet
  /\ \E plus \in BOOLEAN :
       /\ plus => "DO_READDIRPLUS" \in answer.flags
       /\ ~plus => "DO_READDIRPLUS" \notin answer.flags \/ "READDIRPLUS_AUTO" \in answer.flags
       /\ message' = [op |-> IF plus THEN "Readdirplus" ELSE "Readdir", len |-> 40 + 40]
  /\ UNCHANGED <<offer, page, ops, answer>>

(* poll_next reads it. *)
ReadMessage ==
  /\ message # NoMessage
  /\ message' = NoMessage
  /\ UNCHANGED <<offer, page, ops, answer>>

-----------------------------------------------------------------------------
(* One buffer is enough: the kernel accepts it for reading, and no message *)
(* it may send after this negotiation is longer, whatever the page size    *)
(* and whichever capabilities were agreed.  (const READ_BUF_SIZE)          *)
MessagesFit ==
  /\ message.len <= READ_BUF_SIZE
  /\ answer # NoAnswer =>
       READ_BUF_SIZE >= Most(FUSE_MIN_READ_BUFFER, WriteHeaders + answer.max_write)

(* The full write size can be used when the kernel allows large requests:  *)
(* max_pages pages hold max_write bytes exactly.                           *)
WritesAreFull ==
  {"MAX_PAGES", "BIG_WRITES"} \subseteq answer.flags => MaxWrite = MAX_WRITE

(* The kernel never sends a READDIRPLUS that process_request would refuse  *)
(* because the operation is not enabled.                                   *)
ReaddirPlusIsServed ==
  message.op = "Readdirplus" => "readdirplus" \in ops

(* What was agreed can be kept: every message fits, large writes are used, *)
(* and what is sent is served.                                             *)
AgreementIsKept == MessagesFit /\ WritesAreFull /\ ReaddirPlusIsServed
=============================================================================
