----------------------------- MODULE XattrList -----------------------------
(***************************************************************************)
(* Listing extended attributes: a caller asks how large the list is        *)
(* (LISTXATTR with size 0, request ListXAttrSize), then for the list with  *)
(* a buffer of that size (request ListXAttr), and begins again when the    *)
(* answer is ERANGE because the attributes have changed in between.        *)
(*                                                                         *)
(* The reply of ListXAttr is put together by its methods: add and          *)
(* add_c_string append one name and its zero, set_raw_reply and reply_raw  *)
(* take a whole list at once.  The file system that calls them is not part *)
(* of the crate; it follows the documentation of `add`: it adds the names  *)
(* one by one, answers fail_full() when one is Full and reply() at the end.*)
(***************************************************************************)
EXTENDS Integers, Sequences, FiniteSets

CONSTANTS
  AttrLen,         \* the length of each attribute name; names are 1 .. Len(AttrLen)
  MaxAttrChanges  \* bound on the changes of the file's attributes in one listing

Attr == DOMAIN AttrLen

ASSUME AttrLenAssumption == AttrLen \in Seq(Nat \ {0})
ASSUME AttrChangesAssumption == MaxAttrChanges \in Nat

VARIABLES
  attrs,     \* the attributes the file has
  changes,   \* how often they changed in this listing
  hint,      \* caller: the size it was told
  caller,    \* caller: what it does
  result,    \* caller: the bytes of the answer
  listed,    \* the attributes the file had when the ListXAttr arrived
  size,      \* the ListXAttr: the caller's buffer size
  response,  \* the ListXAttr: the bytes of the reply so far
  todo       \* file system: the names it has not added yet

requestVars == <<listed, size, response, todo>>
xattrVars == <<attrs, changes, hint, caller, result, requestVars>>

(* The bytes of a name: attribute a is written as AttrLen[a] bytes a.      *)
Bytes(a) == [i \in 1 .. AttrLen[a] |-> a]

(* The names of a set one after the other, each with its zero. *)
Encode(s) ==
  LET upto[a \in 0 .. Len(AttrLen)] ==
        IF a = 0 THEN << >>
        ELSE upto[a - 1] \o (IF a \in s THEN Append(Bytes(a), 0) ELSE << >>)
  IN  upto[Len(AttrLen)]

XattrInit ==
  /\ attrs \in SUBSET Attr
  /\ changes = 0
  /\ hint = 0 /\ caller = "ask" /\ result = << >>
  /\ listed = {} /\ size = 0 /\ response = << >> /\ todo = {}

-----------------------------------------------------------------------------
(* Request ListXAttrSize and its reply. *)
ListXAttrSize ==
  /\ caller = "ask"
  /\ hint' = Len(Encode(attrs))
  /\ caller' = IF hint' = 0 THEN "done" ELSE "sized"
  /\ listed' = attrs
  /\ UNCHANGED <<attrs, changes, result, size, response, todo>>

(* Request ListXAttr with a buffer of the size the caller was told. *)
ListXAttr ==
  /\ caller = "sized"
  /\ caller' = "waits"
  /\ listed' = attrs /\ todo' = attrs
  /\ size' = hint /\ response' = << >>
  /\ UNCHANGED <<attrs, changes, hint, result>>

(* Mutant of check_add: the last byte of the buffer stays unused.          *)
CheckAddStrict(len) == Len(response) + len < size

check_add(len) == Len(response) + len <= size

Answer(bytes) ==
  /\ result' = bytes
  /\ caller' = "done"
  /\ listed' = listed /\ size' = 0 /\ response' = << >> /\ todo' = {}
  /\ UNCHANGED <<attrs, changes, hint>>

(* fail_full(): ERANGE.  The caller asks for the size again. *)
fail_full ==
  /\ caller' = "ask"
  /\ hint' = 0
  /\ listed' = {} /\ size' = 0 /\ response' = << >> /\ todo' = {}
  /\ UNCHANGED <<attrs, changes, result>>

(* Mutant of add: a name that does not fit is left out.                    *)
AddLeavesOut(a) ==
  /\ caller = "waits" /\ a \in todo
  /\ todo' = todo \ {a}
  /\ response' = IF check_add(AttrLen[a] + 1)
                   THEN Append(response \o Bytes(a), 0) ELSE response
  /\ UNCHANGED <<attrs, changes, hint, caller, result, listed, size>>

(* add(name), that is add_bytes_without_zero; a Full is answered with      *)
(* fail_full().                                                            *)
add(a) ==
  /\ caller = "waits" /\ a \in todo
  /\ IF check_add(AttrLen[a] + 1)
       THEN /\ todo' = todo \ {a}
            /\ response' = Append(response \o Bytes(a), 0)
            /\ UNCHANGED <<attrs, changes, hint, caller, result, listed, size>>
       ELSE fail_full

(* add_c_string(name), that is add_bytes_with_zero: the name comes with    *)
(* its zero.                                                               *)
add_c_string(a) ==
  /\ caller = "waits" /\ a \in todo
  /\ LET name == Append(Bytes(a), 0)
     IN  IF check_add(Len(name))
           THEN /\ todo' = todo \ {a}
                /\ response' = response \o name
                /\ UNCHANGED <<attrs, changes, hint, caller, result, listed, size>>
           ELSE fail_full

(* set_raw_reply(data) with the whole list, also after some adds: it takes *)
(* the place of what was added.  Data that is too long comes back as an    *)
(* error.                                                                  *)
set_raw_reply ==
  /\ caller = "waits" /\ todo # {}
  /\ IF Len(Encode(listed)) > size
       THEN fail_full
       ELSE /\ response' = Encode(listed)
            /\ todo' = {}
            /\ UNCHANGED <<attrs, changes, hint, caller, result, listed, size>>

(* reply() *)
reply == caller = "waits" /\ todo = {} /\ Answer(response)

(* reply_raw(data) with the whole list discards what was added. *)
reply_raw ==
  /\ caller = "waits"
  /\ IF Len(Encode(listed)) > size THEN fail_full ELSE Answer(Encode(listed))

FileSystem ==
  \/ reply \/ reply_raw \/ set_raw_reply
  \/ \E a \in Attr : add(a) \/ add_c_string(a)

-----------------------------------------------------------------------------
(* Somebody sets or removes an attribute; and the next listing. *)
Change(a) ==
  /\ changes < MaxAttrChanges
  /\ attrs' = IF a \in attrs THEN attrs \ {a} ELSE attrs \cup {a}
  /\ changes' = changes + 1
  /\ UNCHANGED <<hint, caller, result, requestVars>>

Again ==
  /\ caller = "done"
  /\ caller' = "ask" /\ changes' = 0 /\ hint' = 0 /\ result' = << >> /\ listed' = {}
  /\ UNCHANGED <<attrs, size, response, todo>>

XattrNext ==
  \/ ListXAttrSize \/ ListXAttr \/ FileSystem \/ Again
  \/ \E a \in Attr : Change(a)

XattrSpec == XattrInit /\ [][XattrNext]_xattrVars

(* The file system answers, and the caller goes on until it has the list.  *)
XattrFairSpec == XattrSpec /\ WF_xattrVars(FileSystem) /\ WF_xattrVars(ListXAttrSize \/ ListXAttr)

-----------------------------------------------------------------------------
(* The names a caller finds in an answer: the bytes between the zeroes.    *)
NamesIn(bytes) ==
  LET zeroes == {0} \cup {i \in DOMAIN bytes : bytes[i] = 0}
      Ends(z) == CHOOSE y \in zeroes : y > z /\ \A x \in zeroes : x > z => y <= x
  IN  {SubSeq(bytes, z + 1, Ends(z) - 1) : z \in {x \in zeroes : \E y \in zeroes : y > x}}

(* The caller never gets half a list: what it reads out of an answer are   *)
(* exactly the attributes the file had when the request came in, each of   *)
(* them once, although the size it asked with may be out of date.  And the *)
(* reply never outgrows the buffer the caller announced, whatever mix of   *)
(* add, add_c_string and set_raw_reply put it together.  (The kernel       *)
(* refuses a longer one.)                                                  *)
AnswerIsComplete ==
  /\ Len(response) <= size
  /\ caller = "done" =>
       /\ NamesIn(result) = {Bytes(a) : a \in listed}
       /\ Len(result) = Len(Encode(listed)) /\ Len(result) <= hint

(* A caller that begins again after every ERANGE gets its list, once the   *)
(* attributes stop changing.                                               *)
CallerGetsList == [](caller # "done" => <>(caller = "done"))
=============================================================================
