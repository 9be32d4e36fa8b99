---------------------------- MODULE MCFuseSession ----------------------------
(* Small instances of FuseSession for TLC. *)
EXTENDS FuseSession, TLC

CONSTANTS u1, u2, u3

Message(o, s) == [op |-> o, shape |-> s, n |-> 0]

Batch(k) == [op |-> "BatchForget", shape |-> "ok", n |-> k]

(* The traffic whose order matters. *)
CoreWire ==
    {Message("Init", "ok"), Message("Write", "ok"), Message("Lookup", "ok"),
     Message("Destroy", "ok"), Message("Create", "cut"), Batch(2)}

CorePrograms == {{"enable_write"}, {"enable_write", "enable_create"}}

(* Every opcode, bodies cut short, and malformed headers. *)
AllWire ==
    {Message(o, "ok") : o \in (Opcode \ {"BatchForget"}) \cup {"Rename", "Other"}}
    \cup {Message(o, "cut") : o \in {"Init", "Lookup", "Forget", "BatchForget",
                                    "Rename2", "Create", "Readdir"}}
    \cup {Message("Init", "major"), Message("Read", "short"),
          Message("Read", "badlen"), Message("Getxattr", "size0"),
          Message("Listxattr", "size0"), Batch(0), Batch(2)}

(* A program that enables everything, and one that enables little more     *)
(* than the defaults.                                                      *)
AllPrograms == {DOMAIN Enables, {"enable_create"}}

(* The first message may be any of them, before or after a second one that *)
(* initializes the session or writes.                                      *)
SecondIsCommon == msg[u2] \in {NoMessage, Message("Init", "ok"), Message("Write", "ok")}

Symmetry == Permutations(Unique)
=============================================================================
