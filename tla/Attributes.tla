----------------------------- MODULE Attributes -----------------------------
(***************************************************************************)
(* The attributes of a file on their way between the kernel and the file   *)
(* system: a SETATTR message is turned into a libc::stat (to_stat), read   *)
(* through the accessors of the Setattr request, applied to the inode by   *)
(* handle_setattr of the tmpfs example, and reported back in the fuse_attr *)
(* of the reply (from_stat) with a time for which the kernel may cache it  *)
(* (split_timeout).  Every one of these steps changes the width or the     *)
(* signedness of a number.                                                 *)
(*                                                                         *)
(* Numbers keep their shape at any width: half of the values of the u64 of *)
(* seconds and sizes, I64Half of them, are negative as i64; the u32 of     *)
(* nanoseconds ends at U32Max, and a second has Nano nanoseconds.  A mode  *)
(* is the set of its bits.                                                 *)
(***************************************************************************)
EXTENDS Integers, FiniteSets

CONSTANTS
  I64Half,     \* 2^63: i64::MAX + 1, and half of u64::MAX + 1
  U32Max,      \* u32::MAX, of nanoseconds
  Nano,        \* nanoseconds in a second
  Values,      \* the contents of the SETATTR messages, the flags aside
  Clock,       \* what the system clock may show, as [secs, nsecs]
  Timeouts,    \* the timeouts a file system gives, in nanoseconds
  MaxFlags,    \* bound on the flags of one SETATTR
  MaxSetattrs  \* bound on the SETATTRs of a run

U64Max == 2 * I64Half - 1

S_IFMT == {"S_IFREG", "S_IFDIR"}

ASSUME WidthAssumption ==
  I64Half \in Nat \ {0} /\ U32Max \in Nat /\ Nano \in 1 .. U32Max
ASSUME InputsAssumption ==
  /\ \A v \in Values :
       /\ v.size \in 0 .. U64Max /\ v.secs \in 0 .. U64Max
       /\ v.atimensec \in 0 .. U32Max /\ v.mtimensec \in 0 .. U32Max
       /\ v.perm \cap S_IFMT = {}
  /\ Clock \subseteq [secs : 0 .. I64Half - 1, nsecs : 0 .. Nano - 1]
  /\ Timeouts \subseteq Int /\ MaxFlags \in Nat /\ MaxSetattrs \in Nat

Flags == {"MODE", "UID", "GID", "SIZE", "ATIME", "MTIME", "ATIME_NOW", "MTIME_NOW", "CTIME"}

VARIABLES
  phase,    \* "idle", "handle" and "set" while a SETATTR is served, "replied"
  req,      \* the SETATTR message: fuse_setattr_in
  stat,     \* the inode's libc::stat
  timeout,  \* the timeout the file system gave with the reply
  reply,    \* the fuse_attr_out on its way to the kernel
  count     \* SETATTRs so far

attrVars == <<phase, req, stat, timeout, reply, count>>

-----------------------------------------------------------------------------
(* The conversions of Rust: `u as i64` wraps, `i as u64` wraps, and a      *)
(* conversion from f64 saturates.                                          *)
AsI64(u) == IF u >= I64Half THEN u - (U64Max + 1) ELSE u
AsU64(i) == i % (U64Max + 1)
AtLeast0(i) == IF i > 0 THEN i ELSE 0
Clamp(i, hi) == IF i > hi THEN hi ELSE AtLeast0(i)

(* Mutant of to_stat: mtime gets the nanoseconds of atime. *)
ToStatMixesUp(m) ==
  [mode |-> m.mode, uid |-> m.uid, gid |-> m.gid, size |-> AsI64(m.size),
   atime |-> AsI64(m.atime), atime_nsec |-> m.atimensec,
   mtime |-> AsI64(m.mtime), mtime_nsec |-> m.atimensec,
   ctime |-> AsI64(m.ctime), ctime_nsec |-> m.ctimensec]

(* FuseSetattrIn::to_stat *)
to_stat(m) ==
  [mode |-> m.mode, uid |-> m.uid, gid |-> m.gid, size |-> AsI64(m.size),
   atime |-> AsI64(m.atime), atime_nsec |-> m.atimensec,
   mtime |-> AsI64(m.mtime), mtime_nsec |-> m.mtimensec,
   ctime |-> AsI64(m.ctime), ctime_nsec |-> m.ctimensec]

(* FuseAttr::from_stat *)
from_stat(s) ==
  [mode |-> s.mode, uid |-> s.uid, gid |-> s.gid, size |-> AsU64(s.size),
   atime |-> AtLeast0(s.atime), atimensec |-> AtLeast0(s.atime_nsec),
   mtime |-> AtLeast0(s.mtime), mtimensec |-> AtLeast0(s.mtime_nsec),
   ctime |-> AtLeast0(s.ctime), ctimensec |-> AtLeast0(s.ctime_nsec)]

(* A timeout counts nanoseconds here; in the code it is an f64 of seconds. *)
split_timeout(t) ==
  IF t >= (U64Max + 1) * Nano
    THEN [secs |-> U64Max, nsecs |-> Nano - 1]
    ELSE LET secs == Clamp(t \div Nano, U64Max)
         IN  [secs |-> secs, nsecs |-> Clamp(t - secs * Nano, U32Max)]

attr_out(s, t) == [valid |-> split_timeout(t), attr |-> from_stat(s)]

duration_from_c(secs, nsecs) ==
  [secs |-> AtLeast0(secs), nsecs |-> Clamp(nsecs, Nano - 1)]

-----------------------------------------------------------------------------
(* The accessors of Setattr that tell more than "the flag is set". *)
None == [secs |-> -1, nsecs |-> 0]
Now  == [secs |-> -2, nsecs |-> 0]

SetTime(flag, flagNow, secs, nsecs) ==
  IF flag \in req.valid THEN duration_from_c(secs, nsecs)
  ELSE IF flagNow \in req.valid THEN Now
  ELSE None

Sent  == to_stat(req)
atime == SetTime("ATIME", "ATIME_NOW", Sent.atime, Sent.atime_nsec)
mtime == SetTime("MTIME", "MTIME_NOW", Sent.mtime, Sent.mtime_nsec)
ctime == SetTime("CTIME", "CTIME", Sent.ctime, Sent.ctime_nsec)

NoMsg   == [valid |-> {}]
NoReply == [valid |-> None]

new_stat(now) ==
  [mode |-> {"S_IFREG"}, uid |-> 0, gid |-> 0, size |-> 0,
   atime |-> now.secs, atime_nsec |-> now.nsecs, mtime |-> now.secs, mtime_nsec |-> now.nsecs,
   ctime |-> now.secs, ctime_nsec |-> now.nsecs]

(* A regular file that do_create has just made. *)
AttributesInit ==
  /\ phase = "idle" /\ count = 0
  /\ \E now \in Clock : stat = new_stat(now)
  /\ req = NoMsg
  /\ timeout = 0 /\ reply = NoReply

(* The kernel's SETATTR, with a mode of the file's own type. *)
Setattr ==
  /\ phase = "idle" /\ count < MaxSetattrs
  /\ \E valid \in SUBSET Flags, v \in Values :
       /\ Cardinality(valid) <= MaxFlags
       /\ req' = [valid |-> valid, mode |-> {"S_IFREG"} \cup v.perm, uid |-> v.id, gid |-> v.id,
                  size |-> v.size, atime |-> v.secs, mtime |-> v.secs, ctime |-> v.secs,
                  atimensec |-> v.atimensec, mtimensec |-> v.mtimensec,
                  ctimensec |-> v.mtimensec]
  /\ phase' = "handle" /\ count' = count + 1
  /\ UNCHANGED <<stat, timeout, reply>>

(* Mutant of Stamp: a time that is not to be set becomes the current one.  *)
StampAlways(time, now, secs, nsecs) == IF time \in {None, Now} THEN now ELSE time

Stamp(time, now, secs, nsecs) == \* a time whose old value is secs and nsecs
  CASE time = None -> [secs |-> secs, nsecs |-> nsecs]
    [] time = Now  -> now
    [] OTHER       -> [time EXCEPT !.secs = AsI64(@)]

(* The clock is read for atime, and for mtime if it was not read already.  *)
MtimeClock(first, second) == IF atime = Now THEN first ELSE second

(* The assignments of handle_setattr. *)
Applied(first, second) ==
  LET a == Stamp(atime, first, stat.atime, stat.atime_nsec)
      m == Stamp(mtime, MtimeClock(first, second), stat.mtime, stat.mtime_nsec)
      c == Stamp(ctime, first, stat.ctime, stat.ctime_nsec)
      Set(flag) == flag \in req.valid
  IN  [mode |-> IF Set("MODE") THEN (stat.mode \cap S_IFMT) \cup Sent.mode ELSE stat.mode,
       uid  |-> IF Set("UID") THEN Sent.uid ELSE stat.uid,
       gid  |-> IF Set("GID") THEN Sent.gid ELSE stat.gid,
       size |-> IF Set("SIZE") THEN AsI64(AsU64(Sent.size)) ELSE stat.size,
       atime |-> a.secs, atime_nsec |-> a.nsecs, mtime |-> m.secs, mtime_nsec |-> m.nsecs,
       ctime |-> c.secs, ctime_nsec |-> c.nsecs]

handle_setattr ==
  /\ phase = "handle"
  /\ \E first, second \in Clock : stat' = Applied(first, second)
  /\ phase' = "set"
  /\ UNCHANGED <<req, timeout, reply, count>>

(* Setattr::reply and Getattr::reply, that is reply_attr. *)
SetattrReply ==
  /\ phase = "set"
  /\ \E t \in Timeouts : timeout' = t /\ reply' = attr_out(stat, t)
  /\ phase' = "replied"
  /\ UNCHANGED <<req, stat, count>>

GetattrReply ==
  /\ phase = "idle"
  /\ \E t \in Timeouts : timeout' = t /\ reply' = attr_out(stat, t)
  /\ phase' = "replied"
  /\ UNCHANGED <<req, stat, count>>

(* The kernel takes the reply. *)
Receive ==
  /\ phase = "replied"
  /\ phase' = "idle" /\ req' = NoMsg /\ timeout' = 0 /\ reply' = NoReply
  /\ UNCHANGED <<stat, count>>

AttributesNext == Setattr \/ handle_setattr \/ SetattrReply \/ GetattrReply \/ Receive

AttributesSpec == AttributesInit /\ [][AttributesNext]_attrVars

-----------------------------------------------------------------------------
(* What became of a time the kernel sent: seconds that are negative as     *)
(* i64 count as zero, nanoseconds stop short of a second.                  *)
Kept(secs, nsecs) ==
  <<IF secs < I64Half THEN secs ELSE 0, IF nsecs < Nano THEN nsecs ELSE Nano - 1>>

(* The reply to a SETATTR reports what the message set: sizes of any       *)
(* width and ids as they were sent, times as they were sent where they can *)
(* be represented, and the clock for the NOW flags.  All four conversions  *)
(* (to_stat, the accessors, handle_setattr, from_stat) have their part.    *)
SetattrIsReported ==
  phase = "replied" =>
    LET a == reply.attr
    IN  /\ "MODE" \in req.valid => a.mode = req.mode
        /\ "UID" \in req.valid => a.uid = req.uid
        /\ "GID" \in req.valid => a.gid = req.gid
        /\ "SIZE" \in req.valid => a.size = req.size
        /\ "ATIME" \in req.valid => <<a.atime, a.atimensec>> = Kept(req.atime, req.atimensec)
        /\ "MTIME" \in req.valid => <<a.mtime, a.mtimensec>> = Kept(req.mtime, req.mtimensec)
        /\ "CTIME" \in req.valid => <<a.ctime, a.ctimensec>> = Kept(req.ctime, req.ctimensec)
        /\ "ATIME_NOW" \in req.valid /\ "ATIME" \notin req.valid =>
             [secs |-> a.atime, nsecs |-> a.atimensec] \in Clock
        /\ "MTIME_NOW" \in req.valid /\ "MTIME" \notin req.valid =>
             [secs |-> a.mtime, nsecs |-> a.mtimensec] \in Clock

(* `touch`: when both times are to be "now" they come out the same,        *)
(* although the clock moves while the request is handled.                  *)
NowIsOneMoment ==
  phase = "replied" /\ {"ATIME_NOW", "MTIME_NOW"} \subseteq req.valid
      /\ {"ATIME", "MTIME"} \cap req.valid = {} =>
    <<reply.attr.atime, reply.attr.atimensec>> = <<reply.attr.mtime, reply.attr.mtimensec>>

(* The time for which the kernel may cache the attributes is the timeout   *)
(* the file system gave, as far as it can be represented, with nanoseconds *)
(* below a second; also for f64::MAX and for negative timeouts.            *)
ValidityIsTimeout ==
  phase = "replied" =>
    /\ reply.valid.nsecs < Nano
    /\ reply.valid.secs * Nano + reply.valid.nsecs = Clamp(timeout, U64Max * Nano + Nano - 1)

(* What the reply to a SETATTR tells the kernel.                           *)
ReplyIsRight == SetattrIsReported /\ NowIsOneMoment /\ ValidityIsTimeout

(* handle_setattr leaves alone what the message does not set, and the type *)
(* of the file in any case.                                                *)
OthersUntouched ==
  [][/\ stat'.mode \cap S_IFMT = stat.mode \cap S_IFMT
     /\ \/ "MODE" \in req.valid \/ stat'.mode = stat.mode
     /\ \/ "UID" \in req.valid \/ stat'.uid = stat.uid
     /\ \/ "GID" \in req.valid \/ stat'.gid = stat.gid
     /\ \/ "SIZE" \in req.valid \/ stat'.size = stat.size
     /\ \/ {"ATIME", "ATIME_NOW"} \cap req.valid # {}
        \/ <<stat'.atime, stat'.atime_nsec>> = <<stat.atime, stat.atime_nsec>>
     /\ \/ {"MTIME", "MTIME_NOW"} \cap req.valid # {}
        \/ <<stat'.mtime, stat'.mtime_nsec>> = <<stat.mtime, stat.mtime_nsec>>
     /\ \/ "CTIME" \in req.valid
        \/ <<stat'.ctime, stat'.ctime_nsec>> = <<stat.ctime, stat.ctime_nsec>>]_stat
=============================================================================
