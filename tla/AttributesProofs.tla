-------------------------- MODULE AttributesProofs --------------------------
(***************************************************************************)
(* Proofs about Attributes, for integers of any width, any clock, any      *)
(* timeouts and any number of SETATTRs.                                    *)
(***************************************************************************)
EXTENDS Attributes, TLAPS

Times == [secs : 0 .. I64Half - 1, nsecs : 0 .. Nano - 1]

-----------------------------------------------------------------------------
(***************************************************************************)
(* The conversions.                                                        *)
(***************************************************************************)

(* A u64 survives `as i64` and `as u64`. *)
LEMMA WrapsBack ==
  ASSUME NEW u \in 0 .. U64Max
  PROVE  AsI64(u) \in Int /\ AsU64(AsI64(u)) = u
<1>1. I64Half \in Nat /\ I64Half > 0
  BY WidthAssumption
<1>2. U64Max + 1 = 2 * I64Half /\ U64Max + 1 \in Nat
  BY <1>1 DEF U64Max
<1>3. u \in Int /\ 0 <= u /\ u < U64Max + 1
  BY <1>1 DEF U64Max
<1>4. CASE u >= I64Half
  <2>1. AsI64(u) = u - (U64Max + 1)
    BY <1>4 DEF AsI64
  <2>2. (u - (U64Max + 1)) % (U64Max + 1) = u
    BY <1>1, <1>2, <1>3
  <2> QED
    BY <1>2, <1>3, <2>1, <2>2 DEF AsU64
<1>5. CASE ~ (u >= I64Half)
  <2>1. AsI64(u) = u
    BY <1>5 DEF AsI64
  <2>2. u % (U64Max + 1) = u
    BY <1>1, <1>2, <1>3
  <2> QED
    BY <1>3, <2>1, <2>2 DEF AsU64
<1> QED
  BY <1>4, <1>5

(* What duration_from_c makes of a time is what Kept says. *)
LEMMA DurationKept ==
  ASSUME NEW secs \in 0 .. U64Max, NEW nsecs \in 0 .. U32Max
  PROVE  LET d == duration_from_c(AsI64(secs), nsecs)
         IN  d \in Times /\ <<d.secs, d.nsecs>> = Kept(secs, nsecs)
<1>1. I64Half \in Nat /\ I64Half > 0 /\ Nano \in Nat /\ Nano > 0
  BY WidthAssumption
<1>2. secs \in Int /\ 0 <= secs /\ secs < 2 * I64Half /\ U64Max + 1 = 2 * I64Half
  BY <1>1 DEF U64Max
<1>3. nsecs \in Int /\ 0 <= nsecs
  BY WidthAssumption
<1>4. AtLeast0(AsI64(secs)) = IF secs < I64Half THEN secs ELSE 0
  BY <1>1, <1>2 DEF AtLeast0, AsI64
<1>5. AtLeast0(AsI64(secs)) \in 0 .. I64Half - 1
  BY <1>1, <1>2, <1>4
<1>6. Clamp(nsecs, Nano - 1) = IF nsecs < Nano THEN nsecs ELSE Nano - 1
  BY <1>1, <1>3 DEF Clamp, AtLeast0
<1>7. Clamp(nsecs, Nano - 1) \in 0 .. Nano - 1
  BY <1>1, <1>3, <1>6
<1> QED
  BY <1>4, <1>5, <1>6, <1>7 DEF duration_from_c, Kept, Times

(* Stamp: a time that is told is taken, Now is the clock, None the old. *)
LEMMA StampTold ==
  ASSUME NEW d \in Times, NEW now, NEW secs, NEW nsecs
  PROVE  Stamp(d, now, secs, nsecs) = d
<1>1. I64Half \in Nat /\ Nano \in Nat
  BY WidthAssumption
<1>2. d.secs \in Int /\ 0 <= d.secs /\ d.secs < I64Half
  BY <1>1 DEF Times
<1>3. d # None /\ d # Now
  BY <1>2 DEF None, Now
<1>4. AsI64(d.secs) = d.secs
  BY <1>1, <1>2 DEF AsI64
<1>5. Stamp(d, now, secs, nsecs) = [d EXCEPT !.secs = AsI64(d.secs)]
  BY <1>3 DEF Stamp
<1> QED
  BY <1>4, <1>5 DEF Times

LEMMA StampNow ==
  ASSUME NEW now, NEW secs, NEW nsecs
  PROVE  Stamp(Now, now, secs, nsecs) = now
BY DEF Stamp, None, Now

LEMMA StampNone ==
  ASSUME NEW now, NEW secs, NEW nsecs
  PROVE  Stamp(None, now, secs, nsecs) = [secs |-> secs, nsecs |-> nsecs]
BY DEF Stamp, None, Now

(* split_timeout is exact within what it can represent, and its            *)
(* nanoseconds are less than a second.                                     *)
LEMMA SplitIsExact ==
  ASSUME NEW t \in Int
  PROVE  LET s == split_timeout(t)
         IN  /\ s.nsecs < Nano
             /\ s.secs * Nano + s.nsecs = Clamp(t, U64Max * Nano + Nano - 1)
<1>1. /\ I64Half \in Nat /\ I64Half > 0 /\ Nano \in Nat /\ Nano > 0
      /\ U32Max \in Nat /\ Nano <= U32Max
  BY WidthAssumption
<1>2. U64Max \in Nat
  BY <1>1 DEF U64Max
<1> DEFINE top == U64Max * Nano
<1>3. top \in Nat /\ (U64Max + 1) * Nano = top + Nano
  BY <1>1, <1>2
<1>4. CASE t >= (U64Max + 1) * Nano
  <2>1. split_timeout(t) = [secs |-> U64Max, nsecs |-> Nano - 1]
    BY <1>4 DEF split_timeout
  <2>2. Clamp(t, top + Nano - 1) = top + Nano - 1
    BY <1>1, <1>3, <1>4 DEF Clamp
  <2>3. top + (Nano - 1) = top + Nano - 1
    BY <1>1, <1>3
  <2> QED
    BY <1>1, <2>1, <2>2, <2>3
<1>5. CASE ~ (t >= (U64Max + 1) * Nano)
  <2> DEFINE q == t \div Nano
             secs == Clamp(q, U64Max)
             nsecs == Clamp(t - secs * Nano, U32Max)
  <2>1. split_timeout(t) = [secs |-> secs, nsecs |-> nsecs]
    BY <1>5 DEF split_timeout
  <2>2. q \in Int /\ q * Nano <= t /\ t < q * Nano + Nano
    BY <1>1
  <2>3. t < top + Nano
    BY <1>1, <1>3, <1>5
  <2>4. CASE t < 0
    <3> HIDE DEF top
    <3>1. q < 0
      BY <1>1, <2>2, <2>4
    <3>2. secs = 0
      <4> HIDE DEF q
      <4> QED  BY <1>2, <2>2, <3>1 DEF Clamp, AtLeast0
    <3>3. t - 0 * Nano = t
      BY <1>1
    <3>4. nsecs = 0
      <4> HIDE DEF secs, q
      <4> QED  BY <1>1, <2>4, <3>2, <3>3 DEF Clamp, AtLeast0
    <3>5. Clamp(t, top + Nano - 1) = 0
      BY <1>1, <1>3, <2>4 DEF Clamp, AtLeast0
    <3>6. 0 * Nano + 0 = 0
      BY <1>1
    <3> HIDE DEF secs, nsecs, q
    <3> QED
      BY <1>1, <2>1, <3>2, <3>4, <3>5, <3>6 DEF top
  <2>5. CASE ~ (t < 0)
    <3>1. q >= 0
      BY <1>1, <2>2, <2>5
    <3>2. q <= U64Max
      <4>1. SUFFICES ASSUME q > U64Max PROVE FALSE
        BY <1>2, <2>2
      <4>2. q >= U64Max + 1
        BY <1>2, <2>2, <4>1
      <4>3. q * Nano >= (U64Max + 1) * Nano
        <5> HIDE DEF q
        <5> QED  BY <1>1, <1>2, <2>2, <4>2
      <4> QED
        BY <1>1, <1>2, <1>5, <2>2, <4>3
    <3>3. secs = q
      <4> HIDE DEF q
      <4> QED  BY <1>2, <2>2, <3>1, <3>2 DEF Clamp, AtLeast0
    <3>4. q * Nano \in Int
      BY <1>1, <2>2
    <3>5. t - q * Nano \in Int /\ 0 <= t - q * Nano /\ t - q * Nano < Nano
      <4> HIDE DEF q
      <4> QED  BY <1>1, <2>2, <3>4
    <3>6. nsecs = t - q * Nano
      <4> HIDE DEF secs, q
      <4> QED  BY <1>1, <3>3, <3>5 DEF Clamp, AtLeast0
    <3>7. Clamp(t, top + Nano - 1) = t
      <4> HIDE DEF top
      <4> QED  BY <1>1, <1>3, <2>3, <2>5 DEF Clamp, AtLeast0
    <3>8. q * Nano + (t - q * Nano) = t
      <4> HIDE DEF q
      <4> QED  BY <3>4
    <3> HIDE DEF secs, nsecs, q
    <3> QED
      BY <2>1, <3>3, <3>5, <3>6, <3>7, <3>8
  <2> QED
    BY <2>4, <2>5
<1> QED
  BY <1>4, <1>5

-----------------------------------------------------------------------------
(***************************************************************************)
(* The invariant: the message is one the kernel sends, the inode's times   *)
(* are times an i64 can hold, and from handle_setattr to the reply the     *)
(* inode has what the message sets.                                        *)
(***************************************************************************)
MsgOk(m) ==
  /\ m.mode \cap S_IFMT = {"S_IFREG"}
  /\ m.size \in 0 .. U64Max
  /\ m.atime \in 0 .. U64Max /\ m.mtime \in 0 .. U64Max /\ m.ctime \in 0 .. U64Max
  /\ m.atimensec \in 0 .. U32Max /\ m.mtimensec \in 0 .. U32Max
  /\ m.ctimensec \in 0 .. U32Max

AtimeOf(s) == [secs |-> s.atime, nsecs |-> s.atime_nsec]
MtimeOf(s) == [secs |-> s.mtime, nsecs |-> s.mtime_nsec]
CtimeOf(s) == [secs |-> s.ctime, nsecs |-> s.ctime_nsec]

StatOk(s) ==
  /\ s.mode \cap S_IFMT = {"S_IFREG"}
  /\ AtimeOf(s) \in Times /\ MtimeOf(s) \in Times /\ CtimeOf(s) \in Times

HasTime(t, secs, nsecs) == <<t.secs, t.nsecs>> = Kept(secs, nsecs)

SetOk(m, s) ==
  /\ "MODE" \in m.valid => s.mode = m.mode
  /\ "UID" \in m.valid => s.uid = m.uid
  /\ "GID" \in m.valid => s.gid = m.gid
  /\ "SIZE" \in m.valid => AsU64(s.size) = m.size
  /\ "ATIME" \in m.valid => HasTime(AtimeOf(s), m.atime, m.atimensec)
  /\ "MTIME" \in m.valid => HasTime(MtimeOf(s), m.mtime, m.mtimensec)
  /\ "CTIME" \in m.valid => HasTime(CtimeOf(s), m.ctime, m.ctimensec)
  /\ "ATIME_NOW" \in m.valid /\ "ATIME" \notin m.valid => AtimeOf(s) \in Clock
  /\ "MTIME_NOW" \in m.valid /\ "MTIME" \notin m.valid => MtimeOf(s) \in Clock
  /\ {"ATIME_NOW", "MTIME_NOW"} \subseteq m.valid /\ {"ATIME", "MTIME"} \cap m.valid = {} =>
       AtimeOf(s) = MtimeOf(s)

AttrInv ==
  /\ phase \in {"idle", "handle", "set", "replied"}
  /\ phase = "idle" => req = NoMsg
  /\ phase = "handle" => MsgOk(req)
  /\ StatOk(stat)
  /\ phase \in {"set", "replied"} => SetOk(req, stat)
  /\ phase = "replied" => timeout \in Timeouts /\ reply = attr_out(stat, timeout)

(* new_stat makes a regular file of the current time. *)
LEMMA NewStatOk ==
  ASSUME NEW now \in Clock
  PROVE  StatOk(new_stat(now))
<1>1. now \in Times
  BY InputsAssumption DEF Times
<1>2. now = [secs |-> now.secs, nsecs |-> now.nsecs]
  BY <1>1 DEF Times
<1> QED
  BY <1>1, <1>2 DEF new_stat, StatOk, AtimeOf, MtimeOf, CtimeOf, S_IFMT

(* The times that handle_setattr makes of a message, whatever the clock.  *)
LEMMA StampOk ==
  ASSUME NEW old \in Times, NEW now \in Clock, NEW secs \in 0 .. U64Max,
         NEW nsecs \in 0 .. U32Max, NEW flag, NEW flagNow,
         NEW new, new = Stamp(SetTime(flag, flagNow, AsI64(secs), nsecs), now, old.secs, old.nsecs)
  PROVE  /\ new \in Times
         /\ flag \in req.valid => HasTime(new, secs, nsecs)
         /\ flagNow \in req.valid /\ flag \notin req.valid => new = now
         /\ flagNow \notin req.valid /\ flag \notin req.valid => new = old
<1>1. now \in Times
  BY InputsAssumption DEF Times
<1> DEFINE d == duration_from_c(AsI64(secs), nsecs)
<1>2. d \in Times /\ HasTime(d, secs, nsecs)
  BY DurationKept DEF HasTime
<1>3. old = [secs |-> old.secs, nsecs |-> old.nsecs]
  BY DEF Times
<1>4. CASE flag \in req.valid
  <2>1. new = Stamp(d, now, old.secs, old.nsecs)
    BY <1>4 DEF SetTime
  <2> HIDE DEF d
  <2>2. new = d
    BY <1>2, <2>1, StampTold
  <2> QED
    BY <1>2, <1>4, <2>2
<1>5. CASE flag \notin req.valid /\ flagNow \in req.valid
  <2>1. new = now
    BY <1>5, StampNow DEF SetTime
  <2> QED
    BY <1>1, <1>5, <2>1
<1>6. CASE flag \notin req.valid /\ flagNow \notin req.valid
  <2>1. new = [secs |-> old.secs, nsecs |-> old.nsecs]
    BY <1>6, StampNone DEF SetTime
  <2> QED
    BY <1>3, <1>6, <2>1
<1> QED
  BY <1>4, <1>5, <1>6

(* The clock that mtime gets: the one that atime got, if atime got one. *)
LEMMA MtimeClockOk ==
  ASSUME MsgOk(req), NEW first \in Clock, NEW second \in Clock
  PROVE  /\ MtimeClock(first, second) \in Clock
         /\ "ATIME" \notin req.valid /\ "ATIME_NOW" \in req.valid =>
              MtimeClock(first, second) = first
BY DEF MtimeClock, atime, SetTime

(* What handle_setattr makes of the inode.  *)
LEMMA AppliedOk ==
  ASSUME MsgOk(req), StatOk(stat), NEW first \in Clock, NEW second \in Clock,
         NEW s, s = Applied(first, second)
  PROVE  /\ StatOk(s) /\ SetOk(req, s)
         /\ "MODE" \in req.valid \/ s.mode = stat.mode
         /\ "UID" \in req.valid \/ s.uid = stat.uid
         /\ "GID" \in req.valid \/ s.gid = stat.gid
         /\ "SIZE" \in req.valid \/ s.size = stat.size
         /\ \/ {"ATIME", "ATIME_NOW"} \cap req.valid # {}
            \/ <<s.atime, s.atime_nsec>> = <<stat.atime, stat.atime_nsec>>
         /\ \/ {"MTIME", "MTIME_NOW"} \cap req.valid # {}
            \/ <<s.mtime, s.mtime_nsec>> = <<stat.mtime, stat.mtime_nsec>>
         /\ \/ "CTIME" \in req.valid
            \/ <<s.ctime, s.ctime_nsec>> = <<stat.ctime, stat.ctime_nsec>>
<1>1. PICK clock \in Clock :
        /\ clock = MtimeClock(first, second)
        /\ "ATIME" \notin req.valid /\ "ATIME_NOW" \in req.valid => clock = first
  BY MtimeClockOk
<1>2. PICK a, m, c :
        /\ a = Stamp(atime, first, stat.atime, stat.atime_nsec)
        /\ m = Stamp(mtime, clock, stat.mtime, stat.mtime_nsec)
        /\ c = Stamp(ctime, first, stat.ctime, stat.ctime_nsec)
  OBVIOUS
<1>3. /\ s.mode = IF "MODE" \in req.valid THEN (stat.mode \cap S_IFMT) \cup req.mode
                  ELSE stat.mode
      /\ s.uid = IF "UID" \in req.valid THEN req.uid ELSE stat.uid
      /\ s.gid = IF "GID" \in req.valid THEN req.gid ELSE stat.gid
      /\ s.size = IF "SIZE" \in req.valid THEN AsI64(AsU64(AsI64(req.size))) ELSE stat.size
      /\ s.atime = a.secs /\ s.atime_nsec = a.nsecs
      /\ s.mtime = m.secs /\ s.mtime_nsec = m.nsecs
      /\ s.ctime = c.secs /\ s.ctime_nsec = c.nsecs
  BY <1>1, <1>2 DEF Applied, Sent, to_stat
<1>4. /\ atime = SetTime("ATIME", "ATIME_NOW", AsI64(req.atime), req.atimensec)
      /\ mtime = SetTime("MTIME", "MTIME_NOW", AsI64(req.mtime), req.mtimensec)
      /\ ctime = SetTime("CTIME", "CTIME", AsI64(req.ctime), req.ctimensec)
  BY DEF atime, mtime, ctime, Sent, to_stat
<1>5. /\ AtimeOf(stat) \in Times
      /\ AtimeOf(stat).secs = stat.atime /\ AtimeOf(stat).nsecs = stat.atime_nsec
      /\ MtimeOf(stat) \in Times
      /\ MtimeOf(stat).secs = stat.mtime /\ MtimeOf(stat).nsecs = stat.mtime_nsec
      /\ CtimeOf(stat) \in Times
      /\ CtimeOf(stat).secs = stat.ctime /\ CtimeOf(stat).nsecs = stat.ctime_nsec
  BY DEF StatOk, AtimeOf, MtimeOf, CtimeOf
<1>6. /\ a \in Times
      /\ "ATIME" \in req.valid => HasTime(a, req.atime, req.atimensec)
      /\ "ATIME_NOW" \in req.valid /\ "ATIME" \notin req.valid => a = first
      /\ "ATIME_NOW" \notin req.valid /\ "ATIME" \notin req.valid => a = AtimeOf(stat)
  BY <1>2, <1>4, <1>5, StampOk DEF MsgOk
<1>7. /\ m \in Times
      /\ "MTIME" \in req.valid => HasTime(m, req.mtime, req.mtimensec)
      /\ "MTIME_NOW" \in req.valid /\ "MTIME" \notin req.valid => m = clock
      /\ "MTIME_NOW" \notin req.valid /\ "MTIME" \notin req.valid => m = MtimeOf(stat)
  BY <1>2, <1>4, <1>5, StampOk DEF MsgOk
<1>8. /\ c \in Times
      /\ "CTIME" \in req.valid => HasTime(c, req.ctime, req.ctimensec)
      /\ "CTIME" \notin req.valid => c = CtimeOf(stat)
  BY <1>2, <1>4, <1>5, StampOk DEF MsgOk
<1>9. AtimeOf(s) = a /\ MtimeOf(s) = m /\ CtimeOf(s) = c
  BY <1>3, <1>6, <1>7, <1>8 DEF AtimeOf, MtimeOf, CtimeOf, Times
<1>10. s.mode \cap S_IFMT = {"S_IFREG"} /\ ("MODE" \in req.valid => s.mode = req.mode)
  BY <1>3 DEF MsgOk, StatOk
<1>11. StatOk(s)
  BY <1>6, <1>7, <1>8, <1>9, <1>10 DEF StatOk
<1>12. "SIZE" \in req.valid => AsU64(s.size) = req.size
  BY <1>3, WrapsBack DEF MsgOk
<1>13. SetOk(req, s)
  BY <1>1, <1>3, <1>6, <1>7, <1>8, <1>9, <1>10, <1>12 DEF SetOk
<1>14. \/ {"ATIME", "ATIME_NOW"} \cap req.valid # {}
       \/ <<s.atime, s.atime_nsec>> = <<stat.atime, stat.atime_nsec>>
  BY <1>3, <1>5, <1>6
<1>15. \/ {"MTIME", "MTIME_NOW"} \cap req.valid # {}
       \/ <<s.mtime, s.mtime_nsec>> = <<stat.mtime, stat.mtime_nsec>>
  BY <1>3, <1>5, <1>7
<1>16. \/ "CTIME" \in req.valid
       \/ <<s.ctime, s.ctime_nsec>> = <<stat.ctime, stat.ctime_nsec>>
  BY <1>3, <1>5, <1>8
<1> QED
  BY <1>3, <1>11, <1>13, <1>14, <1>15, <1>16

(* The SETATTR of the kernel is a message that MsgOk describes. *)
LEMMA MessageOk ==
  ASSUME Setattr
  PROVE  MsgOk(req')
<1>1. PICK valid \in SUBSET Flags, v \in Values :
        req' = [valid |-> valid, mode |-> {"S_IFREG"} \cup v.perm, uid |-> v.id, gid |-> v.id,
                size |-> v.size, atime |-> v.secs, mtime |-> v.secs, ctime |-> v.secs,
                atimensec |-> v.atimensec, mtimensec |-> v.mtimensec,
                ctimensec |-> v.mtimensec]
  BY DEF Setattr
<1>2. /\ v.size \in 0 .. U64Max /\ v.secs \in 0 .. U64Max
      /\ v.atimensec \in 0 .. U32Max /\ v.mtimensec \in 0 .. U32Max
      /\ v.perm \cap S_IFMT = {}
  BY InputsAssumption
<1>3. ({"S_IFREG"} \cup v.perm) \cap S_IFMT = {"S_IFREG"}
  BY <1>2 DEF S_IFMT
<1> QED
  BY <1>1, <1>2, <1>3 DEF MsgOk

LEMMA AttrInit ==
  AttributesInit => AttrInv
BY NewStatOk DEF AttributesInit, AttrInv

LEMMA AttrNext ==
  AttrInv /\ [AttributesNext]_attrVars => AttrInv'
<1> SUFFICES ASSUME AttrInv, [AttributesNext]_attrVars PROVE AttrInv'
  OBVIOUS
<1>1. CASE Setattr
  BY <1>1, MessageOk DEF AttrInv, Setattr
<1>2. CASE handle_setattr
  <2>1. PICK first \in Clock, second \in Clock : stat' = Applied(first, second)
    BY <1>2 DEF handle_setattr
  <2>2. MsgOk(req) /\ StatOk(stat)
    BY <1>2 DEF AttrInv, handle_setattr
  <2>3. StatOk(stat') /\ SetOk(req, stat')
    BY <2>1, <2>2, AppliedOk
  <2> QED
    BY <1>2, <2>3 DEF AttrInv, handle_setattr
<1>3. CASE SetattrReply
  BY <1>3 DEF AttrInv, SetattrReply
<1>4. CASE GetattrReply
  <2>1. SetOk(NoMsg, stat)
    BY DEF SetOk, NoMsg
  <2> QED
    BY <1>4, <2>1 DEF AttrInv, GetattrReply
<1>5. CASE Receive
  BY <1>5 DEF AttrInv, Receive
<1>6. CASE UNCHANGED attrVars
  BY <1>6 DEF AttrInv, attrVars
<1> QED
  BY <1>1, <1>2, <1>3, <1>4, <1>5, <1>6 DEF AttributesNext

(* The inode has what the message sets from handle_setattr to the reply.   *)
THEOREM AttributesInvariant == AttributesSpec => []AttrInv
BY AttrInit, AttrNext, PTL DEF AttributesSpec

-----------------------------------------------------------------------------
(* from_stat reports the inode's times as they are. *)
LEMMA FromStat ==
  ASSUME NEW s, StatOk(s), NEW a, a = from_stat(s)
  PROVE  /\ a.mode = s.mode /\ a.uid = s.uid /\ a.gid = s.gid /\ a.size = AsU64(s.size)
         /\ a.atime = s.atime /\ a.atimensec = s.atime_nsec
         /\ a.mtime = s.mtime /\ a.mtimensec = s.mtime_nsec
         /\ a.ctime = s.ctime /\ a.ctimensec = s.ctime_nsec
<1>1. I64Half \in Nat /\ Nano \in Nat
  BY WidthAssumption
<1>2. \A t \in Times : AtLeast0(t.secs) = t.secs /\ AtLeast0(t.nsecs) = t.nsecs
  BY <1>1 DEF Times, AtLeast0
<1>3. /\ AtLeast0(s.atime) = s.atime /\ AtLeast0(s.atime_nsec) = s.atime_nsec
      /\ AtLeast0(s.mtime) = s.mtime /\ AtLeast0(s.mtime_nsec) = s.mtime_nsec
      /\ AtLeast0(s.ctime) = s.ctime /\ AtLeast0(s.ctime_nsec) = s.ctime_nsec
  BY <1>2 DEF StatOk, AtimeOf, MtimeOf, CtimeOf
<1> QED
  BY <1>3 DEF from_stat

LEMMA RightByInvariant ==
  AttrInv => ReplyIsRight
<1> SUFFICES ASSUME AttrInv, phase = "replied" PROVE ReplyIsRight
  BY DEF ReplyIsRight, SetattrIsReported, NowIsOneMoment, ValidityIsTimeout
<1>1. timeout \in Timeouts /\ reply = attr_out(stat, timeout)
  BY DEF AttrInv
<1>2. reply.valid = split_timeout(timeout) /\ reply.attr = from_stat(stat)
  BY <1>1 DEF attr_out
<1>3. StatOk(stat) /\ SetOk(req, stat)
  BY DEF AttrInv
<1> DEFINE a == reply.attr
<1>4. /\ a.mode = stat.mode /\ a.uid = stat.uid /\ a.gid = stat.gid
      /\ a.size = AsU64(stat.size)
      /\ a.atime = stat.atime /\ a.atimensec = stat.atime_nsec
      /\ a.mtime = stat.mtime /\ a.mtimensec = stat.mtime_nsec
      /\ a.ctime = stat.ctime /\ a.ctimensec = stat.ctime_nsec
  BY <1>2, <1>3, FromStat
<1>5. SetattrIsReported
  BY <1>3, <1>4 DEF SetattrIsReported, SetOk, HasTime, AtimeOf, MtimeOf, CtimeOf
<1>6. NowIsOneMoment
  BY <1>3, <1>4 DEF NowIsOneMoment, SetOk, AtimeOf, MtimeOf
<1>7. ValidityIsTimeout
  <2>1. timeout \in Int
    BY <1>1, InputsAssumption
  <2> QED
    BY <1>2, <2>1, SplitIsExact DEF ValidityIsTimeout
<1> QED
  BY <1>5, <1>6, <1>7 DEF ReplyIsRight

(* What ReplyIsRight says of the reply to a SETATTR or a GETATTR (to_stat, *)
(* the accessors, handle_setattr, from_stat and split_timeout together)    *)
(* holds at the code's own widths, 2^63 and u32::MAX, as at any other.     *)
THEOREM RepliesAreRight == AttributesSpec => []ReplyIsRight
BY AttributesInvariant, RightByInvariant, PTL

(* No step of the inode's attributes touches what the message does not set *)
(* or changes the type of the file: handle_setattr assigns behind the      *)
(* flags, and its mask keeps the S_IFMT bits.                              *)
THEOREM NothingElseIsTouched == AttributesSpec => OthersUntouched
<1> DEFINE Step ==
     /\ stat'.mode \cap S_IFMT = stat.mode \cap S_IFMT
     /\ \/ "MODE" \in req.valid \/ stat'.mode = stat.mode
     /\ \/ "UID" \in req.valid \/ stat'.uid = stat.uid
     /\ \/ "GID" \in req.valid \/ stat'.gid = stat.gid
     /\ \/ "SIZE" \in req.valid \/ stat'.size = stat.size
     /\ \/ {"ATIME", "ATIME_NOW"} \cap req.valid # {}
        \/ <<stat'.atime, stat'.atime_nsec>> = <<stat.atime, stat.atime_nsec>>
     /\ \/ {"MTIME", "MTIME_NOW"} \cap req.valid # {}
        \/ <<stat'.mtime, stat'.mtime_nsec>> = <<stat.mtime, stat.mtime_nsec>>
     /\ \/ "CTIME" \in req.valid
        \/ <<stat'.ctime, stat'.ctime_nsec>> = <<stat.ctime, stat.ctime_nsec>>
<1>1. AttrInv /\ [AttributesNext]_attrVars => [Step]_stat
  <2> SUFFICES ASSUME AttrInv, AttributesNext, stat' # stat PROVE Step
    BY DEF attrVars
  <2>1. handle_setattr
    BY DEF AttributesNext, Setattr, SetattrReply, GetattrReply, Receive
  <2>2. PICK first \in Clock, second \in Clock : stat' = Applied(first, second)
    BY <2>1 DEF handle_setattr
  <2>3. MsgOk(req) /\ StatOk(stat)
    BY <2>1 DEF AttrInv, handle_setattr
  <2>4. StatOk(stat')
    BY <2>2, <2>3, AppliedOk
  <2>5. stat'.mode \cap S_IFMT = stat.mode \cap S_IFMT
    BY <2>3, <2>4 DEF StatOk
  <2> QED
    BY <2>2, <2>3, <2>5, AppliedOk
<1> QED
  BY <1>1, AttributesInvariant, PTL DEF AttributesSpec, OthersUntouched
=============================================================================
