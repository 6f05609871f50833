----------------------------- MODULE MailboxRing -----------------------------
(***************************************************************************)
(* One ring buffer of a mailbox channel (amdxdna_mailbox.c), word by word. *)
(* The host is the producer of the X2I ring (mailbox_send_msg) and the     *)
(* consumer of the I2X ring (mailbox_get_msg); the firmware at the other   *)
(* end of each ring follows the same protocol.  The module puts the        *)
(* driver's two halves at the two ends of one ring.                        *)
(*                                                                         *)
(* All offsets and sizes are counted in 32-bit words: the code keeps them  *)
(* aligned to four bytes (IS_ALIGNED).  A package is its 4-word header and *)
(* its payload; the first word is the size, or TOMBSTONE.                  *)
(*                                                                         *)
(* The host never fills the last word of the ring (ringbuf_size -          *)
(* sizeof(u32)).  The firmware may: a head equal to ringbuf_size "is       *)
(* expected", and a package that follows one ending there starts at 0      *)
(* without a tombstone.  reserve is the number of words the producer keeps.*)
(***************************************************************************)
EXTENDS Integers, Sequences

CONSTANTS
    N,          \* ringbuf_size, in words
    Sizes,      \* the sizes of packages, in words
    MaxSent     \* bound: messages sent in a behaviour

\* The range of a u32, in words: 2^32 bytes.
U32Words == 2^30

ASSUME RingAssumption ==
    /\ U32Words \in Nat \ {0} /\ N \in Nat \ {0} /\ N < U32Words
    /\ MaxSent \in Nat
    /\ Sizes \subseteq 1..N

Junk == [kind |-> "junk", msg |-> 0, off |-> 0]
TOMBSTONE == [kind |-> "tombstone", msg |-> 0, off |-> 0]
\* Word off of the package that is the msg-th one written.
PkgWord(msg, off) == [kind |-> "pkg", msg |-> msg, off |-> off]

Message == [at : 0..N-1, size : Sizes]

VARIABLES
    buf,    \* the ring, buf[0..N-1]
    tail,   \* the tail register, and the producer's copy of it (x2i_tail)
    head,   \* the head register, and the consumer's copy of it (i2x_head)
    ppc,    \* the producer, in mailbox_send_msg: "idle" | "copy" | "publish"
    reserve,\* 1: the host produces (X2I); 0: the firmware produces (I2X)
    pkg,    \* the package it sends, once its place is known
    cpc,    \* the consumer, in mailbox_get_msg: "idle" | "peek" | "repeek" |
            \*   "check" | "sethead"
    ct,     \* its local tail
    ch,     \* its local head
    size,   \* the package size it read (msg_size)
    sent,   \* the packages published so far
    rcvd,   \* the packages handed to mailbox_get_resp so far
    bad     \* mailbox_get_msg returned an error other than -ENOENT

prod == <<ppc, pkg, sent, reserve>>
cons == <<cpc, ct, ch, size, rcvd, bad>>
ringVars == <<buf, tail, head, prod, cons>>

NoPkg == [at |-> 0, size |-> 0]

\* A channel starts on an empty ring: xdna_mailbox_create_channel() reads
\* both pointers back from the registers the firmware has reset.
RingInit ==
    /\ buf = [i \in 0..N-1 |-> Junk]
    /\ tail = 0 /\ head = 0
    /\ reserve \in {0, 1} /\ ppc = "idle" /\ pkg = NoPkg
    /\ cpc = "idle" /\ ct = 0 /\ ch = 0 /\ size = 0
    /\ sent = <<>> /\ rcvd = <<>>
    /\ bad = FALSE
-----------------------------------------------------------------------------
(* The producer: mailbox_send_msg().                                       *)

\* The package does not fit between the tail and the end of the ring.
Wraps(sz) == tail >= head /\ tail + sz > N - reserve

NoSpace_wrap(sz) == tail < head /\ tail + sz >= head
\* ... nor anywhere else that leaves the tail behind the head.
NoSpace(sz) == \/ tail < head /\ tail + sz >= head
               \/ Wraps(sz) /\ sz >= head

\* The wrap forgets the tombstone.
SendCheck_nomark(sz) ==
    /\ ppc = "idle" /\ Len(sent) < MaxSent
    /\ ~NoSpace(sz)
    /\ ppc' = "copy"
    /\ pkg' = [at |-> IF Wraps(sz) THEN 0 ELSE tail, size |-> sz]
    /\ UNCHANGED <<buf, tail, head, sent, reserve, cons>>

\* From the read of the head register to the tombstone.  A package that is
\* refused (-ENOSPC) changes nothing.  At tail = N there is no word to mark.
SendCheck(sz) ==
    /\ ppc = "idle" /\ Len(sent) < MaxSent
    /\ ~NoSpace(sz)
    /\ ppc' = "copy"
    /\ pkg' = [at |-> IF Wraps(sz) THEN 0 ELSE tail, size |-> sz]
    /\ buf' = IF Wraps(sz) /\ tail < N THEN [buf EXCEPT ![tail] = TOMBSTONE] ELSE buf
    /\ UNCHANGED <<tail, head, sent, reserve, cons>>

\* memcpy_toio() of the package.
SendCopy ==
    /\ ppc = "copy"
    /\ ppc' = "publish"
    /\ buf' = [i \in 0..N-1 |->
                 IF i \in pkg.at .. pkg.at + pkg.size - 1
                 THEN PkgWord(Len(sent) + 1, i - pkg.at) ELSE buf[i]]
    /\ UNCHANGED <<tail, head, pkg, sent, reserve, cons>>

\* mailbox_set_tailptr(): the package becomes visible to the consumer.
SendPublish ==
    /\ ppc = "publish"
    /\ ppc' = "idle" /\ pkg' = NoPkg
    /\ tail' = pkg.at + pkg.size
    /\ sent' = Append(sent, pkg)
    /\ UNCHANGED <<buf, head, reserve, cons>>

-----------------------------------------------------------------------------
(* The consumer: mailbox_get_msg().                                        *)

\* The tail as a u32 difference from h, in words: it wraps below zero.
FromTail(t, h) == (t - h) % U32Words

\* The head is given back before the package is read.
GetTail_release ==
    /\ cpc = "idle" /\ ~bad
    /\ tail # 0 /\ tail # head
    /\ ct' = tail
    /\ ch' = IF head = N THEN 0 ELSE head
    /\ head' = tail
    /\ cpc' = "peek"
    /\ UNCHANGED <<buf, tail, prod, size, rcvd, bad>>

\* The consumer forgets that a head at the end of the ring means its start.
GetTail_nowrap ==
    /\ cpc = "idle" /\ ~bad
    /\ tail # 0 /\ tail # head
    /\ ct' = tail
    /\ ch' = IF head = N THEN N - 1 ELSE head
    /\ cpc' = "peek"
    /\ UNCHANGED <<buf, tail, head, prod, size, rcvd, bad>>

\* mailbox_tail_read_non_zero() and the test for an empty ring (-ENOENT).
\* The receiver runs only after the firmware's doorbell, so the tail has
\* left zero by then.
GetTail ==
    /\ cpc = "idle" /\ ~bad
    /\ tail # 0 /\ tail # head
    /\ ct' = tail
    /\ ch' = IF head = N THEN 0 ELSE head
    /\ cpc' = "peek"
    /\ UNCHANGED <<buf, tail, head, prod, size, rcvd, bad>>

\* What the consumer takes for a size: of a word that is not the first word
\* of a package it can make nothing.
SizeWord(w) == IF w.kind = "pkg" /\ w.off = 0 /\ w.msg <= Len(sent)
               THEN sent[w.msg].size ELSE 0

\* readl() of the size or the tombstone.
GetPeek ==
    /\ cpc = "peek"
    /\ IF buf[ch].kind = "tombstone"
       THEN /\ IF ch < ct THEN bad' = TRUE /\ cpc' = "idle" /\ UNCHANGED ch
                          ELSE cpc' = "repeek" /\ ch' = 0 /\ UNCHANGED bad
            /\ UNCHANGED size
       ELSE cpc' = "check" /\ size' = SizeWord(buf[ch]) /\ UNCHANGED <<ch, bad>>
    /\ UNCHANGED <<buf, tail, head, prod, ct, rcvd>>

\* After a tombstone: read the tail again and the size at the start.
GetRepeek ==
    /\ cpc = "repeek"
    /\ ct' = tail
    /\ size' = SizeWord(buf[0])
    /\ cpc' = "check"
    /\ UNCHANGED <<buf, tail, head, prod, ch, rcvd, bad>>

\* The size is checked against the ring and the tail, then the package is
\* read and given to mailbox_get_resp().
GetResp ==
    /\ cpc = "check"
    /\ IF size = 0 \/ size > N - ch \/ size > FromTail(ct, ch)
       THEN bad' = TRUE /\ cpc' = "idle" /\ UNCHANGED rcvd
       ELSE /\ rcvd' = Append(rcvd,
                 IF \A i \in 0..size-1 : buf[ch + i] = PkgWord(buf[ch].msg, i)
                 THEN sent[buf[ch].msg] ELSE NoPkg)
            /\ cpc' = "sethead"
            /\ UNCHANGED bad
    /\ UNCHANGED <<buf, tail, head, prod, ct, ch, size>>

\* mailbox_set_headptr(): the words of the package are the producer's again.
GetSetHead ==
    /\ cpc = "sethead"
    /\ head' = ch + size
    /\ cpc' = "idle"
    /\ UNCHANGED <<buf, tail, prod, ct, ch, size, rcvd, bad>>

-----------------------------------------------------------------------------
Producer == SendCopy \/ SendPublish
Consumer == GetTail \/ GetPeek \/ GetRepeek \/ GetResp \/ GetSetHead

RingNext == (\E sz \in Sizes : SendCheck(sz)) \/ Producer \/ Consumer

\* A call of either function runs to its end, and the receiver is called
\* while the ring is not empty (mailbox_rx_worker's loop).
RingSpec ==
    RingInit /\ [][RingNext]_ringVars /\ WF_ringVars(Producer) /\ WF_ringVars(Consumer)
-----------------------------------------------------------------------------
(* Properties *)

Word == {Junk, TOMBSTONE} \cup [kind : {"pkg"}, msg : Nat \ {0}, off : Nat]

\* Type invariant of the ring, its registers and the two calls in progress.
RingTypeOK ==
    /\ buf \in [0..N-1 -> Word]
    /\ tail \in 0..N /\ head \in 0..N
    /\ ppc \in {"idle", "copy", "publish"}
    /\ reserve \in {0, 1} /\ (ppc # "idle" => pkg \in Message)
    /\ cpc \in {"idle", "peek", "repeek", "check", "sethead"}
    /\ ct \in 0..N /\ ch \in 0..N-1 /\ size \in 0..N
    /\ sent \in Seq(Message)
    /\ bad \in BOOLEAN

\* The words between the consumer's head and the published tail, that is,
\* the ones the consumer may still read (a tombstone's tail end included).
Unread(i) == IF head <= tail THEN head <= i /\ i < tail
                             ELSE head <= i \/ i < tail

\* Where a package being sent lies, whatever the head has done since it was
\* read: behind the tail, or at the start of the ring below the head.
PlaceSound ==
    ppc # "idle" =>
        LET e == pkg.at + pkg.size
        IN  /\ e <= N
            /\ \/ pkg.at = tail /\ (tail >= head \/ e < head)
               \/ pkg.at = 0 /\ tail >= head /\ e < head

\* Where the consumer reads, whatever the tail has done since it was read:
\* between the head and the tail, in one of the three forms the code tells
\* apart: the ring not wrapped, wrapped, or started over.
ReadFlat == /\ ch = head /\ head < ct
            /\ ct <= tail \/ tail < head
            /\ cpc = "sethead" => ch + size <= ct
ReadWrapped == /\ ch = head /\ head < N /\ ct <= tail /\ tail < head
               /\ cpc = "sethead" => ch + size <= N
ReadRestart == /\ ch = 0 /\ tail < head
               /\ cpc # "repeek" => ct <= tail
               /\ cpc = "peek" => ch < ct
               /\ cpc = "sethead" => size <= ct
ReadSound ==
    /\ cpc \in {"peek", "check", "sethead"} => ReadFlat \/ ReadWrapped \/ ReadRestart
    /\ cpc = "repeek" => ReadRestart

\* The pointers of both ends keep their places.
PointersInv == RingTypeOK /\ PlaceSound /\ ReadSound

\* The end of a package, and the oldest one whose words the consumer has not
\* given back: those from First on are held in the ring.
End(k) == sent[k].at + sent[k].size
First == Len(rcvd) + (IF cpc = "sethead" THEN 0 ELSE 1)
Held == First .. Len(sent)

\* A package lies before the end of the ring or, past the wrap, at its start.
Flat(k) == head <= sent[k].at /\ (head <= tail => End(k) <= tail)
Wrapped(k) == tail < head /\ End(k) <= tail

\* Every held package lies between the head and the tail, whole, as written.
HeldWhole ==
    \A k \in Held :
        /\ End(k) <= N /\ (Flat(k) \/ Wrapped(k))
        /\ \A i \in 0 .. sent[k].size - 1 : buf[sent[k].at + i] = PkgWord(k, i)

\* Later packages lie behind earlier ones.
HeldInOrder ==
    \A k, l \in Held : k < l =>
        \/ Flat(k) /\ Wrapped(l)
        \/ (Flat(k) <=> Flat(l)) /\ End(k) <= sent[l].at

\* The word at p sends the reader to the start of the ring.
StartsOver(p) == p = N \/ buf[p] = TOMBSTONE

\* Each package starts where the one before ends, or at the start of the ring
\* after a tombstone or the very end; the first one at the head, the last one
\* ends at the tail.
HeldLinked ==
    /\ \A k \in Held : k + 1 \in Held =>
         \/ sent[k + 1].at = End(k)
         \/ sent[k + 1].at = 0 /\ StartsOver(End(k)) /\ Flat(k) /\ Wrapped(k + 1)
    /\ Held = {} => head = tail
    /\ Held # {} =>
         /\ tail = End(Len(sent))
         /\ \/ sent[First].at = head
            \/ sent[First].at = 0 /\ StartsOver(head) /\ Wrapped(First)

\* The package being sent: the mark that leads to it, and its words once they
\* are copied.
PendingWhole ==
    /\ ppc # "idle" /\ pkg.at # tail => StartsOver(tail)
    /\ ppc = "publish" =>
         \A i \in 0 .. pkg.size - 1 : buf[pkg.at + i] = PkgWord(Len(sent) + 1, i)

\* The consumer is at the first held package, with a tail that was one.
ReadsFirst ==
    /\ cpc # "idle" => First \in 1 .. Len(sent)
    /\ cpc = "peek" => ch = IF head = N THEN 0 ELSE head
    /\ cpc \in {"repeek", "check", "sethead"} => ch = sent[First].at
    /\ cpc \in {"check", "sethead"} => size = sent[First].size
    /\ cpc \in {"peek", "check"} => \E m \in Held : ct = End(m)

\* What was received is what was sent first.
ReceivedPrefix ==
    /\ rcvd \in Seq(Message) /\ Len(rcvd) <= Len(sent)
    /\ \A k \in 1 .. Len(rcvd) : rcvd[k] = sent[k]

ContentInv == /\ HeldWhole /\ HeldInOrder /\ HeldLinked
              /\ PendingWhole /\ ReadsFirst /\ ReceivedPrefix /\ ~bad

\* The inductive invariant of the ring: its pointers and its content.
RingInv == PointersInv /\ ContentInv

\* mailbox_send_msg() never writes a word the other end has not given back,
\* although it looks at the head register only once, before it writes.
NoOverwrite == [][\A i \in 0..N-1 : buf'[i] # buf[i] => ~Unread(i)]_ringVars

\* Two well-behaved ends never make mailbox_get_msg() return an error: no
\* sequence of sizes, wraps and tombstones looks like a broken device.
NoFalseError == ~bad

\* The published tail never catches up with the head from behind: equal
\* pointers mean an empty ring to mailbox_get_msg(), so a full ring must not
\* look like one.
FullIsNotEmpty == tail = head /\ cpc = "idle" => Len(rcvd) = Len(sent)

\* What the ring keeps: an empty ring takes every package of at most half
\* of it, wherever the pointers stand.  (A larger one is refused for ever if
\* the pointers have stopped in the middle: neither end moves them again.)
HalfRingFits ==
    tail = head => \A sz \in Sizes : 2 * sz <= N - reserve => ~NoSpace(sz)

\* The ring is a FIFO: every published package is received, once, in order
\* and unharmed.
Fifo == INSTANCE MsgFifo WITH Message <- Message, sent <- sent, rcvd <- rcvd
IsFifo == Fifo!Spec

\* A ring between two well-behaved ends never comes to a stop: its content is
\* never taken for an error, a full ring never for an empty one, and an empty
\* one takes every package of half its size.
RingHealthy == NoFalseError /\ FullIsNotEmpty /\ HalfRingFits
=============================================================================
