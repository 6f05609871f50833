--------------------------- MODULE Mailbox_proofs ---------------------------
(***************************************************************************)
(* Proofs about the two layers of the mailbox.                             *)
(*                                                                         *)
(* MailboxRing, for every ring size, every set of package sizes, either    *)
(* producer and any number of messages.  The pointers come first, without  *)
(* a look at what the ring holds: the consumer's own checks of the size it *)
(* read (against the end of the ring and the tail) keep its head between   *)
(* the old head and the tail, so the place that the producer chose with an *)
(* old head stays free.  With that, nothing unread is ever overwritten, so *)
(* the packages between the head and the tail stay as they were written,   *)
(* and the consumer reads them one after the other: the ring is the FIFO   *)
(* that the channel takes it for.                                          *)
(*                                                                         *)
(* MailboxChannel: the table of outstanding messages neither mixes up nor  *)
(* forgets one, on any number of ids, messages and commands; a callback    *)
(* reaches only a sender that expects it; and a firmware that answers in   *)
(* order is never taken for a broken device.                               *)
(***************************************************************************)
EXTENDS MailboxRing, MailboxChannel, SeqLemmas, FiniteSetTheorems, TLAPS

(* The ring: Ring... are the definitions of MailboxRing.                   *)

\* The u32 difference of two offsets into the ring: the distance when the
\* tail is ahead, and more than the ring holds when it is behind.
LEMMA FromTailValue ==
    ASSUME NEW t \in 0..N, NEW h \in 0..N
    PROVE  /\ FromTail(t, h) \in Nat
           /\ t >= h => FromTail(t, h) = t - h
  BY RingAssumption DEF FromTail

\* What the consumer reads as a size is a natural number, whatever the word.
LEMMA SizeWordType ==
    ASSUME RingTypeOK, NEW i \in 0..N-1
    PROVE  SizeWord(buf[i]) \in 0..N
  <1>1. buf[i] \in Word
    BY DEF RingTypeOK
  <1>2. buf[i].kind = "pkg" => buf[i].msg \in Nat \ {0}
    BY <1>1 DEF Word, Junk, TOMBSTONE
  <1>3. CASE buf[i].kind = "pkg" /\ buf[i].off = 0 /\ buf[i].msg <= Len(sent)
    <2>1. sent[buf[i].msg] \in Message
      BY <1>2, <1>3 DEF RingTypeOK
    <2>2. sent[buf[i].msg].size \in Sizes
      BY <2>1 DEF Message
    <2>a. \A sz \in Sizes : sz \in 0..N
      BY RingAssumption
    <2>3. sent[buf[i].msg].size \in 0..N
      BY <2>2, <2>a
    <2> QED  BY <1>3, <2>3 DEF SizeWord
  <1>4. CASE ~(buf[i].kind = "pkg" /\ buf[i].off = 0 /\ buf[i].msg <= Len(sent))
    BY <1>4, RingAssumption DEF SizeWord
  <1> QED  BY <1>3, <1>4

\* Both pointers start at zero.
LEMMA PointersInvInit == RingInit => PointersInv
  <1> SUFFICES ASSUME RingInit PROVE PointersInv
    OBVIOUS
  <1>1. RingTypeOK
    BY RingAssumption DEF RingInit, RingTypeOK, Word
  <1> QED  BY <1>1 DEF RingInit, PointersInv, PlaceSound, ReadSound

\* The place is chosen between the tail and the head just read.
LEMMA SendCheckKeepsInv ==
    ASSUME PointersInv, NEW sz \in Sizes, SendCheck(sz)
    PROVE  PointersInv'
  <1> USE RingAssumption DEF PointersInv
  <1>1. sz \in 1..N /\ tail \in 0..N /\ head \in 0..N /\ reserve \in {0, 1}
    BY DEF RingTypeOK
  <1>2. RingTypeOK'
    <2>1. buf' \in [0..N-1 -> Word]
      BY <1>1 DEF SendCheck, RingTypeOK, Word
    <2>2. pkg' \in Message
      BY <1>1 DEF SendCheck, NoSpace, Wraps, Message
    <2> QED  BY <2>1, <2>2 DEF SendCheck, RingTypeOK, cons
  <1>3. PlaceSound'
    BY <1>1 DEF SendCheck, PlaceSound, NoSpace, Wraps, cons
  <1>4. ReadSound'
    BY DEF SendCheck, ReadSound, ReadFlat, ReadWrapped, ReadRestart, cons
  <1> QED  BY <1>2, <1>3, <1>4

\* The copy moves no pointer.
LEMMA SendCopyKeepsInv ==
    ASSUME PointersInv, SendCopy
    PROVE  PointersInv'
  <1> USE RingAssumption DEF PointersInv
  <1>1. pkg \in Message /\ pkg.at \in 0..N-1 /\ pkg.size \in 1..N
    BY DEF SendCopy, RingTypeOK, Message
  <1>2. buf' \in [0..N-1 -> Word]
    <2>1. ASSUME NEW i \in 0..N-1, i \in pkg.at .. pkg.at + pkg.size - 1
          PROVE  PkgWord(Len(sent) + 1, i - pkg.at) \in Word
      <3>1. Len(sent) + 1 \in Nat \ {0} /\ i - pkg.at \in Nat
        BY <1>1, <2>1 DEF RingTypeOK
      <3> QED  BY <3>1 DEF Word, PkgWord
    <2> QED  BY <2>1 DEF SendCopy, RingTypeOK
  <1>3. RingTypeOK'
    BY <1>1, <1>2 DEF SendCopy, RingTypeOK, cons
  <1>4. PlaceSound'
    BY DEF SendCopy, PlaceSound, cons
  <1>5. ReadSound'
    BY DEF SendCopy, ReadSound, ReadFlat, ReadWrapped, ReadRestart, cons
  <1> QED  BY <1>3, <1>4, <1>5

\* The tail moves to the end of the package.
LEMMA SendPublishKeepsInv ==
    ASSUME PointersInv, SendPublish
    PROVE  PointersInv'
  <1> USE RingAssumption DEF PointersInv
  <1>1. pkg \in Message /\ pkg.at \in 0..N-1 /\ pkg.size \in 1..N
    BY DEF SendPublish, RingTypeOK, Message
  <1>2. /\ tail' = pkg.at + pkg.size /\ tail' \in 1..N
        /\ UNCHANGED <<buf, head, cpc, ct, ch, size, rcvd, bad>>
    BY <1>1 DEF SendPublish, PlaceSound, RingTypeOK, cons
  <1>3. sent' \in Seq(Message)
    BY <1>1 DEF SendPublish, RingTypeOK
  <1>4. RingTypeOK'
    BY <1>2, <1>3 DEF SendPublish, RingTypeOK
  <1>5. PlaceSound'
    BY DEF SendPublish, PlaceSound
  \* The tail moves forward up to the end, or stays or comes below the head.
  <1>6. \/ tail' >= tail /\ tail >= head
        \/ tail' >= tail /\ tail' < head
        \/ tail >= head /\ tail' < head
    BY <1>1, <1>2 DEF SendPublish, PlaceSound, RingTypeOK
  <1>7. ReadSound'
    BY <1>2, <1>6 DEF ReadSound, ReadFlat, ReadWrapped, ReadRestart, RingTypeOK
  <1> QED  BY <1>4, <1>5, <1>7

\* The consumer takes a copy of the tail.
LEMMA GetTailKeepsInv ==
    ASSUME PointersInv, GetTail
    PROVE  PointersInv'
  <1> USE RingAssumption DEF PointersInv
  <1>1. RingTypeOK'
    BY DEF GetTail, RingTypeOK, prod
  <1>2. PlaceSound'
    BY DEF GetTail, PlaceSound, prod
  <1>3. ReadSound'
    BY DEF GetTail, ReadSound, ReadFlat, ReadWrapped, ReadRestart, RingTypeOK, prod
  <1> QED  BY <1>1, <1>2, <1>3

\* The consumer reads a size, or starts over.
LEMMA GetPeekKeepsInv ==
    ASSUME PointersInv, GetPeek
    PROVE  PointersInv'
  <1> USE RingAssumption DEF PointersInv
  <1>1. SizeWord(buf[ch]) \in 0..N
    BY SizeWordType DEF RingTypeOK
  <1>2. RingTypeOK'
    <2>1. CASE buf[ch].kind = "tombstone" /\ ch < ct
      BY <2>1 DEF GetPeek, RingTypeOK, prod
    <2>2. CASE buf[ch].kind = "tombstone" /\ ~(ch < ct)
      BY <2>2 DEF GetPeek, RingTypeOK, prod
    <2>3. CASE buf[ch].kind # "tombstone"
      BY <1>1, <2>3 DEF GetPeek, RingTypeOK, prod
    <2> QED  BY <2>1, <2>2, <2>3
  <1>3. PlaceSound'
    BY DEF GetPeek, PlaceSound, prod
  <1>4. ReadSound'
    BY DEF GetPeek, ReadSound, ReadFlat, ReadWrapped, ReadRestart, RingTypeOK, prod
  <1> QED  BY <1>2, <1>3, <1>4

\* The consumer takes the tail again.
LEMMA GetRepeekKeepsInv ==
    ASSUME PointersInv, GetRepeek
    PROVE  PointersInv'
  <1> USE RingAssumption DEF PointersInv
  <1>1. SizeWord(buf[0]) \in 0..N
    BY SizeWordType DEF RingTypeOK
  <1>2. RingTypeOK'
    BY <1>1 DEF GetRepeek, RingTypeOK, prod
  <1>3. PlaceSound'
    BY DEF GetRepeek, PlaceSound, prod
  <1>4. ReadSound'
    BY DEF GetRepeek, ReadSound, ReadFlat, ReadWrapped, ReadRestart, RingTypeOK, prod
  <1> QED  BY <1>2, <1>3, <1>4

\* The checks of the size bound what is read.
LEMMA GetRespKeepsInv ==
    ASSUME PointersInv, GetResp
    PROVE  PointersInv'
  <1> USE RingAssumption DEF PointersInv
  <1>1. RingTypeOK'
    BY DEF GetResp, RingTypeOK, prod
  <1>2. PlaceSound'
    BY DEF GetResp, PlaceSound, prod
  <1>3. ReadSound'
    <2>1. CASE cpc' = "idle"
      BY <2>1 DEF ReadSound
    <2>2. CASE cpc' = "sethead"
      <3>a. ct \in 0..N /\ ch \in 0..N /\ size \in 0..N
        BY DEF RingTypeOK
      <3>b. ~(size > N - ch) /\ ~(size > FromTail(ct, ch))
        BY <2>2 DEF GetResp
      <3>c. FromTail(ct, ch) \in Nat /\ (ct >= ch => FromTail(ct, ch) = ct - ch)
        BY <3>a, FromTailValue
      <3>1. ch + size <= N
        BY <3>a, <3>b
      <3>2. ct >= ch => ch + size <= ct
        BY <3>a, <3>b, <3>c
      <3>3. ReadFlat \/ ReadWrapped \/ ReadRestart
        BY DEF GetResp, ReadSound
      <3> QED  BY <2>2, <3>1, <3>2, <3>3 DEF GetResp, ReadSound, ReadFlat,
                  ReadWrapped, ReadRestart, RingTypeOK, prod
    <2> QED  BY <2>1, <2>2 DEF GetResp
  <1> QED  BY <1>1, <1>2, <1>3

\* The head moves no further than the tail.
LEMMA GetSetHeadKeepsInv ==
    ASSUME PointersInv, GetSetHead
    PROVE  PointersInv'
  <1> USE RingAssumption DEF PointersInv
  <1>1. ReadFlat \/ ReadWrapped \/ ReadRestart
    BY DEF GetSetHead, ReadSound
  <1>2. /\ head' = ch + size /\ head' \in 0..N
        /\ UNCHANGED <<buf, tail, ppc, pkg, sent, reserve>>
    BY <1>1 DEF GetSetHead, ReadFlat, ReadWrapped, ReadRestart, RingTypeOK, prod
  <1>3. RingTypeOK'
    BY <1>2 DEF GetSetHead, RingTypeOK
  \* The head moves forward up to the tail or the end, or starts over.
  <1>4. \/ head' >= head /\ head' <= tail
        \/ head' >= head /\ tail < head
        \/ tail < head /\ head' <= tail
    BY <1>1, <1>2 DEF GetSetHead, ReadFlat, ReadWrapped, ReadRestart, RingTypeOK
  <1>5. PlaceSound'
    <2> SUFFICES ASSUME ppc # "idle" PROVE PlaceSound'
      BY <1>2 DEF PlaceSound
    <2>1. pkg \in Message
      BY DEF RingTypeOK
    <2>2. pkg.at \in 0..N-1 /\ pkg.size \in 1..N
      BY <2>1 DEF Message
    <2>3. tail \in 0..N /\ head \in 0..N
      BY DEF RingTypeOK
    <2> QED  BY <1>2, <1>4, <2>2, <2>3 DEF PlaceSound
  <1>6. ReadSound'
    BY DEF GetSetHead, ReadSound
  <1> QED  BY <1>3, <1>5, <1>6

\* The pointers survive every step of either end.
LEMMA PointersInvNext == PointersInv /\ [RingNext]_ringVars => PointersInv'
  <1> SUFFICES ASSUME PointersInv, [RingNext]_ringVars PROVE PointersInv'
    OBVIOUS
  <1>1. ASSUME NEW sz \in Sizes, SendCheck(sz) PROVE PointersInv'
    BY <1>1, SendCheckKeepsInv
  <1>2. CASE SendCopy
    BY <1>2, SendCopyKeepsInv
  <1>3. CASE SendPublish
    BY <1>3, SendPublishKeepsInv
  <1>4. CASE GetTail
    BY <1>4, GetTailKeepsInv
  <1>5. CASE GetPeek
    BY <1>5, GetPeekKeepsInv
  <1>6. CASE GetRepeek
    BY <1>6, GetRepeekKeepsInv
  <1>7. CASE GetResp
    BY <1>7, GetRespKeepsInv
  <1>8. CASE GetSetHead
    BY <1>8, GetSetHeadKeepsInv
  <1>9. CASE UNCHANGED ringVars
    BY <1>9 DEF ringVars, prod, cons, PointersInv, RingTypeOK, PlaceSound, ReadSound,
       ReadFlat, ReadWrapped, ReadRestart
  <1> QED  BY <1>1, <1>2, <1>3, <1>4, <1>5, <1>6, <1>7, <1>8, <1>9
           DEF RingNext, Producer, Consumer

\* A step that writes the ring writes no word that is still to be read.
LEMMA StepOverwritesNothing ==
    ASSUME PointersInv, [RingNext]_ringVars
    PROVE  \A i \in 0..N-1 : buf'[i] # buf[i] => ~Unread(i)
  <1> USE RingAssumption DEF PointersInv
  <1> SUFFICES ASSUME NEW i \in 0..N-1, buf'[i] # buf[i] PROVE ~Unread(i)
    OBVIOUS
  <1>1. ASSUME NEW sz \in Sizes, SendCheck(sz) PROVE ~Unread(i)
    BY <1>1 DEF SendCheck, Wraps, Unread, RingTypeOK
  <1>2. CASE SendCopy
    <2>1. pkg.at \in 0..N-1 /\ pkg.size \in 1..N
      BY <1>2 DEF SendCopy, RingTypeOK, Message
    <2>2. i \in pkg.at .. pkg.at + pkg.size - 1
      BY <1>2 DEF SendCopy, RingTypeOK
    <2>3. tail \in 0..N /\ head \in 0..N /\ ppc # "idle"
      BY <1>2 DEF SendCopy, RingTypeOK
    <2> QED  BY <2>1, <2>2, <2>3 DEF PlaceSound, Unread
  <1>3. CASE SendPublish \/ Consumer \/ UNCHANGED ringVars
    BY <1>3 DEF SendPublish, Consumer, GetTail, GetPeek, GetRepeek, GetResp,
       GetSetHead, ringVars
  <1> QED  BY <1>1, <1>2, <1>3 DEF RingNext, Producer

-----------------------------------------------------------------------------
(* The content of the ring                                                 *)

\* The u32 difference when the tail is behind: it wraps to more than a ring.
LEMMA FromTailBehind ==
    ASSUME NEW t \in 0..N, NEW h \in 0..N, t < h
    PROVE  FromTail(t, h) = t - h + U32Words
  BY RingAssumption DEF FromTail

\* The held packages and their numbers.
LEMMA HeldType ==
    ASSUME RingTypeOK, ReadsFirst, ReceivedPrefix
    PROVE  /\ Len(sent) \in Nat /\ Len(rcvd) \in Nat /\ First \in Nat \ {0}
           /\ \A k \in Held : k \in 1..Len(sent) /\ k >= First
           /\ \A k \in 1..Len(sent) : /\ sent[k] \in Message
                                      /\ sent[k].at \in 0..N-1 /\ sent[k].size \in 1..N
  <1>1. Len(sent) \in Nat /\ Len(rcvd) \in Nat
    BY DEF RingTypeOK, ReceivedPrefix
  <1>2. First \in Nat \ {0}
    BY <1>1 DEF First, ReadsFirst
  <1>3. \A k \in 1..Len(sent) : sent[k] \in Message
    BY DEF RingTypeOK
  <1>4. \A m \in Message : m.at \in 0..N-1 /\ m.size \in 1..N
    BY RingAssumption DEF Message
  <1> QED  BY <1>1, <1>2, <1>3, <1>4 DEF Held

\* The words of a held package are words the consumer may still read.
LEMMA HeldUnread ==
    ASSUME RingInv, NEW k \in Held, NEW i \in 0 .. sent[k].size - 1
    PROVE  sent[k].at + i \in 0..N-1 /\ Unread(sent[k].at + i)
  <1>1. sent[k].at \in 0..N-1 /\ sent[k].size \in 1..N
    BY HeldType DEF RingInv, PointersInv, ContentInv
  <1>2. End(k) <= N /\ (Flat(k) \/ Wrapped(k))
    BY DEF RingInv, ContentInv, HeldWhole
  <1>3. tail \in 0..N /\ head \in 0..N
    BY DEF RingInv, PointersInv, RingTypeOK
  <1> QED  BY <1>1, <1>2, <1>3, RingAssumption DEF End, Flat, Wrapped, Unread

\* A step that leaves the registers, the consumer and the published packages
\* alone leaves what the ring holds alone: it writes no unread word.
LEMMA HeldKept ==
    ASSUME RingInv, [RingNext]_ringVars,
           UNCHANGED <<tail, head, sent, cpc, ct, ch, size, rcvd, bad>>
    PROVE  /\ HeldWhole' /\ HeldInOrder' /\ HeldLinked' /\ ReadsFirst'
           /\ ReceivedPrefix' /\ ~bad'
  <1>1. \A i \in 0..N-1 : Unread(i) => buf'[i] = buf[i]
    BY StepOverwritesNothing DEF RingInv
  <1>2. /\ Held' = Held /\ First' = First
        /\ \A k : End(k)' = End(k) /\ (Flat(k)' <=> Flat(k)) /\ (Wrapped(k)' <=> Wrapped(k))
    BY DEF Held, First, End, Flat, Wrapped
  <1>3. HeldWhole'
    <2> SUFFICES ASSUME NEW k \in Held
                 PROVE  /\ End(k) <= N /\ (Flat(k) \/ Wrapped(k))
                        /\ \A i \in 0 .. sent[k].size - 1 :
                              buf'[sent[k].at + i] = PkgWord(k, i)
      BY <1>2 DEF HeldWhole
    <2>1. /\ End(k) <= N /\ (Flat(k) \/ Wrapped(k))
          /\ \A i \in 0 .. sent[k].size - 1 : buf[sent[k].at + i] = PkgWord(k, i)
      BY DEF RingInv, ContentInv, HeldWhole
    <2> QED  BY <1>1, <2>1, HeldUnread
  <1>4. HeldInOrder'
    BY <1>2 DEF RingInv, ContentInv, HeldInOrder
  <1>5. HeldLinked'
    <2>1. tail \in 0..N /\ head \in 0..N
      BY DEF RingInv, PointersInv, RingTypeOK
    <2>3. ASSUME NEW k \in Held, k + 1 \in Held, StartsOver(End(k)), Flat(k), Wrapped(k + 1)
          PROVE  StartsOver(End(k))'
      <3>1. sent[k].at \in 0..N-1 /\ sent[k].size \in 1..N /\ End(k) <= N
        BY HeldType DEF RingInv, PointersInv, ContentInv, HeldWhole
      <3>2. End(k) \in 0..N /\ head <= End(k) /\ tail < head
        BY <2>1, <2>3, <3>1, RingAssumption DEF Flat, Wrapped, End
      <3>3. StartsOver(End(k)) => (End(k) = N \/ buf'[End(k)] = TOMBSTONE)
        BY <1>1, <2>1, <3>2, RingAssumption DEF StartsOver, Unread
      <3> QED  BY <1>2, <2>3, <3>3 DEF StartsOver
    <2>4. Wrapped(First) /\ StartsOver(head) => StartsOver(head)'
      BY <1>1, <2>1, RingAssumption DEF Wrapped, StartsOver, Unread
    <2>5. HeldLinked
      BY DEF RingInv, ContentInv
    <2>6. \A k \in Held : k + 1 \in Held =>
             \/ sent[k + 1].at = End(k)
             \/ sent[k + 1].at = 0 /\ StartsOver(End(k))' /\ Flat(k) /\ Wrapped(k + 1)
      BY <2>3, <2>5 DEF HeldLinked
    <2>7. Held # {} =>
             /\ tail = End(Len(sent))
             /\ \/ sent[First].at = head
                \/ sent[First].at = 0 /\ StartsOver(head)' /\ Wrapped(First)
      BY <2>4, <2>5 DEF HeldLinked
    <2>8. Held = {} => head = tail
      BY <2>5 DEF HeldLinked
    <2> QED  BY <1>2, <2>6, <2>7, <2>8 DEF HeldLinked
  <1>6. ReadsFirst'
    BY <1>2 DEF RingInv, ContentInv, ReadsFirst
  <1> QED  BY <1>3, <1>4, <1>5, <1>6 DEF RingInv, ContentInv, ReceivedPrefix

\* The tombstone, if one is needed, leads to the place of the package.
LEMMA SendCheckKeepsContent ==
    ASSUME RingInv, NEW sz \in Sizes, SendCheck(sz)
    PROVE  ContentInv'
  <1>1. /\ HeldWhole' /\ HeldInOrder' /\ HeldLinked' /\ ReadsFirst'
        /\ ReceivedPrefix' /\ ~bad'
    <2>1. UNCHANGED <<tail, head, sent, cpc, ct, ch, size, rcvd, bad>> /\ [RingNext]_ringVars
      BY DEF SendCheck, cons, RingNext
    <2> QED  BY <2>1, HeldKept
  <1>2. PendingWhole'
    <2>1. buf \in [0..N-1 -> Word] /\ tail \in 0..N
      BY DEF RingInv, PointersInv, RingTypeOK
    <2>2. ppc' = "copy" /\ UNCHANGED tail
      BY DEF SendCheck
    <2>3. pkg'.at # tail => Wraps(sz)
      BY DEF SendCheck
    <2>4. Wraps(sz) => tail = N \/ buf'[tail] = TOMBSTONE
      BY <2>1, RingAssumption DEF SendCheck
    <2> QED  BY <2>2, <2>3, <2>4 DEF PendingWhole, StartsOver
  <1> QED  BY <1>1, <1>2 DEF ContentInv

\* Copying a package disturbs neither the held ones nor the tombstone.
LEMMA SendCopyKeepsContent ==
    ASSUME RingInv, SendCopy
    PROVE  ContentInv'
  <1>1. /\ HeldWhole' /\ HeldInOrder' /\ HeldLinked' /\ ReadsFirst'
        /\ ReceivedPrefix' /\ ~bad'
    <2>1. UNCHANGED <<tail, head, sent, cpc, ct, ch, size, rcvd, bad>> /\ [RingNext]_ringVars
      BY DEF SendCopy, cons, RingNext, Producer
    <2> QED  BY <2>1, HeldKept
  <1>2. PendingWhole'
    <2>1. /\ buf \in [0..N-1 -> Word] /\ tail \in 0..N /\ head \in 0..N
          /\ ppc = "copy" /\ pkg \in Message
      BY DEF SendCopy, RingInv, PointersInv, RingTypeOK
    <2>2. pkg.at \in 0..N-1 /\ pkg.size \in 1..N
      BY <2>1, RingAssumption DEF Message
    <2>3. UNCHANGED <<tail, pkg, sent>>
      BY DEF SendCopy
    <2>4. /\ pkg.at + pkg.size <= N
          /\ pkg.at # tail => tail \notin pkg.at .. pkg.at + pkg.size - 1
      BY <2>1, <2>2 DEF RingInv, PointersInv, PlaceSound
    <2>5. pkg.at # tail => StartsOver(tail)'
      <3>1. pkg.at # tail => StartsOver(tail)
        BY <2>1 DEF RingInv, ContentInv, PendingWhole
      <3>2. pkg.at # tail /\ tail # N => buf'[tail] = buf[tail]
        BY <2>1, <2>4, RingAssumption DEF SendCopy
      <3> QED  BY <2>3, <3>1, <3>2 DEF StartsOver
    <2>6. \A i \in 0 .. pkg.size - 1 : buf'[pkg.at + i] = PkgWord(Len(sent) + 1, i)
      <3> SUFFICES ASSUME NEW i \in 0 .. pkg.size - 1
                   PROVE  buf'[pkg.at + i] = PkgWord(Len(sent) + 1, i)
        OBVIOUS
      <3>1. /\ pkg.at + i \in 0..N-1 /\ pkg.at + i \in pkg.at .. pkg.at + pkg.size - 1
            /\ (pkg.at + i) - pkg.at = i
        BY <2>2, <2>4, RingAssumption
      <3> QED  BY <3>1 DEF SendCopy
    <2> QED  BY <2>3, <2>5, <2>6 DEF PendingWhole
  <1> QED  BY <1>1, <1>2 DEF ContentInv

\* The published package is the last one held, behind all others.
LEMMA SendPublishKeepsContent ==
    ASSUME RingInv, SendPublish
    PROVE  ContentInv'
  <1>1. /\ RingTypeOK /\ PlaceSound /\ HeldWhole /\ HeldInOrder /\ HeldLinked /\ PendingWhole
        /\ ReadsFirst /\ ReceivedPrefix /\ ~bad
    BY DEF RingInv, PointersInv, ContentInv
  <1>n. PICK n \in Nat : n = Len(sent) + 1
    BY <1>1 DEF RingTypeOK
  <1>2. /\ Len(sent) \in Nat /\ First \in Nat \ {0} /\ First <= n
        /\ \A k \in Held : k \in 1..Len(sent) /\ k >= First
        /\ \A k \in 1..Len(sent) : sent[k].at \in 0..N-1 /\ sent[k].size \in 1..N
    <2>1. First <= n
      BY <1>1, <1>n, HeldType DEF First, ReceivedPrefix
    <2> QED  BY <1>1, <2>1, HeldType
  <1>3. /\ ppc = "publish" /\ pkg \in Message /\ pkg.at \in 0..N-1 /\ pkg.size \in 1..N
        /\ tail \in 0..N /\ head \in 0..N
    BY <1>1, RingAssumption DEF SendPublish, RingTypeOK, Message
  <1>4. /\ UNCHANGED <<buf, head, cpc, ct, ch, size, rcvd, bad>>
        /\ tail' = pkg.at + pkg.size /\ ppc' = "idle"
        /\ Len(sent') = n /\ sent'[n] = pkg /\ \A k \in 1..Len(sent) : sent'[k] = sent[k]
    BY <1>1, <1>n, <1>3 DEF SendPublish, cons, RingTypeOK
  <1>5. /\ First' = First /\ Held' = Held \cup {n} /\ n \notin Held
        /\ \A k \in Held : End(k)' = End(k)
        /\ End(n)' = tail'
    BY <1>2, <1>n, <1>4 DEF First, Held, End
  <1>6. \/ pkg.at = tail /\ tail >= head
        \/ pkg.at = tail /\ tail' < head
        \/ pkg.at = 0 /\ pkg.at # tail /\ tail >= head /\ tail' < head
    BY <1>1, <1>3, <1>4 DEF PlaceSound
  <1>7. tail' \in 0..N
    BY <1>1, <1>3, <1>4 DEF PlaceSound
  \* A held package stays on its side of the wrap, before the new one.
  <1>8. ASSUME NEW k \in Held
        PROVE  /\ Flat(k)' <=> Flat(k)
               /\ Wrapped(k)' <=> Wrapped(k)
               /\ (Flat(k) <=> Flat(n)') => End(k) <= pkg.at
               /\ Wrapped(k) => ~Flat(n)'
    <2>1. /\ sent[k].at \in 0..N-1 /\ sent[k].size \in 1..N
          /\ sent'[k] = sent[k] /\ End(k)' = End(k) /\ End(k) = sent[k].at + sent[k].size
      BY <1>2, <1>4, <1>5 DEF End
    <2>2. Flat(k) \/ Wrapped(k)
      BY <1>1 DEF HeldWhole
    <2>3. /\ Flat(k)' <=> head <= sent[k].at /\ (head <= tail' => End(k) <= tail')
          /\ Wrapped(k)' <=> tail' < head /\ End(k) <= tail'
          /\ Flat(n)' <=> head <= pkg.at /\ (head <= tail' => tail' <= tail')
          /\ Wrapped(n)' <=> tail' < head /\ tail' <= tail'
      BY <1>4, <1>5, <2>1 DEF Flat, Wrapped
    <2>4. /\ Flat(k) <=> head <= sent[k].at /\ (head <= tail => End(k) <= tail)
          /\ Wrapped(k) <=> tail < head /\ End(k) <= tail
      BY DEF Flat, Wrapped
    <2>5. tail' = pkg.at + pkg.size /\ End(k) \in Nat
      BY <1>4, <2>1
    <2>6. CASE pkg.at = tail /\ tail >= head
      BY <1>3, <1>7, <2>1, <2>2, <2>3, <2>4, <2>5, <2>6
    <2>7. CASE pkg.at = tail /\ tail' < head
      BY <1>3, <1>7, <2>1, <2>2, <2>3, <2>4, <2>5, <2>7
    <2>8. CASE pkg.at = 0 /\ pkg.at # tail /\ tail >= head /\ tail' < head
      BY <1>3, <1>7, <2>1, <2>2, <2>3, <2>4, <2>5, <2>8
    <2> QED  BY <1>6, <2>6, <2>7, <2>8
  <1>9. Flat(n)' \/ Wrapped(n)'
    BY <1>3, <1>4, <1>5, <1>6, <1>7, RingAssumption DEF Flat, Wrapped
  <1>10. HeldWhole'
    <2>1. ASSUME NEW k \in Held
          PROVE  /\ End(k)' <= N /\ (Flat(k)' \/ Wrapped(k)')
                 /\ \A i \in 0 .. sent'[k].size - 1 : buf'[sent'[k].at + i] = PkgWord(k, i)
      BY <1>1, <1>2, <1>4, <1>5, <1>8 DEF HeldWhole
    <2>2. /\ End(n)' <= N /\ (Flat(n)' \/ Wrapped(n)')
          /\ \A i \in 0 .. sent'[n].size - 1 : buf'[sent'[n].at + i] = PkgWord(n, i)
      BY <1>1, <1>n, <1>3, <1>4, <1>5, <1>7, <1>9 DEF PendingWhole
    <2> QED  BY <1>5, <2>1, <2>2 DEF HeldWhole
  <1>11. HeldInOrder'
    <2> SUFFICES ASSUME NEW k \in Held', NEW l \in Held', k < l
                 PROVE  \/ Flat(k)' /\ Wrapped(l)'
                        \/ (Flat(k)' <=> Flat(l)') /\ End(k)' <= sent'[l].at
      BY DEF HeldInOrder
    <2>1. k \in Held
      BY <1>2, <1>n, <1>5
    <2>2. CASE l \in Held
      BY <1>1, <1>2, <1>4, <1>5, <1>8, <2>1, <2>2 DEF HeldInOrder
    <2>3. CASE l = n
      BY <1>1, <1>4, <1>5, <1>8, <1>9, <2>1, <2>3 DEF HeldWhole
    <2> QED  BY <1>5, <2>2, <2>3
  <1>12. HeldLinked'
    <2>1. pkg.at = tail \/ (pkg.at = 0 /\ StartsOver(tail))
      BY <1>1, <1>3, <1>6 DEF PendingWhole
    <2>2. ASSUME NEW k \in Held', k + 1 \in Held'
          PROVE  \/ sent'[k + 1].at = End(k)'
                 \/ sent'[k + 1].at = 0 /\ StartsOver(End(k))' /\ Flat(k)' /\ Wrapped(k + 1)'
      <3>1. k \in Held
        BY <1>2, <1>n, <1>5, <2>2
      <3>2. CASE k + 1 \in Held
        <4>1. \/ sent[k + 1].at = End(k)
              \/ sent[k + 1].at = 0 /\ StartsOver(End(k)) /\ Flat(k) /\ Wrapped(k + 1)
          BY <1>1, <3>1, <3>2 DEF HeldLinked
        <4>2. sent'[k + 1] = sent[k + 1]
          BY <1>2, <1>4, <3>2
        <4>3. StartsOver(End(k))' <=> StartsOver(End(k))
          BY <1>4, <1>5, <3>1 DEF StartsOver
        <4> QED  BY <1>5, <1>8, <3>1, <3>2, <4>1, <4>2, <4>3
      <3>3. CASE k + 1 = n
        <4>1. k = Len(sent) /\ End(k) = tail
          BY <1>1, <1>2, <1>n, <3>1, <3>3 DEF HeldLinked
        <4>2. sent'[k + 1] = pkg /\ End(k)' = tail
          BY <1>4, <1>5, <3>1, <3>3, <4>1
        <4>3. CASE pkg.at = tail
          BY <4>2, <4>3
        <4>4. CASE pkg.at = 0 /\ pkg.at # tail
          <5>1. StartsOver(End(k))'
            BY <1>4, <2>1, <4>2, <4>4 DEF StartsOver
          <5>2. tail >= head /\ tail' < head
            BY <1>3, <1>6, <4>4
          <5>3. Flat(k)' /\ Wrapped(n)'
            <6>1. Flat(k) \/ Wrapped(k)
              BY <1>1, <3>1 DEF HeldWhole
            <6>2. ~Wrapped(k)
              BY <1>3, <5>2 DEF Wrapped
            <6>3. ~Flat(n)'
              BY <1>3, <1>4, <1>7, <4>4, <5>2 DEF Flat
            <6> QED  BY <1>8, <1>9, <3>1, <6>1, <6>2, <6>3
          <5> QED  BY <3>3, <4>2, <4>4, <5>1, <5>3
        <4> QED  BY <2>1, <4>3, <4>4
      <3> QED  BY <1>5, <2>2, <3>2, <3>3
    <2>3. Held' # {} /\ tail' = End(Len(sent))'
      BY <1>4, <1>5
    <2>4. \/ sent'[First].at = head
          \/ sent'[First].at = 0 /\ StartsOver(head) /\ Wrapped(First)'
      <3>1. CASE Held = {}
        <4>1. First = n /\ head = tail
          BY <1>1, <1>2, <1>n, <3>1 DEF HeldLinked, Held
        <4>2. pkg.at # tail => Wrapped(n)'
          BY <1>3, <1>4, <1>6, <1>9, <4>1 DEF Flat
        <4> QED  BY <1>4, <1>5, <2>1, <4>1, <4>2 DEF Wrapped, End
      <3>2. CASE Held # {}
        <4>1. First \in Held
          BY <1>2, <3>2 DEF Held
        <4>2. /\ \/ sent[First].at = head
                 \/ sent[First].at = 0 /\ StartsOver(head) /\ Wrapped(First)
              /\ sent'[First] = sent[First] /\ First' = First
          BY <1>1, <1>2, <1>4, <1>5, <3>2, <4>1 DEF HeldLinked
        <4>3. PICK f \in Held : f = First
          BY <4>1
        <4>4. Wrapped(f) <=> Wrapped(f)'
          BY <1>8
        <4>5. Wrapped(First) => Wrapped(First)'
          BY <4>2, <4>3, <4>4 DEF Wrapped, End
        <4> QED  BY <4>2, <4>5
      <3> QED  BY <3>1, <3>2
    <2>5. StartsOver(head)' <=> StartsOver(head)
      BY <1>4 DEF StartsOver
    <2> QED  BY <1>4, <1>5, <2>2, <2>3, <2>4, <2>5 DEF HeldLinked
  <1>13. PendingWhole'
    BY <1>4 DEF PendingWhole
  <1>14. ReadsFirst'
    <2>1. cpc # "idle" => First \in 1 .. Len(sent) /\ First \in Held
      BY <1>1, <1>2 DEF ReadsFirst, Held
    <2>2. cpc # "idle" => sent'[First] = sent[First] /\ First \in 1 .. n
      BY <1>2, <1>n, <1>4, <2>1
    <2>3. cpc \in {"peek", "check"} => \E m \in Held' : ct = End(m)'
      BY <1>1, <1>5 DEF ReadsFirst
    <2> QED  BY <1>1, <1>4, <1>5, <2>2, <2>3 DEF ReadsFirst
  <1>15. ReceivedPrefix' /\ ~bad'
    BY <1>1, <1>2, <1>n, <1>4, HeldType DEF ReceivedPrefix
  <1> QED  BY <1>10, <1>11, <1>12, <1>13, <1>14, <1>15 DEF ContentInv

\* A tail other than the head is the end of a held package.
LEMMA GetTailKeepsContent ==
    ASSUME RingInv, GetTail
    PROVE  ContentInv'
  <1>1. /\ HeldWhole /\ HeldInOrder /\ HeldLinked /\ PendingWhole /\ ReceivedPrefix /\ ~bad
        /\ RingTypeOK /\ ReadsFirst
    BY DEF RingInv, PointersInv, ContentInv
  <1>2. /\ UNCHANGED <<buf, tail, head, ppc, pkg, sent, rcvd, bad>>
        /\ cpc = "idle" /\ cpc' = "peek" /\ tail # head
        /\ ct' = tail /\ ch' = IF head = N THEN 0 ELSE head
    BY DEF GetTail, prod
  <1>3. /\ First' = First /\ Held' = Held
        /\ \A k : End(k)' = End(k) /\ (Flat(k)' <=> Flat(k)) /\ (Wrapped(k)' <=> Wrapped(k))
    BY <1>2 DEF First, Held, End, Flat, Wrapped
  <1>4. Held # {} /\ First \in 1 .. Len(sent) /\ Len(sent) \in Held
    BY <1>1, <1>2, HeldType DEF HeldLinked, Held
  <1>5. HeldWhole' /\ HeldInOrder' /\ PendingWhole' /\ ReceivedPrefix' /\ ~bad'
    BY <1>1, <1>2, <1>3 DEF HeldWhole, HeldInOrder, PendingWhole, StartsOver, ReceivedPrefix
  <1>6. HeldLinked'
    BY <1>1, <1>2, <1>3 DEF HeldLinked, StartsOver
  <1>7. ReadsFirst'
    BY <1>1, <1>2, <1>3, <1>4 DEF ReadsFirst, HeldLinked
  <1> QED  BY <1>5, <1>6, <1>7 DEF ContentInv

\* A look at the size leaves the content alone.
LEMMA PeekKeeps ==
    ASSUME RingInv, UNCHANGED <<buf, tail, head, ppc, pkg, sent, rcvd, bad>>,
           cpc \in {"peek", "repeek"}, cpc' \in {"repeek", "check"},
           First \in 1 .. Len(sent), ch' = sent[First].at,
           cpc' = "check" => size' = sent[First].size /\ \E m \in Held : ct' = End(m)
    PROVE  ContentInv'
  <1>1. /\ HeldWhole /\ HeldInOrder /\ HeldLinked /\ PendingWhole /\ ReceivedPrefix /\ ~bad
    BY DEF RingInv, ContentInv
  <1>3. /\ First' = First /\ Held' = Held
        /\ \A k : End(k)' = End(k) /\ (Flat(k)' <=> Flat(k)) /\ (Wrapped(k)' <=> Wrapped(k))
    BY DEF First, Held, End, Flat, Wrapped
  <1>5. HeldWhole' /\ HeldInOrder' /\ PendingWhole' /\ ReceivedPrefix' /\ ~bad'
    BY <1>1, <1>3 DEF HeldWhole, HeldInOrder, PendingWhole, StartsOver, ReceivedPrefix
  <1>6. HeldLinked'
    BY <1>1, <1>3 DEF HeldLinked, StartsOver
  <1>7. ReadsFirst'
    BY <1>3 DEF ReadsFirst
  <1> QED  BY <1>5, <1>6, <1>7 DEF ContentInv

\* The first word of the first held package, and what it is not.
LEMMA FirstWord ==
    ASSUME RingInv, Held # {}
    PROVE  /\ First \in Held /\ First \in 1 .. Len(sent)
           /\ buf[sent[First].at] = PkgWord(First, 0)
           /\ buf[sent[First].at].kind = "pkg" /\ buf[sent[First].at].msg = First
           /\ SizeWord(buf[sent[First].at]) = sent[First].size
  <1>1. /\ First \in Held /\ First \in 1 .. Len(sent) /\ Len(sent) \in Nat
        /\ sent[First].at \in 0..N-1 /\ sent[First].size \in 1..N
    BY HeldType DEF RingInv, PointersInv, ContentInv, Held
  <1>2. \A i \in 0 .. sent[First].size - 1 : buf[sent[First].at + i] = PkgWord(First, i)
    BY <1>1 DEF RingInv, ContentInv, HeldWhole
  <1>3. 0 \in 0 .. sent[First].size - 1 /\ sent[First].at + 0 = sent[First].at
    BY <1>1, RingAssumption
  <1>4. buf[sent[First].at] = PkgWord(First, 0)
    BY <1>2, <1>3
  <1> QED  BY <1>1, <1>4 DEF PkgWord, SizeWord

\* The word at the head is the first package's size, or a tombstone above
\* every tail the consumer can have read.
LEMMA GetPeekKeepsContent ==
    ASSUME RingInv, GetPeek
    PROVE  ContentInv'
  <1>1. /\ HeldWhole /\ HeldInOrder /\ HeldLinked /\ PendingWhole /\ ReceivedPrefix /\ ~bad
        /\ RingTypeOK /\ ReadsFirst
    BY DEF RingInv, PointersInv, ContentInv
  <1>2. /\ UNCHANGED <<buf, tail, head, ppc, pkg, sent, ct, rcvd>>
        /\ cpc = "peek" /\ First \in 1 .. Len(sent) /\ ch = IF head = N THEN 0 ELSE head
    BY <1>1 DEF GetPeek, prod, ReadsFirst
  <1>3. Held # {}
    BY <1>1, <1>2, HeldType DEF Held
  <1>4. PICK m \in Held : ct = End(m)
    BY <1>1, <1>2 DEF ReadsFirst
  <1>5. tail \in 0..N /\ head \in 0..N /\ sent[First].at \in 0..N-1 /\ First \in Held
    BY <1>1, <1>2, <1>3, HeldType, FirstWord DEF RingTypeOK
  <1>6. CASE sent[First].at = ch
    <2>1. cpc' = "check" /\ size' = sent[First].size /\ UNCHANGED <<ch, bad>>
      BY <1>3, <1>6, FirstWord DEF GetPeek
    <2> QED  BY <1>1, <1>2, <1>4, <1>6, <2>1, PeekKeeps
  <1>7. CASE sent[First].at # ch
    \* The head stands on the tombstone, and the tail is below it.
    <2>1. sent[First].at = 0 /\ StartsOver(head) /\ Wrapped(First) /\ head # N
      BY <1>1, <1>2, <1>3, <1>5, <1>7, RingAssumption DEF HeldLinked
    <2>2. ch = head /\ buf[ch] = TOMBSTONE
      BY <1>2, <2>1 DEF StartsOver
    <2>3. Wrapped(m)
      <3>1. Flat(m) \/ Wrapped(m)
        BY <1>1, <1>4 DEF HeldWhole
      <3>2. ~Flat(First)
        BY <1>5, <2>1 DEF Flat, Wrapped
      <3>3. m >= First /\ m \in Nat /\ First \in Nat
        BY <1>1, <1>4, HeldType
      <3>4. CASE m > First
        BY <1>1, <1>4, <1>5, <3>1, <3>2, <3>3, <3>4 DEF HeldInOrder
      <3> QED  BY <2>1, <3>3, <3>4
    <2>4. ct < ch
      BY <1>4, <1>5, <2>2, <2>3, HeldType, <1>1 DEF Wrapped, End
    <2>5. cpc' = "repeek" /\ ch' = 0 /\ UNCHANGED <<size, bad>>
      BY <1>1, <1>5, <2>2, <2>4 DEF GetPeek, TOMBSTONE, RingTypeOK
    <2> QED  BY <1>1, <1>2, <1>4, <2>1, <2>5, PeekKeeps
  <1> QED  BY <1>6, <1>7

\* After a tombstone the first package is at the start of the ring.
LEMMA GetRepeekKeepsContent ==
    ASSUME RingInv, GetRepeek
    PROVE  ContentInv'
  <1>1. /\ HeldLinked /\ RingTypeOK /\ ReadsFirst /\ ReceivedPrefix /\ ReadSound
    BY DEF RingInv, PointersInv, ContentInv
  <1>2. /\ UNCHANGED <<buf, tail, head, ppc, pkg, sent, rcvd, ch, bad>>
        /\ cpc = "repeek" /\ First \in 1 .. Len(sent) /\ ch = sent[First].at
        /\ cpc' = "check" /\ ct' = tail /\ size' = SizeWord(buf[0])
    BY <1>1 DEF GetRepeek, prod, ReadsFirst
  <1>3. Held # {} /\ Len(sent) \in Held /\ tail = End(Len(sent))
    BY <1>1, <1>2, HeldType DEF Held, HeldLinked
  <1>4. size' = sent[First].size
    BY <1>1, <1>2, <1>3, FirstWord DEF ReadSound, ReadRestart
  <1> QED  BY <1>1, <1>2, <1>3, <1>4, PeekKeeps

\* The size passes both checks and the package is read as it was sent.
LEMMA GetRespKeepsContent ==
    ASSUME RingInv, GetResp
    PROVE  ContentInv'
  <1>1. /\ HeldWhole /\ HeldInOrder /\ HeldLinked /\ PendingWhole /\ ReceivedPrefix /\ ~bad
        /\ RingTypeOK /\ ReadsFirst
    BY DEF RingInv, PointersInv, ContentInv
  <1>2. /\ UNCHANGED <<buf, tail, head, ppc, pkg, sent, ct, ch, size>>
        /\ cpc = "check" /\ First \in 1 .. Len(sent)
        /\ ch = sent[First].at /\ size = sent[First].size
    BY <1>1 DEF GetResp, prod, ReadsFirst
  <1>3. PICK m \in Held : ct = End(m)
    BY <1>1, <1>2 DEF ReadsFirst
  <1>4. /\ First \in Held /\ First = Len(rcvd) + 1 /\ Len(rcvd) \in Nat /\ Len(sent) \in Nat
        /\ ch \in 0..N-1 /\ size \in 1..N /\ ct \in 0..N /\ tail \in 0..N /\ head \in 0..N
        /\ sent[First] \in Message
    BY <1>1, <1>2, HeldType DEF RingTypeOK, Held, First
  <1>5. /\ ch + size <= N
        /\ \A i \in 0 .. size - 1 : buf[ch + i] = PkgWord(First, i)
    BY <1>1, <1>2, <1>4 DEF HeldWhole, End
  <1>6. size <= FromTail(ct, ch)
    <2>1. CASE ct >= ch
      <3>1. ch + size <= ct
        <4>1. m >= First /\ sent[m].at \in 0..N-1 /\ sent[m].size \in 1..N
          BY <1>1, <1>3, HeldType
        <4>2. CASE m = First
          BY <1>2, <1>3, <1>4, <4>2 DEF End
        <4>3. CASE m # First
          <5>1. First < m
            BY <1>3, <1>4, <4>1, <4>3 DEF Held
          <5>2. \/ Flat(First) /\ Wrapped(m)
                \/ End(First) <= sent[m].at
            BY <1>1, <1>3, <1>4, <5>1 DEF HeldInOrder
          <5>3. CASE End(First) <= sent[m].at
            <6>1. End(First) = ch + size /\ ct = sent[m].at + sent[m].size
              BY <1>2, <1>3 DEF End
            <6> QED  BY <1>4, <4>1, <5>3, <6>1, RingAssumption
          <5>4. CASE Flat(First) /\ Wrapped(m)
            BY <1>2, <1>3, <1>4, <2>1, <5>4 DEF Flat, Wrapped
          <5> QED  BY <5>2, <5>3, <5>4
        <4> QED  BY <4>2, <4>3
      <3> QED  BY <1>4, <2>1, <3>1, FromTailValue, RingAssumption
    <2>2. CASE ct < ch
      BY <1>4, <1>5, <2>2, FromTailBehind, RingAssumption
    <2> QED  BY <1>4, <2>1, <2>2, RingAssumption
  <1>7. buf[ch].msg = First
    BY <1>2, <1>4, FirstWord
  <1>8. /\ rcvd' = Append(rcvd, sent[First]) /\ cpc' = "sethead" /\ UNCHANGED bad
    <2>a. ch \in 0..N
      BY <1>4, RingAssumption
    <2>b. FromTail(ct, ch) \in Nat
      BY <1>4, <2>a, FromTailValue
    <2>1. ~(size = 0 \/ size > N - ch \/ size > FromTail(ct, ch))
      BY <1>4, <1>5, <1>6, <2>b, RingAssumption
    <2> QED  BY <1>5, <1>7, <2>1 DEF GetResp
  <1>9. /\ Len(rcvd') = First /\ rcvd' \in Seq(Message)
        /\ \A k \in 1 .. Len(rcvd) : rcvd'[k] = rcvd[k]
        /\ rcvd'[First] = sent[First]
    BY <1>1, <1>4, <1>8 DEF ReceivedPrefix
  <1>10. /\ First' = First /\ Held' = Held
         /\ \A k : End(k)' = End(k) /\ (Flat(k)' <=> Flat(k)) /\ (Wrapped(k)' <=> Wrapped(k))
    BY <1>2, <1>4, <1>8, <1>9 DEF First, Held, End, Flat, Wrapped
  <1>11. HeldWhole' /\ HeldInOrder' /\ PendingWhole' /\ ~bad'
    BY <1>1, <1>2, <1>8, <1>10 DEF HeldWhole, HeldInOrder, PendingWhole, StartsOver
  <1>12. HeldLinked'
    BY <1>1, <1>2, <1>10 DEF HeldLinked, StartsOver
  <1>13. ReadsFirst'
    BY <1>2, <1>8, <1>10 DEF ReadsFirst
  <1>14. ReceivedPrefix'
    <2> SUFFICES ASSUME NEW k \in 1 .. Len(rcvd') PROVE rcvd'[k] = sent'[k]
      BY <1>2, <1>4, <1>9 DEF ReceivedPrefix
    <2>1. k \in 1 .. Len(rcvd) \/ k = First
      BY <1>4, <1>9
    <2> QED  BY <1>1, <1>2, <1>9, <2>1 DEF ReceivedPrefix
  <1> QED  BY <1>11, <1>12, <1>13, <1>14 DEF ContentInv

\* The head moves on to the next package, or to the tail.
LEMMA GetSetHeadKeepsContent ==
    ASSUME RingInv, GetSetHead
    PROVE  ContentInv'
  <1>1. /\ HeldWhole /\ HeldInOrder /\ HeldLinked /\ PendingWhole /\ ReceivedPrefix /\ ~bad
        /\ RingTypeOK /\ ReadsFirst
    BY DEF RingInv, PointersInv, ContentInv
  <1>f. PICK f \in Nat : f = First
    BY <1>1, HeldType
  <1>2. /\ UNCHANGED <<buf, tail, ppc, pkg, sent, rcvd, bad>> /\ cpc' = "idle"
        /\ f \in 1 .. Len(sent) /\ f \in Held /\ head' = End(f)
    BY <1>1, <1>f, HeldType DEF GetSetHead, prod, ReadsFirst, Held, End
  <1>3. /\ Len(sent) \in Nat /\ tail \in 0..N /\ head \in 0..N
        /\ \A k \in Held : k \in 1 .. Len(sent) /\ k >= f
        /\ \A k \in 1 .. Len(sent) : sent[k].at \in 0..N-1 /\ sent[k].size \in 1..N
    BY <1>1, <1>f, HeldType DEF RingTypeOK
  <1>4. First' = f + 1 /\ Held' = Held \ {f}
    BY <1>1, <1>2, <1>3, <1>f DEF First, Held, GetSetHead
  <1>5. /\ Flat(f) \/ Wrapped(f)
        /\ End(f) <= N /\ End(f) = sent[f].at + sent[f].size /\ \A k : End(k)' = End(k)
    BY <1>1, <1>2 DEF HeldWhole, End
  \* What follows the package that is given back stays where it is; once the
  \* head has passed the wrap, the start of the ring is ahead of it again.
  <1>6. ASSUME NEW k \in Held', NEW l \in Held', k < l
        PROVE  \/ Flat(k)' /\ Wrapped(l)'
               \/ (Flat(k)' <=> Flat(l)') /\ End(k)' <= sent'[l].at
    <2>1. /\ k \in Held /\ l \in Held /\ f < k /\ f < l
          /\ sent[k].at \in 0..N-1 /\ sent[k].size \in 1..N
          /\ sent[l].at \in 0..N-1 /\ sent[l].size \in 1..N
      BY <1>2, <1>3, <1>4, <1>6, <1>f
    <2>2. /\ (Flat(f) /\ Wrapped(k)) \/ ((Flat(f) <=> Flat(k)) /\ End(f) <= sent[k].at)
          /\ (Flat(f) /\ Wrapped(l)) \/ ((Flat(f) <=> Flat(l)) /\ End(f) <= sent[l].at)
          /\ (Flat(k) /\ Wrapped(l)) \/ ((Flat(k) <=> Flat(l)) /\ End(k) <= sent[l].at)
          /\ Flat(k) \/ Wrapped(k)
          /\ Flat(l) \/ Wrapped(l)
      BY <1>1, <1>2, <1>6, <2>1 DEF HeldInOrder, HeldWhole
    <2>3. /\ End(k) = sent[k].at + sent[k].size /\ End(l) = sent[l].at + sent[l].size
          /\ sent[f].at \in 0..N-1 /\ sent[f].size \in 1..N
      BY <1>2, <1>3 DEF End
    <2>a. ASSUME NEW x \in {k, l}
          PROVE  /\ Flat(x) <=> head <= sent[x].at /\ (head <= tail => End(x) <= tail)
                 /\ Wrapped(x) <=> tail < head /\ End(x) <= tail
                 /\ Flat(x)' <=> End(f) <= sent[x].at /\ (End(f) <= tail => End(x) <= tail)
                 /\ Wrapped(x)' <=> tail < End(f) /\ End(x) <= tail
      BY <1>2, <1>5 DEF Flat, Wrapped
    <2>b. sent'[l].at = sent[l].at /\ End(k)' = End(k)
      BY <1>2, <1>5
    <2>4. CASE Wrapped(f)
      <3>1. tail < head /\ End(f) <= tail /\ ~Flat(f)
        BY <1>3, <1>5, <2>3, <2>4 DEF Flat, Wrapped
      <3>2. ~Flat(k) /\ ~Flat(l) /\ End(f) <= sent[k].at /\ End(f) <= sent[l].at
        BY <2>2, <3>1
      <3> QED  BY <1>3, <1>5, <2>1, <2>2, <2>3, <2>a, <2>b, <3>1, <3>2, RingAssumption
    <2>5. CASE Flat(f)
      <3>1. head <= sent[f].at
        BY <2>5 DEF Flat
      <3>a. /\ tail \in Nat /\ head \in Nat /\ sent[f].at \in Nat /\ sent[f].size \in Nat \ {0}
            /\ sent[k].at \in Nat /\ sent[k].size \in Nat \ {0}
            /\ sent[l].at \in Nat /\ sent[l].size \in Nat \ {0}
        <4>1. \A x \in 0..N : x \in Nat
          OBVIOUS
        <4>2. \A x \in 0..N-1 : x \in Nat
          OBVIOUS
        <4>3. \A x \in 1..N : x \in Nat \ {0}
          OBVIOUS
        <4> QED  BY <1>3, <2>1, <2>3, <4>1, <4>2, <4>3
      <3>2. head < End(f) /\ End(f) \in Nat /\ End(k) \in Nat /\ End(l) \in Nat
        BY <1>5, <2>3, <3>1, <3>a
      <3>3. ASSUME NEW x \in {k, l} PROVE (Flat(x) => Flat(x)') /\ (Wrapped(x) => Wrapped(x)')
        <4>1. Wrapped(x) => Wrapped(x)'
          BY <2>a, <3>2, <3>a
        <4>2. ~Wrapped(x) => End(f) <= sent[x].at
          BY <2>2
        <4>3. Flat(x) => ~Wrapped(x)
          BY <2>3, <2>a, <3>2, <3>a
        <4> QED  BY <2>a, <3>2, <3>a, <4>1, <4>2, <4>3
      <3>4. ASSUME NEW x \in {k, l} PROVE ~(Flat(x)' /\ Wrapped(x)')
        BY <2>3, <2>a, <3>2, <3>a
      <3> QED  BY <2>2, <2>b, <3>3, <3>4
    <2> QED  BY <1>5, <2>4, <2>5
  <1>7. ASSUME NEW k \in Held'
        PROVE  /\ Flat(k)' \/ Wrapped(k)'
               /\ Flat(f) /\ Wrapped(k) => Wrapped(k)'
    <2>1. /\ k \in Held /\ f < k /\ sent[k].at \in 0..N-1 /\ sent[k].size \in 1..N
      <3>1. k \in Held /\ k # f
        BY <1>4, <1>7
      <3>2. k \in 1 .. Len(sent) /\ k >= f
        BY <1>3, <3>1
      <3> QED  BY <1>3, <1>f, <3>1, <3>2
    <2>2. /\ (Flat(f) /\ Wrapped(k)) \/ ((Flat(f) <=> Flat(k)) /\ End(f) <= sent[k].at)
          /\ Flat(k) \/ Wrapped(k)
      BY <1>1, <1>2, <2>1 DEF HeldInOrder, HeldWhole
    <2> QED  BY <1>2, <1>3, <1>5, <2>1, <2>2 DEF Flat, Wrapped, End
  <1>8. HeldWhole'
    BY <1>1, <1>2, <1>4, <1>5, <1>7 DEF HeldWhole
  <1>9. HeldInOrder'
    BY <1>6 DEF HeldInOrder
  <1>10. HeldLinked'
    <2>1. ASSUME NEW k \in Held', k + 1 \in Held'
          PROVE  \/ sent'[k + 1].at = End(k)'
                 \/ sent'[k + 1].at = 0 /\ StartsOver(End(k))' /\ Flat(k)' /\ Wrapped(k + 1)'
      <3>1. /\ k \in Held /\ k + 1 \in Held /\ k < k + 1 /\ f < k
            /\ sent[k].at \in 0..N-1 /\ sent[k].size \in 1..N
            /\ sent[k + 1].at \in 0..N-1 /\ sent[k + 1].size \in 1..N
        BY <1>2, <1>3, <1>4, <1>f, <2>1
      <3>2. CASE sent[k + 1].at = End(k)
        BY <1>2, <1>5, <3>2
      <3>3. CASE sent[k + 1].at # End(k)
        <4>1. sent[k + 1].at = 0 /\ StartsOver(End(k)) /\ Flat(k) /\ Wrapped(k + 1)
          BY <1>1, <3>1, <3>3 DEF HeldLinked
        <4>2. Flat(f) /\ End(f) <= sent[k].at
          <5>1. (Flat(f) /\ Wrapped(k)) \/ ((Flat(f) <=> Flat(k)) /\ End(f) <= sent[k].at)
            BY <1>1, <1>2, <3>1 DEF HeldInOrder
          <5>2. ~Wrapped(k)
            BY <1>3, <3>1, <4>1, RingAssumption DEF Flat, Wrapped, End
          <5> QED  BY <4>1, <5>1, <5>2
        <4>3. Flat(k)' /\ Wrapped(k + 1)'
          BY <1>2, <1>3, <1>5, <3>1, <4>1, <4>2 DEF Flat, Wrapped, End
        <4> QED  BY <1>2, <1>5, <4>1, <4>3 DEF StartsOver
      <3> QED  BY <3>2, <3>3
    <2>2. Held' = {} => head' = tail'
      <3>1. Held' = {} => f = Len(sent)
        BY <1>2, <1>3, <1>4, <1>f DEF Held
      <3> QED  BY <1>1, <1>2, <3>1 DEF HeldLinked
    <2>3. ASSUME Held' # {}
          PROVE  /\ tail' = End(Len(sent))'
                 /\ \/ sent'[First'].at = head'
                    \/ sent'[First'].at = 0 /\ StartsOver(head)' /\ Wrapped(First)'
      <3>1. f + 1 \in Held /\ f + 1 \in Held' /\ f < f + 1
        BY <1>2, <1>3, <1>4, <1>f, <2>3 DEF Held
      <3>2. tail' = End(Len(sent))'
        BY <1>1, <1>2, <1>5 DEF HeldLinked
      <3>3. CASE sent[f + 1].at = End(f)
        BY <1>2, <1>4, <3>2, <3>3
      <3>4. CASE sent[f + 1].at # End(f)
        <4>1. sent[f + 1].at = 0 /\ StartsOver(End(f)) /\ Flat(f) /\ Wrapped(f + 1)
          BY <1>1, <1>2, <3>1, <3>4 DEF HeldLinked
        <4>2. Wrapped(f + 1)'
          BY <1>7, <3>1, <4>1
        <4>3. Wrapped(First)'
          BY <1>4, <4>2 DEF Wrapped, End
        <4> QED  BY <1>2, <1>4, <3>2, <4>1, <4>3 DEF StartsOver
      <3> QED  BY <3>3, <3>4
    <2> QED  BY <2>1, <2>2, <2>3 DEF HeldLinked
  <1>11. PendingWhole' /\ ReadsFirst' /\ ReceivedPrefix' /\ ~bad'
    BY <1>1, <1>2 DEF PendingWhole, StartsOver, ReadsFirst, ReceivedPrefix
  <1> QED  BY <1>8, <1>9, <1>10, <1>11 DEF ContentInv

\* The pointers and the content survive every step of either end.
LEMMA RingInvNext == RingInv /\ [RingNext]_ringVars => RingInv'
  <1> SUFFICES ASSUME RingInv, [RingNext]_ringVars PROVE RingInv'
    OBVIOUS
  <1>1. PointersInv'
    BY PointersInvNext DEF RingInv
  <1>2. ContentInv'
    <2>1. ASSUME NEW sz \in Sizes, SendCheck(sz) PROVE ContentInv'
      BY <2>1, SendCheckKeepsContent
    <2>2. CASE Producer
      BY <2>2, SendCopyKeepsContent, SendPublishKeepsContent DEF Producer
    <2>3. CASE Consumer
      BY <2>3, GetTailKeepsContent, GetPeekKeepsContent, GetRepeekKeepsContent,
         GetRespKeepsContent, GetSetHeadKeepsContent DEF Consumer
    <2>4. CASE UNCHANGED ringVars
      <3>1. /\ HeldWhole' /\ HeldInOrder' /\ HeldLinked' /\ ReadsFirst'
            /\ ReceivedPrefix' /\ ~bad'
        BY <2>4, HeldKept DEF ringVars, prod, cons
      <3>2. PendingWhole'
        BY <2>4 DEF ringVars, prod, cons, RingInv, ContentInv, PendingWhole, StartsOver
      <3> QED  BY <3>1, <3>2 DEF ContentInv
    <2> QED  BY <2>1, <2>2, <2>3, <2>4 DEF RingNext
  <1> QED  BY <1>1, <1>2 DEF RingInv

\* An empty ring satisfies the invariant.
LEMMA RingInvInit == RingInit => RingInv
  <1> SUFFICES ASSUME RingInit PROVE RingInv
    OBVIOUS
  <1>1. PointersInv
    BY PointersInvInit
  <1>2. Len(sent) = 0 /\ First = 1 /\ Held = {} /\ rcvd \in Seq(Message)
    BY DEF RingInit, First, Held
  <1>3. HeldWhole /\ HeldInOrder /\ HeldLinked
    BY <1>2 DEF RingInit, HeldWhole, HeldInOrder, HeldLinked
  <1>4. PendingWhole /\ ReadsFirst /\ ReceivedPrefix /\ ~bad
    BY <1>2 DEF RingInit, PendingWhole, ReadsFirst, ReceivedPrefix
  <1> QED  BY <1>1, <1>3, <1>4 DEF RingInv, ContentInv

-----------------------------------------------------------------------------
(* The theorems                                                            *)

\* For every ring, the pointers of both ends keep their relation while the
\* other end moves them, and the ring holds every published package that was
\* not yet given back, whole, in order, and reachable from the head.
THEOREM RingSound == RingSpec => []RingInv
  <1> QED  BY RingInvInit, RingInvNext, PTL DEF RingSpec

\* For every ring, the producer never writes a word the consumer has not
\* given back: one look at the head register is enough.
THEOREM NothingOverwritten == RingSpec => NoOverwrite
  <1>1. RingInv /\ [RingNext]_ringVars =>
            [\A i \in 0..N-1 : buf'[i] # buf[i] => ~Unread(i)]_ringVars
    BY StepOverwritesNothing DEF RingInv
  <1> QED  BY <1>1, RingSound, PTL DEF RingSpec, NoOverwrite

\* For every ring, mailbox_get_msg() never takes the content for an error, a
\* full ring never looks empty, and a package of at most half of the ring is
\* accepted whenever it is empty.
THEOREM RingStaysHealthy == RingSpec => []RingHealthy
  <1>1. RingInv => NoFalseError
    BY DEF RingInv, ContentInv, NoFalseError
  <1>2. RingInv => HalfRingFits
    BY RingAssumption DEF RingInv, PointersInv, RingTypeOK, HalfRingFits, NoSpace, Wraps
  <1>3. RingInv => FullIsNotEmpty
    <2> SUFFICES ASSUME RingInv, tail = head, cpc = "idle" PROVE Len(rcvd) = Len(sent)
      BY DEF FullIsNotEmpty
    <2>1. /\ Len(sent) \in Nat /\ Len(rcvd) \in Nat /\ Len(rcvd) <= Len(sent)
          /\ First = Len(rcvd) + 1
      BY HeldType DEF RingInv, PointersInv, ContentInv, ReceivedPrefix, First
    <2>2. \A k \in Held : FALSE
      <3> SUFFICES ASSUME NEW k \in Held PROVE FALSE
        OBVIOUS
      <3>1. sent[k].size \in 1..N /\ sent[k].at \in 0..N-1
        BY HeldType DEF RingInv, PointersInv, ContentInv
      <3>2. 0 \in 0 .. sent[k].size - 1
        BY <3>1, RingAssumption
      <3>3. Unread(sent[k].at + 0) /\ tail \in 0..N /\ head \in 0..N
        BY <3>2, HeldUnread DEF RingInv, PointersInv, RingTypeOK
      <3> QED  BY <3>1, <3>3, RingAssumption DEF Unread
    <2> QED  BY <2>1, <2>2 DEF Held
  <1>4. RingInv => RingHealthy
    BY <1>1, <1>2, <1>3 DEF RingHealthy
  <1> QED  BY <1>4, RingSound, PTL

\* For every ring, what leaves it is what entered it, once each and in order:
\* every step of the ring is a Send, a Recv or a stutter of MsgFifo.
THEOREM RingImplementsFifo == RingSpec => Fifo!Safety
  <1>1. RingInit => Fifo!Init
    BY DEF RingInit, Fifo!Init
  <1>2. ASSUME RingInv, RingInv', [RingNext]_ringVars PROVE [Fifo!Next]_(Fifo!vars)
    <2>1. ASSUME NEW sz \in Sizes, SendCheck(sz) PROVE UNCHANGED Fifo!vars
      BY <2>1 DEF SendCheck, cons, Fifo!vars
    <2>2. CASE SendCopy
      BY <2>2 DEF SendCopy, cons, Fifo!vars
    <2>3. CASE SendPublish
      <3>1. pkg \in Message /\ sent' = Append(sent, pkg) /\ UNCHANGED rcvd
        BY <1>2, <2>3 DEF SendPublish, cons, RingInv, PointersInv, RingTypeOK
      <3> QED  BY <3>1 DEF Fifo!Next, Fifo!Send
    <2>4. CASE GetTail \/ GetPeek \/ GetRepeek \/ GetSetHead \/ UNCHANGED ringVars
      BY <2>4 DEF GetTail, GetPeek, GetRepeek, GetSetHead, ringVars, prod, cons, Fifo!vars
    <2>5. CASE GetResp
      \* The two prefixes differ by the package that was read.
      <3>1. /\ rcvd' = rcvd \/ \E m : rcvd' = Append(rcvd, m)
            /\ UNCHANGED sent
        BY <2>5 DEF GetResp, prod
      <3>2. /\ rcvd \in Seq(Message) /\ rcvd' \in Seq(Message) /\ Len(rcvd') <= Len(sent)
            /\ \A k \in 1 .. Len(rcvd') : rcvd'[k] = sent[k]
        BY <1>2, <3>1 DEF RingInv, ContentInv, ReceivedPrefix
      <3>3. CASE rcvd' # rcvd
        <4>1. PICK m : rcvd' = Append(rcvd, m)
          BY <3>1, <3>3
        <4>2. Len(rcvd') = Len(rcvd) + 1 /\ rcvd'[Len(rcvd) + 1] = m /\ Len(rcvd) \in Nat
          BY <3>2, <4>1
        <4>3. m = sent[Len(rcvd) + 1] /\ Len(rcvd) < Len(sent)
          <5>1. Len(sent) \in Nat
            BY <1>2 DEF RingInv, PointersInv, RingTypeOK
          <5> QED  BY <3>2, <4>2, <5>1
        <4> QED  BY <3>1, <4>1, <4>3 DEF Fifo!Next, Fifo!Recv
      <3> QED  BY <3>1, <3>3 DEF Fifo!vars
    <2> QED  BY <1>2, <2>1, <2>2, <2>3, <2>4, <2>5 DEF RingNext, Producer, Consumer
  <1> QED  BY <1>1, <1>2, RingSound, PTL DEF RingSpec, Fifo!Safety

-----------------------------------------------------------------------------
(* The channel: Init, Next, Spec and TypeOK are those of MailboxChannel.   *)

(* The last conjunct of the table says what the teardown has to.           *)
LEMMA TableForgetsNothing ==
    ASSUME TypeOK, TableSound
    PROVE  NothingForgotten
BY DEF TypeOK, TableSound, NothingForgotten

(* xdna_mailbox_create_channel() establishes the invariant.                *)
LEMMA ChannelInvInit == Init => ChannelInv
<1> SUFFICES ASSUME Init PROVE ChannelInv
  OBVIOUS
<1> USE ChannelAssumption
<1>0. Len(x2i) = 0 /\ Len(i2x) = 0 /\ Len(fw) = 0 /\ Ids \in Nat \ {0} /\ MaxMsgs \in Nat
  BY DEF Init
<1>1. TypeOK
  <2>1. /\ chan_xa \in [Entry -> Handle \cup {None}]
        /\ kind \in [Handle -> Kinds[type] \cup {"none"}]
        /\ cb \in [Handle -> Nat] /\ live \in [Handle -> BOOLEAN]
    BY DEF Init
  <2>2. /\ next_msgid \in 0..Ids /\ last_msg_id \in Entry \cup {None}
        /\ cur \in Nat \ {0} /\ made \in 0..MaxMsgs
    BY <1>0 DEF Init
  <2>3. x2i \in Seq(Msg) /\ i2x \in Seq(Msg) /\ fw \in Seq(Msg)
    BY DEF Init
  <2> QED BY <2>1, <2>2, <2>3 DEF Init, TypeOK
<1>2. InFlight = {}
  BY <1>0 DEF InFlight
<1>3. ResponseMatched /\ SenderAt
  BY <1>2 DEF Init, ResponseMatched, SenderAt
<1>4. UnderWayOnce
  BY <1>0, <1>2 DEF UnderWayOnce, OnceIn, Apart
<1>5. TableSound
  BY <1>0 DEF Init, TableSound, Handle, Entry, None
<1>6. ReceiversStop
  BY DEF Init, ReceiversStop
<1>7. OrderKept
  <2>1. UnderWay = 0 /\ Pushing = 0 /\ Oldest = 0 /\ NextResp = 0 /\ next_msgid = 0
    <3>1. spc = "idle" /\ made = 0 /\ last_msg_id = None /\ next_msgid = 0
      BY DEF Init
    <3> QED BY <3>1, <1>0 DEF UnderWay, Pushing, Oldest, NextResp
  <2>2. Nth(1) = 0 /\ Ids # 0
    BY <2>1, <1>0 DEF Nth
  <2>3. \A e \in Entry : chan_xa[e] = None
    BY DEF Init
  <2> QED BY <1>0, <2>1, <2>2, <2>3 DEF Init, OrderKept, InSequence
<1> QED BY <1>1, <1>3, <1>4, <1>5, <1>6, <1>7, TableForgetsNothing DEF ChannelInv
-----------------------------------------------------------------------------
(* The worker's and the poller's bookkeeping, the interrupt and the        *)
(* teardown up to the last step move no message.                           *)
LEMMA QuietStepKeepsInv ==
    ASSUME ChannelInv, TypeOK', ReceiversStop',
           UNCHANGED <<ids, x2i, i2x, sender, calls, fw, corrupt>>,
           spc = "push" => chan' = chan,
           chan' = "freed" <=> chan = "freed"
    PROVE  ChannelInv'
<1> USE DEF ids, sender, calls
<1>0. InFlight' = InFlight
  BY DEF InFlight
<1>1. ResponseMatched'
  BY <1>0 DEF ChannelInv, ResponseMatched
<1>2. SenderAt'
  BY <1>0 DEF ChannelInv, SenderAt
<1>3. UnderWayOnce'
  BY <1>0 DEF ChannelInv, UnderWayOnce, OnceIn, Apart
<1>4. TableSound'
  BY DEF ChannelInv, TableSound
<1>5. OrderKept'
  BY DEF ChannelInv, OrderKept, InSequence, UnderWay, Pushing, Oldest, NextResp, Nth
<1>6. NothingForgotten'
  BY <1>4, TableForgetsNothing, PTL
<1> QED BY <1>1, <1>2, <1>3, <1>4, <1>5, <1>6 DEF ChannelInv

(* What mailbox_rx_worker() does around its loop.                          *)
LEMMA RxKeepsInv ==
    ASSUME ChannelInv, RxStart \/ RxClear \/ RxEmpty \/ RxRecheck
    PROVE  ChannelInv'
<1>1. TypeOK'
  <2>1. /\ rx' \in {"idle", "clear", "loop", "recheck"}
        /\ iohub' \in BOOLEAN /\ rxq' \in BOOLEAN
    BY DEF ChannelInv, TypeOK, RxStart, RxClear, RxEmpty, RxRecheck, worker
  <2>2. UNCHANGED <<ids, x2i, i2x, sender, calls, irq, poller, chan, firmware>>
    BY DEF RxStart, RxClear, RxEmpty, RxRecheck
  <2> QED BY <2>1, <2>2 DEF ChannelInv, TypeOK, ids, sender, calls, poller, firmware
<1>2. ReceiversStop'
  BY DEF ChannelInv, TypeOK, ReceiversStop, RxStart, RxClear, RxEmpty, RxRecheck,
         ids, worker, poller
<1>3. UNCHANGED <<ids, x2i, i2x, sender, calls, fw, corrupt, chan>>
  BY DEF RxStart, RxClear, RxEmpty, RxRecheck, firmware
<1> QED BY <1>1, <1>2, <1>3, QuietStepKeepsInv

(* What mailbox_polld() does around its loop, and an empty ring.           *)
LEMMA PollKeepsInv ==
    ASSUME ChannelInv, PollCheck \/ PollScan \/ PollEmpty \/ (PollDrain /\ i2x = <<>>)
    PROVE  ChannelInv'
<1>0. UNCHANGED <<ids, x2i, i2x, sender, calls, worker, chan, firmware>>
  BY DEF PollCheck, PollScan, PollEmpty, PollDrain
<1>1. iohub' \in BOOLEAN /\ sent_msg' \in BOOLEAN
      /\ polld' \in {"check", "sleep", "scan", "drain", "empty"}
  BY DEF ChannelInv, TypeOK, PollCheck, PollScan, PollEmpty, PollDrain
<1>2. TypeOK'
  BY <1>0, <1>1 DEF ChannelInv, TypeOK, ids, sender, calls, worker, firmware
<1>3. polld' = "drain" => listed
  BY DEF PollCheck, PollScan, PollEmpty, PollDrain
<1>4. ReceiversStop'
  BY <1>0, <1>3 DEF ChannelInv, ReceiversStop, listed, ids, worker
<1> QED BY <1>0, <1>2, <1>4, QuietStepKeepsInv DEF firmware

(* xdna_mailbox_stop_channel() and the first half of the destruction.      *)
LEMMA StopKeepsInv ==
    ASSUME ChannelInv, StopIrq \/ StopCancel \/ ReleaseUnlist
    PROVE  ChannelInv'
<1>0. UNCHANGED <<ids, x2i, i2x, iohub, sender, calls, rx, poller, firmware>>
  BY DEF StopIrq, StopCancel, ReleaseUnlist, worker
<1>1. chan' # "freed" /\ chan # "freed" /\ (spc = "push" => chan' = chan)
  BY DEF ChannelInv, SenderAt, StopIrq, StopCancel, ReleaseUnlist
<1>2. TypeOK'
  <2>1. /\ chan' \in {"open", "stopping", "stopped", "unlisted", "freed"}
        /\ irq' \in BOOLEAN /\ rxq' \in BOOLEAN
    BY DEF ChannelInv, TypeOK, StopIrq, StopCancel, ReleaseUnlist, worker
  <2> QED BY <1>0, <2>1 DEF ChannelInv, TypeOK, ids, sender, calls, poller, firmware
<1>3. ReceiversStop'
  BY <1>0 DEF ChannelInv, TypeOK, ReceiversStop, StopIrq, StopCancel, ReleaseUnlist,
     ids, worker, poller
<1> QED BY <1>0, <1>1, <1>2, <1>3, QuietStepKeepsInv DEF firmware

(* The firmware sets the interrupt register.                               *)
LEMMA FwRingKeepsInv ==
    ASSUME ChannelInv, FwRing
    PROVE  ChannelInv'
<1>1. TypeOK'
  <2>1. iohub' \in BOOLEAN /\ rxq' \in BOOLEAN /\ ring' \in BOOLEAN
    BY DEF ChannelInv, TypeOK, FwRing
  <2> QED BY <2>1 DEF ChannelInv, TypeOK, FwRing, ids, sender, calls, poller
<1>2. ReceiversStop'
  BY DEF ChannelInv, ReceiversStop, FwRing, ids, poller
<1> QED BY <1>1, <1>2, QuietStepKeepsInv DEF FwRing
-----------------------------------------------------------------------------
(* xa_alloc_cyclic_irq() hands out an id nobody has, and the one after the *)
(* last if that is free.                                                   *)
LEMMA NextIdFree ==
    ASSUME TypeOK, NEW e \in NextId
    PROVE  /\ e \in Entry /\ chan_xa[e] = None
           /\ LET n == IF next_msgid = Ids THEN 0 ELSE next_msgid
              IN  chan_xa[n] = None => e = n
<1> USE ChannelAssumption
<1> DEFINE free == IF FreeFrom(next_msgid) # {} THEN FreeFrom(next_msgid)
                                                ELSE FreeFrom(0)
<1>1. free # {} /\ e = Min(free)
  BY DEF NextId
<1>2. free \in SUBSET Nat /\ free \in SUBSET Entry
      /\ \A x \in free : chan_xa[x] = None
  BY DEF FreeFrom, Entry
<1>3. e \in free /\ \A y \in free : e <= y
  BY <1>1, <1>2, NatHasMin DEF Min
<1>4. ASSUME next_msgid # Ids, chan_xa[next_msgid] = None PROVE e = next_msgid
  <2>1. next_msgid \in FreeFrom(next_msgid)
    BY <1>4 DEF TypeOK, FreeFrom, Entry
  <2>2. free = FreeFrom(next_msgid)
    BY <2>1
  <2>3. e >= next_msgid /\ e <= next_msgid /\ e \in Nat
    BY <2>1, <2>2, <1>2, <1>3 DEF FreeFrom
  <2> QED BY <2>3 DEF TypeOK
<1>5. ASSUME next_msgid = Ids, chan_xa[0] = None PROVE e = 0
  <2>1. FreeFrom(next_msgid) = {}
    BY <1>5 DEF FreeFrom, Entry
  <2>2. 0 \in FreeFrom(0)
    BY <1>5 DEF FreeFrom, Entry
  <2>3. e <= 0 /\ e \in Nat
    BY <2>1, <2>2, <1>2, <1>3
  <2> QED BY <2>3
<1> QED BY <1>2, <1>3, <1>4, <1>5

(* The ids that follow each other from the next response on, around the    *)
(* end, are entries of the table and all different.                        *)
LEMMA NthFacts ==
    ASSUME TypeOK
    PROVE  /\ NextResp \in Entry
           /\ \A k \in 1..(Ids + 1) : Nth(k) \in Entry
           /\ \A k, l \in 1..Ids : Nth(k) = Nth(l) => k = l
           /\ \A k \in 1..Ids : Nth(k + 1) = IF Nth(k) + 1 = Ids THEN 0 ELSE Nth(k) + 1
           /\ Nth(1) = NextResp
<1> USE ChannelAssumption
<1>1. NextResp \in Entry
  BY DEF TypeOK, NextResp, Entry, None
<1> QED BY <1>1 DEF Nth, Entry

(* A message under way has a table entry, and its callback is due.         *)
LEMMA InFlightDue ==
    ASSUME ChannelInv, NEW m \in InFlight, m.id # None
    PROVE  /\ m \in Msg /\ m.id \in Entry /\ chan_xa[m.id] = m.h
           /\ m.h \in 1..made /\ m.h # None
           /\ chan # "freed" => /\ cb[m.h] = 0
                                /\ WaitsOnMgmt => live[m.h]
<1> USE ChannelAssumption
<1>1. m \in Msg
  BY DEF ChannelInv, TypeOK, InFlight
<1>2. m.id \in Entry /\ chan_xa[m.id] = m.h /\ m.h \in 1..made
  BY <1>1 DEF ChannelInv, ResponseMatched, UnderWayOnce, Msg
<1>3. m.h # None
  BY <1>2 DEF ChannelInv, TypeOK, None
<1> QED BY <1>1, <1>2, <1>3 DEF ChannelInv, TableSound

(* On a context's channel all that is under way is outstanding: the limit  *)
(* on outstanding commands bounds the messages under way.                  *)
LEMMA UnderWayOutstanding ==
    ASSUME ChannelInv, WaitsOnMgmt, type # "mgmt", ~corrupt, InSequence,
           chan # "freed", spc # "push"
    PROVE  UnderWay <= Cardinality(Outstanding("async"))
<1> USE ChannelAssumption
<1> DEFINE S == (Oldest + 1)..made
<1>0. /\ Len(x2i) \in Nat /\ Len(i2x) \in Nat /\ Len(fw) \in Nat /\ made \in Nat
      /\ UnderWay \in Nat /\ Oldest = made - UnderWay /\ Oldest \in Nat
  BY DEF ChannelInv, TypeOK, InSequence, UnderWay, Pushing, Oldest
<1>1. ASSUME NEW h \in S PROVE h \in Outstanding("async")
  <2>0. h \in Int /\ h >= Oldest + 1 /\ h <= made
    BY <1>0
  <2>1. \E m \in InFlight : m.h = h
    <3>1. CASE h - Oldest <= Len(i2x)
      <4>1. h - Oldest \in 1..Len(i2x) /\ Oldest + (h - Oldest) = h
        BY <3>1, <2>0, <1>0
      <4>2. i2x[h - Oldest].h = h
        BY <4>1 DEF InSequence
      <4> QED BY <4>1, <4>2 DEF InFlight
    <3>2. CASE h - Oldest > Len(i2x) /\ h - Oldest <= Len(i2x) + Len(fw)
      <4> DEFINE k == h - Oldest - Len(i2x)
      <4>1. k \in 1..Len(fw) /\ Oldest + Len(i2x) + k = h
        BY <3>2, <2>0, <1>0
      <4> HIDE DEF k
      <4>2. fw[k].h = h
        BY <4>1 DEF InSequence
      <4> QED BY <4>1, <4>2 DEF InFlight
    <3>3. CASE h - Oldest > Len(i2x) + Len(fw)
      <4> DEFINE k == h - Oldest - Len(i2x) - Len(fw)
      <4>1. k \in 1..Len(x2i) /\ Oldest + Len(i2x) + Len(fw) + k = h
        BY <3>3, <2>0, <1>0 DEF UnderWay
      <4> HIDE DEF k
      <4>2. x2i[k].h = h
        BY <4>1 DEF InSequence
      <4> QED BY <4>1, <4>2 DEF InFlight
    <3> QED BY <3>1, <3>2, <3>3, <2>0, <1>0
  <2>2. PICK m \in InFlight : m.h = h
    BY <2>1
  <2>3. m.id # None
    BY DEF ChannelInv, UnderWayOnce
  <2>4. h \in 1..made /\ cb[h] = 0 /\ live[h]
    BY <2>2, <2>3, InFlightDue
  <2>5. kind[h] = "async"
    <3>1. kind[h] \in Kinds[type] /\ type \in Types
      BY <2>4 DEF ChannelInv, TableSound, TypeOK
    <3> QED BY <3>1 DEF WaitsOnMgmt
  <2> QED BY <2>4, <2>5 DEF Outstanding
<1>2. IsFiniteSet(S) /\ Cardinality(S) = UnderWay
  <2>1. Oldest + 1 \in Int /\ made \in Int
    BY <1>0
  <2>2. /\ IsFiniteSet(S)
        /\ Cardinality(S) = IF Oldest + 1 > made THEN 0 ELSE made - (Oldest + 1) + 1
    BY <2>1, FS_Interval
  <2> QED BY <2>2, <1>0
<1>3. IsFiniteSet(Outstanding("async"))
  <2>1. IsFiniteSet(1..made)
    BY <1>0, FS_Interval
  <2>2. Outstanding("async") \subseteq 1..made
    BY DEF Outstanding
  <2> QED BY <2>1, <2>2, FS_Subset
<1>4. Cardinality(S) <= Cardinality(Outstanding("async"))
  BY <1>1, <1>3, FS_Subset
<1> QED BY <1>2, <1>4
-----------------------------------------------------------------------------
(* mailbox_acquire_msgid() gives the message an id nobody has.             *)
LEMMA SendAcquireKeepsInv ==
    ASSUME ChannelInv, NEW k \in Kinds[type], SendAcquire(k)
    PROVE  ChannelInv'
<1> USE ChannelAssumption
<1>0. /\ spc = "idle" /\ chan = "open" /\ made < MaxMsgs
      /\ k = "async" => Cardinality(Outstanding("async")) < Limit
      /\ made' = made + 1 /\ cur' = made + 1
      /\ kind' = [kind EXCEPT ![made + 1] = k]
      /\ live' = [live EXCEPT ![made + 1] = TRUE]
      /\ spc' = "push"
      /\ UNCHANGED <<type, last_msg_id, bad_state, x2i, i2x, iohub, cb, worker,
                     poller, chan, firmware>>
  BY DEF SendAcquire
<1>1. PICK e \in NextId : /\ chan_xa' = [chan_xa EXCEPT ![e] = made + 1]
                          /\ next_msgid' = e + 1
  BY DEF SendAcquire
<1> DEFINE n == IF next_msgid = Ids THEN 0 ELSE next_msgid
<1>2. e \in Entry /\ chan_xa[e] = None /\ (chan_xa[n] = None => e = n)
  BY NextIdFree DEF ChannelInv
<1>3. /\ made \in Nat /\ made + 1 \in Handle /\ made + 1 # None
      /\ e \in 0..(Ids - 1) /\ Ids \in Nat \ {0}
  BY <1>0, <1>2 DEF ChannelInv, TypeOK, Handle, Entry, None
<1>4. TypeOK'
  <2>1. chan_xa' \in [Entry -> Handle \cup {None}]
    BY <1>1, <1>2, <1>3 DEF ChannelInv, TypeOK
  <2>2. next_msgid' \in 0..Ids /\ made' \in 0..MaxMsgs /\ cur' \in Nat \ {0}
    BY <1>0, <1>1, <1>3 DEF ChannelInv, TypeOK
  <2>3. /\ kind' \in [Handle -> Kinds[type] \cup {"none"}]
        /\ live' \in [Handle -> BOOLEAN]
    BY <1>0, <1>3 DEF ChannelInv, TypeOK
  <2> QED BY <1>0, <2>1, <2>2, <2>3 DEF ChannelInv, TypeOK, worker, poller, firmware
<1>5. InFlight' = InFlight
  BY <1>0 DEF InFlight, firmware
<1>6. ResponseMatched'
  <2> SUFFICES ASSUME NEW m \in InFlight, m.id # None PROVE chan_xa'[m.id] = m.h
    BY <1>5 DEF ResponseMatched
  <2>1. m.id \in Entry /\ chan_xa[m.id] = m.h /\ m.h # None
    BY InFlightDue
  <2>2. m.id # e
    BY <2>1, <1>2
  <2> QED BY <2>1, <2>2, <1>1 DEF ChannelInv, TypeOK
<1>7. SenderAt'
  <2>1. chan_xa'[e] = cur'
    BY <1>0, <1>1, <1>2 DEF ChannelInv, TypeOK
  <2>2. \A m \in InFlight' : m.h # cur'
    BY <1>0, <1>3, <1>5 DEF ChannelInv, UnderWayOnce
  <2> QED BY <1>0, <1>2, <1>3, <2>1, <2>2 DEF SenderAt
<1>8. UnderWayOnce'
  BY <1>0, <1>3, <1>5 DEF ChannelInv, UnderWayOnce, OnceIn, Apart, firmware
<1>9. TableSound'
  <2> USE DEF ChannelInv, TableSound, TypeOK
  <2>1. \A h \in Handle : h > made' => cb'[h] = 0
    BY <1>0, <1>3 DEF Handle
  <2>2. \A h \in 1..made' : kind'[h] \in Kinds[type']
    BY <1>0, <1>3 DEF Handle
  <2>3. \A d \in Entry : chan_xa'[d] # None =>
          /\ chan_xa'[d] \in 1..made'
          /\ chan' # "freed" => /\ cb'[chan_xa'[d]] = 0
                                /\ WaitsOnMgmt => live'[chan_xa'[d]]
    BY <1>0, <1>1, <1>2, <1>3 DEF Handle
  <2>4. \A c, d \in Entry : chan_xa'[c] # None /\ chan_xa'[c] = chan_xa'[d] => c = d
    BY <1>0, <1>1, <1>2, <1>3
  <2>5. ASSUME NEW h \in Handle, live'[h], cb'[h] = 0
        PROVE  chan' # "freed" /\ \E d \in Entry : chan_xa'[d] = h
    <3>1. CASE h = made + 1
      BY <3>1, <1>0, <1>1, <1>2, <1>3
    <3>2. CASE h # made + 1
      <4>1. PICK d \in Entry : chan_xa[d] = h
        BY <3>2, <2>5, <1>0
      <4>2. d # e
        BY <4>1, <1>2 DEF Handle, None
      <4> QED BY <4>1, <4>2, <1>0, <1>1
    <3> QED BY <3>1, <3>2
  <2> QED BY <2>1, <2>2, <2>3, <2>4, <2>5, <1>3
<1>10. ReceiversStop'
  BY <1>0 DEF ChannelInv, ReceiversStop, worker, poller
<1>11. OrderKept'
  <2> SUFFICES ASSUME WaitsOnMgmt, RoomForAll, type # "mgmt", ~corrupt
               PROVE  InSequence'
    BY <1>0 DEF OrderKept, firmware
  <2>1. InSequence
    BY DEF ChannelInv, OrderKept
  <2>2. k = "async"
    BY DEF WaitsOnMgmt, ChannelInv, TypeOK
  <2>3. /\ UnderWay \in Nat /\ UnderWay < Limit /\ Limit <= Ids /\ Pushing = 0
        /\ Cardinality(Outstanding("async")) < Limit
    <3>1. UnderWay <= Cardinality(Outstanding("async"))
      BY <2>1, <1>0, UnderWayOutstanding
    <3>2. IsFiniteSet(Outstanding("async"))
      <4>1. IsFiniteSet(1..made)
        BY <1>3, FS_Interval
      <4>2. Outstanding("async") \subseteq 1..made
        BY DEF Outstanding
      <4> QED BY <4>1, <4>2, FS_Subset
    <3>3. Cardinality(Outstanding("async")) \in Nat
      BY <3>2, FS_CardinalityType
    <3>4. UnderWay \in Nat /\ Pushing = 0
      BY <1>0 DEF UnderWay, Pushing, ChannelInv, TypeOK
    <3> QED BY <3>1, <3>3, <3>4, <2>2, <1>0 DEF RoomForAll
  <2>4. PICK u \in Nat : u = UnderWay
    BY <2>3
  <2>5. /\ n = Nth(u + 1) /\ Nth(u + 1) \in Entry
        /\ Nth(u + 2) = IF Nth(u + 1) + 1 = Ids THEN 0 ELSE Nth(u + 1) + 1
        /\ \A d \in Entry : chan_xa[d] # None => \E j \in 1..u : d = Nth(j)
    <3>1. u + 1 \in 1..Ids /\ u + 1 \in 1..(Ids + 1) /\ (u + 1) + 1 = u + 2
      BY <2>3, <2>4, <1>3
    <3>2. TypeOK
      BY DEF ChannelInv
    <3>3. /\ Nth(u + 1) \in Entry
          /\ Nth((u + 1) + 1) = IF Nth(u + 1) + 1 = Ids THEN 0 ELSE Nth(u + 1) + 1
      BY <3>1, <3>2, NthFacts
    <3>4. /\ n = Nth(u + 0 + 1)
          /\ \A d \in Entry : chan_xa[d] # None => \E j \in 1..(u + 0) : d = Nth(j)
      BY <2>1, <2>3, <2>4 DEF InSequence
    <3>5. u + 0 = u
      BY <2>4
    <3> QED BY <3>1, <3>3, <3>4, <3>5
  <2>6. e = Nth(u + 1)
    <3>1. \A j \in 1..u : Nth(j) # Nth(u + 1)
      <4> SUFFICES ASSUME NEW j \in 1..u PROVE Nth(j) # Nth(u + 1)
        OBVIOUS
      <4>1. j \in 1..Ids /\ u + 1 \in 1..Ids /\ j # u + 1
        BY <2>3, <2>4, <1>3
      <4> QED BY <4>1, NthFacts DEF ChannelInv
    <3>2. chan_xa[Nth(u + 1)] = None
      BY <3>1, <2>5
    <3> QED BY <3>2, <2>5, <1>2
  <2>7. UnderWay' = u /\ Pushing' = 1 /\ Oldest' = Oldest /\ NextResp' = NextResp
    <3>1. UnderWay' = u
      BY <2>4, <1>0 DEF UnderWay, firmware
    <3>2. Pushing' = 1
      BY <1>0 DEF Pushing
    <3> QED BY <3>1, <3>2, <2>3, <2>4, <1>0, <1>3 DEF Oldest, NextResp
  <2>8. /\ UnderWay' + Pushing' <= Limit /\ Oldest' >= 0
    BY <2>7, <2>4, <2>3, <2>1 DEF InSequence
  <2>10. /\ \A i \in 1..Len(i2x) : i2x[i].id = Nth(i) /\ i2x[i].h = Oldest + i
         /\ \A i \in 1..Len(fw) : /\ fw[i].id = Nth(Len(i2x) + i)
                                  /\ fw[i].h = Oldest + Len(i2x) + i
         /\ \A i \in 1..Len(x2i) : /\ x2i[i].id = Nth(Len(i2x) + Len(fw) + i)
                                   /\ x2i[i].h = Oldest + Len(i2x) + Len(fw) + i
    BY <2>1 DEF InSequence
  <2>11. chan_xa'[Nth(u + 1)] = cur'
    BY <2>6, <1>0, <1>1, <1>2 DEF ChannelInv, TypeOK
  <2>12. (IF next_msgid' = Ids THEN 0 ELSE next_msgid') = Nth(u + 1 + 1)
    BY <2>5, <2>6, <1>1
  <2>13. \A d \in Entry : chan_xa'[d] # None => \E j \in 1..(u + 1) : d = Nth(j)
    BY <2>5, <2>6, <1>1, <1>2 DEF ChannelInv, TypeOK
  <2>14. (UnderWay + Pushing <= Limit /\ Oldest >= 0)'
    BY <2>8
  <2>15. (\A i \in 1..Len(i2x) : i2x[i].id = Nth(i) /\ i2x[i].h = Oldest + i)'
    BY <2>7, <2>10, <1>0 DEF Nth
  <2>16. (\A i \in 1..Len(fw) : /\ fw[i].id = Nth(Len(i2x) + i)
                                /\ fw[i].h = Oldest + Len(i2x) + i)'
    BY <2>7, <2>10, <1>0 DEF Nth, firmware
  <2>17. (\A i \in 1..Len(x2i) : /\ x2i[i].id = Nth(Len(i2x) + Len(fw) + i)
                                 /\ x2i[i].h = Oldest + Len(i2x) + Len(fw) + i)'
    BY <2>7, <2>10, <1>0 DEF Nth, firmware
  <2>18. (/\ spc = "push" => chan_xa[Nth(UnderWay + 1)] = cur
          /\ (IF next_msgid = Ids THEN 0 ELSE next_msgid) = Nth(UnderWay + Pushing + 1))'
    BY <2>7, <2>11, <2>12 DEF Nth
  <2>19. (\A d \in Entry : chan_xa[d] # None =>
            \E j \in 1..(UnderWay + Pushing) : d = Nth(j))'
    BY <2>7, <2>13 DEF Nth
  <2> QED BY <2>14, <2>15, <2>16, <2>17, <2>18, <2>19 DEF InSequence
<1>12. NothingForgotten'
  BY <1>4, <1>9, TableForgetsNothing, PTL
<1> QED BY <1>4, <1>6, <1>7, <1>8, <1>9, <1>10, <1>11, <1>12 DEF ChannelInv

(* The id the message to be pushed has.                                    *)
LEMMA CurIdIs ==
    ASSUME ChannelInv, spc = "push"
    PROVE  /\ CurId \in Entry /\ chan_xa[CurId] = cur
           /\ cur \in 1..made /\ cur \in Handle /\ cur # None /\ cur = made /\ made \in Nat
           /\ \A e \in Entry : chan_xa[e] = cur => e = CurId
<1>1. \E e \in Entry : chan_xa[e] = cur
  BY DEF ChannelInv, SenderAt
<1>2. CurId \in Entry /\ chan_xa[CurId] = cur
  BY <1>1 DEF CurId
<1>3. cur \in 1..made /\ cur = made /\ made \in 0..MaxMsgs
  BY DEF ChannelInv, SenderAt, TypeOK
<1>4. cur \in Handle /\ cur # None /\ made \in Nat
  BY <1>3, ChannelAssumption DEF Handle, None
<1> QED BY <1>2, <1>3, <1>4 DEF ChannelInv, TableSound

(* mailbox_send_msg() puts the message at the end of the X2I ring.         *)
LEMMA SendPushKeepsInv ==
    ASSUME ChannelInv, SendPush
    PROVE  ChannelInv'
<1> USE ChannelAssumption
<1> DEFINE msg == [id |-> CurId, h |-> cur]
<1>0. /\ spc = "push"
      /\ x2i' = Append(x2i, msg)
      /\ spc' = IF kind[cur] = "wait" THEN "wait" ELSE "idle"
      /\ polld' = Wakeup
      /\ UNCHANGED <<ids, i2x, iohub, cur, made, kind, calls, worker, sent_msg,
                     chan, firmware>>
  BY DEF SendPush
<1>1. /\ CurId \in Entry /\ chan_xa[CurId] = cur
      /\ cur \in 1..made /\ cur \in Handle /\ cur # None /\ cur = made /\ made \in Nat
      /\ \A e \in Entry : chan_xa[e] = cur => e = CurId
  BY <1>0, CurIdIs
<1>2. msg \in Msg /\ msg.h = cur /\ msg.id = CurId /\ CurId # None
  BY <1>1 DEF Msg, Entry, None
<1> HIDE DEF msg
<1>3. /\ Len(x2i) \in Nat /\ x2i' \in Seq(Msg) /\ Len(x2i') = Len(x2i) + 1
      /\ \A i \in 1..Len(x2i) : x2i'[i] = x2i[i]
      /\ x2i'[Len(x2i) + 1] = msg
  BY <1>0, <1>2, AppendProperties DEF ChannelInv, TypeOK
<1>4. TypeOK'
  <2>1. polld' \in {"check", "sleep", "scan", "drain", "empty"}
    BY <1>0 DEF ChannelInv, TypeOK, Wakeup
  <2>2. spc' \in {"idle", "push", "wait", "timeout"}
    BY <1>0
  <2> QED BY <1>0, <1>3, <2>1, <2>2
        DEF ChannelInv, TypeOK, ids, calls, worker, firmware
<1>5. \A m \in InFlight' : m \in InFlight \/ m = msg
  BY <1>0, <1>3 DEF InFlight, firmware
<1>6. \A m \in InFlight : m.h # cur
  BY <1>0 DEF ChannelInv, SenderAt
<1>7. ResponseMatched'
  BY <1>0, <1>1, <1>2, <1>5 DEF ChannelInv, ResponseMatched, ids
<1>8. SenderAt'
  BY <1>0, <1>1 DEF SenderAt
<1>9. UnderWayOnce'
  <2>1. /\ \A i \in 1..Len(x2i) : x2i[i].h # cur
        /\ \A i \in 1..Len(fw) : fw[i].h # cur
        /\ \A i \in 1..Len(i2x) : i2x[i].h # cur
    BY <1>6 DEF InFlight
  <2>2. OnceIn(x2i')
    BY <1>2, <1>3, <2>1 DEF ChannelInv, UnderWayOnce, OnceIn
  <2>3. Apart(x2i', fw) /\ Apart(x2i', i2x)
    <3>1. Apart(x2i, fw) /\ Apart(x2i, i2x)
      BY DEF ChannelInv, UnderWayOnce
    <3>2. \A i \in 1..(Len(x2i) + 1) : \/ x2i'[i].h = cur
                                       \/ i \in 1..Len(x2i) /\ x2i'[i] = x2i[i]
      BY <1>2, <1>3
    <3> QED BY <3>1, <3>2, <1>3, <2>1 DEF Apart
  <2>4. \A m \in InFlight' : m.h \in 1..made /\ (m.id = None => corrupt)
    BY <1>1, <1>2, <1>5 DEF ChannelInv, UnderWayOnce
  <2>5. /\ OnceIn(fw) /\ OnceIn(i2x) /\ Apart(fw, i2x)
    BY DEF ChannelInv, UnderWayOnce
  <2> QED BY <1>0, <2>2, <2>3, <2>4, <2>5 DEF UnderWayOnce, OnceIn, Apart, firmware
<1>10. TableSound'
  BY <1>0 DEF ChannelInv, TableSound, ids, calls
<1>11. ReceiversStop'
  BY <1>0 DEF ChannelInv, ReceiversStop, Wakeup, ids, worker
<1>12. OrderKept'
  <2> SUFFICES ASSUME WaitsOnMgmt, RoomForAll, type # "mgmt", ~corrupt
               PROVE  InSequence'
    BY <1>0 DEF OrderKept, firmware, ids
  <2>1. InSequence
    BY DEF ChannelInv, OrderKept
  <2>2. PICK u \in Nat : u = UnderWay
    BY DEF ChannelInv, TypeOK, UnderWay
  <2>3. /\ Pushing = 1 /\ Oldest = made - 1 - u /\ u + 1 <= Limit /\ Oldest >= 0
        /\ u = Len(i2x) + Len(fw) + Len(x2i)
        /\ Len(i2x) \in Nat /\ Len(fw) \in Nat
    <3>1. Pushing = 1 /\ Len(i2x) \in Nat /\ Len(fw) \in Nat
      BY <1>0 DEF Pushing, ChannelInv, TypeOK
    <3>2. u + 1 <= Limit /\ Oldest >= 0 /\ u = Len(i2x) + Len(fw) + Len(x2i)
      BY <3>1, <2>1, <2>2 DEF InSequence, UnderWay
    <3> QED BY <3>1, <3>2, <2>2 DEF Oldest
  <2>4. UnderWay' = u + 1 /\ Pushing' = 0 /\ Oldest' = Oldest /\ NextResp' = NextResp
    <3>1. UnderWay' = u + 1
      BY <2>3, <1>0, <1>3 DEF UnderWay, firmware
    <3>2. Pushing' = 0
      BY <1>0 DEF Pushing
    <3> QED BY <3>1, <3>2, <2>3, <1>0, <1>1 DEF Oldest, NextResp, ids
  <2>5. CurId = Nth(u + 1)
    <3>1. chan_xa[Nth(u + 1)] = cur
      BY <1>0, <2>1, <2>2 DEF InSequence
    <3>2. u + 1 \in 1..(Ids + 1)
      BY <2>2, <2>3 DEF RoomForAll
    <3> QED BY <3>1, <3>2, <1>1, NthFacts DEF ChannelInv
  <2>6. /\ \A i \in 1..Len(i2x) : i2x[i].id = Nth(i) /\ i2x[i].h = Oldest + i
        /\ \A i \in 1..Len(fw) : /\ fw[i].id = Nth(Len(i2x) + i)
                                 /\ fw[i].h = Oldest + Len(i2x) + i
    BY <2>1 DEF InSequence
  <2>7. \A i \in 1..(Len(x2i) + 1) : /\ x2i'[i].id = Nth(Len(i2x) + Len(fw) + i)
                                     /\ x2i'[i].h = Oldest + Len(i2x) + Len(fw) + i
    <3> SUFFICES ASSUME NEW i \in 1..(Len(x2i) + 1)
                 PROVE  /\ x2i'[i].id = Nth(Len(i2x) + Len(fw) + i)
                        /\ x2i'[i].h = Oldest + Len(i2x) + Len(fw) + i
      OBVIOUS
    <3>1. CASE i <= Len(x2i)
      <4>1. i \in 1..Len(x2i) /\ x2i'[i] = x2i[i]
        BY <3>1, <1>3
      <4> QED BY <4>1, <2>1 DEF InSequence
    <3>2. CASE i = Len(x2i) + 1
      <4>1. Len(i2x) + Len(fw) + i = u + 1 /\ Oldest + Len(i2x) + Len(fw) + i = made
        BY <3>2, <2>3, <1>3, <1>1
      <4> QED BY <4>1, <3>2, <1>1, <1>2, <1>3, <2>5
    <3> QED BY <3>1, <3>2, <1>3
  <2>8. /\ (IF next_msgid = Ids THEN 0 ELSE next_msgid) = Nth(u + 1 + 1)
        /\ \A e \in Entry : chan_xa[e] # None => \E k \in 1..(u + 1) : e = Nth(k)
    BY <2>1, <2>2, <2>3 DEF InSequence
  <2>9. /\ (u + 1) + 0 <= Limit /\ (u + 1) + 0 + 1 = u + 1 + 1 /\ (u + 1) + 0 = u + 1
    BY <2>2, <2>3
  <2>10. spc' # "push"
    BY <1>0
  <2>11. (UnderWay + Pushing <= Limit /\ Oldest >= 0)'
    BY <2>3, <2>4, <2>9
  <2>12. (\A i \in 1..Len(i2x) : i2x[i].id = Nth(i) /\ i2x[i].h = Oldest + i)'
    BY <2>4, <2>6, <1>0 DEF Nth
  <2>13. (\A i \in 1..Len(fw) : /\ fw[i].id = Nth(Len(i2x) + i)
                                /\ fw[i].h = Oldest + Len(i2x) + i)'
    BY <2>4, <2>6, <1>0 DEF Nth, firmware
  <2>14. (\A i \in 1..Len(x2i) : /\ x2i[i].id = Nth(Len(i2x) + Len(fw) + i)
                                 /\ x2i[i].h = Oldest + Len(i2x) + Len(fw) + i)'
    BY <2>4, <2>7, <1>0, <1>3 DEF Nth, firmware
  <2>15. (/\ spc = "push" => chan_xa[Nth(UnderWay + 1)] = cur
          /\ (IF next_msgid = Ids THEN 0 ELSE next_msgid) = Nth(UnderWay + Pushing + 1))'
    BY <2>4, <2>8, <2>9, <2>10, <1>0 DEF Nth, ids
  <2>16. (\A e \in Entry : chan_xa[e] # None =>
            \E k \in 1..(UnderWay + Pushing) : e = Nth(k))'
    BY <2>4, <2>8, <2>9, <1>0 DEF Nth, ids
  <2> QED BY <2>11, <2>12, <2>13, <2>14, <2>15, <2>16 DEF InSequence
<1>13. NothingForgotten'
  BY <1>4, <1>10, TableForgetsNothing, PTL
<1> QED
  BY <1>4, <1>7, <1>8, <1>9, <1>10, <1>11, <1>12, <1>13 DEF ChannelInv

(* A full X2I ring: the id is given back, and the caller told.             *)
LEMMA SendNoSpaceKeepsInv ==
    ASSUME ChannelInv, SendNoSpace
    PROVE  ChannelInv'
<1> USE ChannelAssumption
<1>0. /\ spc = "push" /\ Len(x2i) = Cap
      /\ chan_xa' = [chan_xa EXCEPT ![CurId] = None]
      /\ live' = [live EXCEPT ![cur] = FALSE]
      /\ spc' = "idle"
      /\ UNCHANGED <<type, next_msgid, last_msg_id, bad_state, x2i, i2x, iohub, cur,
                     made, kind, cb, worker, poller, chan, firmware>>
  BY DEF SendNoSpace
<1>1. /\ CurId \in Entry /\ chan_xa[CurId] = cur
      /\ cur \in 1..made /\ cur \in Handle /\ cur # None /\ cur = made /\ made \in Nat
      /\ \A e \in Entry : chan_xa[e] = cur => e = CurId
  BY <1>0, CurIdIs
<1>2. TypeOK'
  <2>1. chan_xa' \in [Entry -> Handle \cup {None}] /\ live' \in [Handle -> BOOLEAN]
    BY <1>0 DEF ChannelInv, TypeOK
  <2> QED BY <1>0, <2>1 DEF ChannelInv, TypeOK, worker, poller, firmware
<1>3. InFlight' = InFlight
  BY <1>0 DEF InFlight, firmware
<1>4. ResponseMatched'
  <2> SUFFICES ASSUME NEW m \in InFlight, m.id # None PROVE chan_xa'[m.id] = m.h
    BY <1>3 DEF ResponseMatched
  <2>1. m.id \in Entry /\ chan_xa[m.id] = m.h
    BY InFlightDue
  <2>2. m.h # cur
    BY <1>0 DEF ChannelInv, SenderAt
  <2> QED BY <2>1, <2>2, <1>0, <1>1 DEF ChannelInv, TypeOK
<1>5. SenderAt'
  BY <1>0 DEF SenderAt
<1>6. UnderWayOnce'
  BY <1>0, <1>3 DEF ChannelInv, UnderWayOnce, OnceIn, Apart, firmware
<1>7. TableSound'
  <2> USE DEF ChannelInv, TableSound, TypeOK
  <2>1. \A e \in Entry : chan_xa'[e] = IF e = CurId THEN None ELSE chan_xa[e]
    BY <1>0
  <2>2. \A h \in Handle : live'[h] = IF h = cur THEN FALSE ELSE live[h]
    BY <1>0
  <2>3. ASSUME NEW e \in Entry, chan_xa'[e] # None
        PROVE  /\ chan_xa'[e] \in 1..made
               /\ chan # "freed" => /\ cb[chan_xa'[e]] = 0
                                    /\ WaitsOnMgmt => live'[chan_xa'[e]]
    <3>1. chan_xa'[e] = chan_xa[e] /\ chan_xa[e] # None /\ e # CurId
      BY <2>1, <2>3
    <3>2. /\ chan_xa[e] \in 1..made
          /\ chan # "freed" => /\ cb[chan_xa[e]] = 0
                               /\ WaitsOnMgmt => live[chan_xa[e]]
      BY <3>1
    <3>3. chan_xa[e] # cur /\ chan_xa[e] \in Handle
      BY <3>1, <1>1
    <3>4. live'[chan_xa[e]] = live[chan_xa[e]]
      BY <3>3, <2>2
    <3> QED BY <3>1, <3>2, <3>4
  <2>4. \A c, d \in Entry : chan_xa'[c] # None /\ chan_xa'[c] = chan_xa'[d] => c = d
    BY <2>1
  <2>5. ASSUME NEW h \in Handle, live'[h], cb[h] = 0
        PROVE  chan # "freed" /\ \E e \in Entry : chan_xa'[e] = h
    <3>1. h # cur /\ live[h]
      BY <2>2, <2>5
    <3>2. chan # "freed" /\ \E e \in Entry : chan_xa[e] = h
      BY <3>1, <2>5
    <3>3. PICK e \in Entry : chan_xa[e] = h
      BY <3>2
    <3>4. chan_xa'[e] = h
      BY <3>1, <3>3, <2>1, <1>1
    <3> QED BY <3>2, <3>4
  <2> QED BY <1>0, <2>3, <2>4, <2>5
<1>8. ReceiversStop'
  BY <1>0 DEF ChannelInv, ReceiversStop, worker, poller
<1>9. OrderKept'
  <2> SUFFICES ASSUME WaitsOnMgmt, RoomForAll, type # "mgmt", ~corrupt
               PROVE  FALSE
    BY <1>0 DEF OrderKept, firmware
  <2>1. InSequence
    BY DEF ChannelInv, OrderKept
  <2>2. Len(x2i) \in Nat /\ Len(i2x) \in Nat /\ Len(fw) \in Nat /\ Pushing = 1
    BY <1>0 DEF ChannelInv, TypeOK, Pushing
  <2> QED BY <1>0, <2>1, <2>2 DEF InSequence, UnderWay, RoomForAll
<1>10. NothingForgotten'
  BY <1>2, <1>7, TableForgetsNothing, PTL
<1> QED
  BY <1>2, <1>4, <1>5, <1>6, <1>7, <1>8, <1>9, <1>10 DEF ChannelInv

(* The waiting sender returns, with the response or without.               *)
LEMMA WaitKeepsInv ==
    ASSUME ChannelInv, WaitDone \/ WaitTimeout \/ TimeoutReturn
    PROVE  ChannelInv'
<1> USE ChannelAssumption
<1>0. /\ spc \in {"wait", "timeout"} /\ spc' \in {"idle", "timeout"}
      /\ live' = live \/ live' = [live EXCEPT ![cur] = FALSE]
      /\ UNCHANGED <<ids, x2i, i2x, iohub, cur, made, kind, cb, worker, poller,
                     chan, firmware>>
  BY DEF WaitDone, WaitTimeout, TimeoutReturn
<1>1. cur \in 1..made /\ cur \in Handle /\ kind[cur] = "wait" /\ type \in Types
  BY <1>0 DEF ChannelInv, SenderAt, TypeOK, Handle
<1>2. \/ live' = live \/ cb[cur] > 0 \/ type # "mgmt" \/ chan = "freed"
  BY DEF WaitDone, WaitTimeout, TimeoutReturn
<1>3. WaitsOnMgmt => type = "mgmt"
  BY <1>1 DEF WaitsOnMgmt, ChannelInv, TableSound
<1>4. TypeOK'
  <2>1. live' \in [Handle -> BOOLEAN]
    BY <1>0 DEF ChannelInv, TypeOK
  <2> QED BY <1>0, <2>1 DEF ChannelInv, TypeOK, ids, worker, poller, firmware
<1>5. InFlight' = InFlight
  BY <1>0 DEF InFlight, firmware
<1>6. ResponseMatched'
  BY <1>0, <1>5 DEF ChannelInv, ResponseMatched, ids
<1>7. SenderAt'
  BY <1>0, <1>1 DEF SenderAt
<1>8. UnderWayOnce'
  BY <1>0, <1>5 DEF ChannelInv, UnderWayOnce, OnceIn, Apart, firmware
<1>9. TableSound'
  <2> USE DEF ChannelInv, TableSound, TypeOK
  <2>1. \A h \in Handle : /\ live'[h] => live[h]
                          /\ h # cur => live'[h] = live[h]
    BY <1>0
  <2>2. ASSUME NEW e \in Entry, chan_xa[e] # None, chan # "freed", WaitsOnMgmt
        PROVE  live'[chan_xa[e]]
    <3>1. live[chan_xa[e]] /\ cb[chan_xa[e]] = 0 /\ chan_xa[e] \in Handle
      BY <2>2 DEF Handle
    <3>2. CASE chan_xa[e] # cur
      BY <3>1, <3>2, <2>1
    <3>3. CASE chan_xa[e] = cur
      <4>1. ~(cb[cur] > 0)
        BY <3>1, <3>3
      <4>2. live' = live
        BY <4>1, <1>2, <1>3, <2>2
      <4> QED BY <4>2, <3>1
    <3> QED BY <3>2, <3>3
  <2> QED BY <1>0, <2>1, <2>2 DEF ids
<1>10. ReceiversStop'
  BY <1>0 DEF ChannelInv, ReceiversStop, ids, worker, poller
<1>11. OrderKept'
  BY <1>0 DEF ChannelInv, OrderKept, InSequence, UnderWay, Pushing, Oldest, NextResp,
     Nth, ids, firmware
<1>12. NothingForgotten'
  BY <1>4, <1>9, TableForgetsNothing, PTL
<1> QED
  BY <1>4, <1>6, <1>7, <1>8, <1>9, <1>10, <1>11, <1>12 DEF ChannelInv
-----------------------------------------------------------------------------
(* A message moves from one place to the next, and nothing else happens.   *)
LEMMA MoveKeepsInv ==
    ASSUME ChannelInv, TypeOK', UnderWayOnce', OrderKept',
           UNCHANGED <<ids, sender, calls, worker, poller, chan>>,
           \A m \in InFlight' : m.id # None => m \in InFlight,
           \A m \in InFlight' : \E q \in InFlight : q.h = m.h
    PROVE  ChannelInv'
<1>1. ResponseMatched'
  BY DEF ChannelInv, ResponseMatched, ids
<1>2. SenderAt'
  <2>1. spc = "push" => \A m \in InFlight' : m.h # cur
    BY DEF ChannelInv, SenderAt
  <2> QED BY <2>1 DEF ChannelInv, SenderAt, ids, sender
<1>3. TableSound'
  BY DEF ChannelInv, TableSound, ids, sender, calls
<1>4. ReceiversStop'
  BY DEF ChannelInv, ReceiversStop, ids, worker, poller
<1>5. NothingForgotten'
  BY <1>3, TableForgetsNothing, PTL
<1> QED BY <1>1, <1>2, <1>3, <1>4, <1>5 DEF ChannelInv

(* The counts are numbers.                                                 *)
LEMMA OldestType ==
    ASSUME TypeOK
    PROVE  /\ Pushing \in {0, 1} /\ UnderWay \in Nat /\ Oldest \in Int
           /\ Len(i2x) \in Nat /\ Len(fw) \in Nat /\ Len(x2i) \in Nat
<1>1. Pushing \in {0, 1}
  BY DEF Pushing
<1>2. Len(i2x) \in Nat /\ Len(fw) \in Nat /\ Len(x2i) \in Nat /\ made \in Int
  BY DEF TypeOK
<1> QED BY <1>1, <1>2 DEF UnderWay, Oldest

(* The firmware takes a message from the X2I ring.                         *)
LEMMA FwTakeKeepsInv ==
    ASSUME ChannelInv, FwTake
    PROVE  ChannelInv'
<1> USE ChannelAssumption
<1>0. /\ x2i # <<>> /\ fw' = Append(fw, Head(x2i)) /\ x2i' = Tail(x2i)
      /\ UNCHANGED <<ids, i2x, iohub, sender, calls, worker, poller, chan, ring, corrupt>>
  BY DEF FwTake
<1>1. /\ Len(x2i) \in Nat \ {0} /\ Head(x2i) = x2i[1] /\ x2i[1] \in Msg
      /\ x2i' \in Seq(Msg) /\ Len(x2i') = Len(x2i) - 1
      /\ \A i \in 1..(Len(x2i) - 1) : x2i'[i] = x2i[i + 1]
  BY <1>0, TailShape DEF ChannelInv, TypeOK
<1>2. /\ Len(fw) \in Nat /\ fw' \in Seq(Msg) /\ Len(fw') = Len(fw) + 1
      /\ \A i \in 1..Len(fw) : fw'[i] = fw[i]
      /\ fw'[Len(fw) + 1] = x2i[1]
  BY <1>0, <1>1, AppendProperties DEF ChannelInv, TypeOK
<1>3. Len(i2x) \in Nat
  BY DEF ChannelInv, TypeOK
<1>4. TypeOK'
  BY <1>0, <1>1, <1>2 DEF ChannelInv, TypeOK, ids, sender, calls, worker, poller
<1>5. InFlight' \subseteq InFlight
  BY <1>0, <1>1, <1>2 DEF InFlight
<1>6. UnderWayOnce'
  <2>0. /\ OnceIn(x2i) /\ OnceIn(fw) /\ OnceIn(i2x)
        /\ Apart(x2i, fw) /\ Apart(x2i, i2x) /\ Apart(fw, i2x)
    BY DEF ChannelInv, UnderWayOnce
  <2>1. OnceIn(x2i')
    BY <2>0, <1>1 DEF OnceIn
  <2>2. OnceIn(fw')
    BY <2>0, <1>1, <1>2 DEF OnceIn, Apart
  <2>3. Apart(x2i', fw')
    <3> SUFFICES ASSUME NEW i \in 1..(Len(x2i) - 1), NEW j \in 1..(Len(fw) + 1)
                 PROVE  x2i[i + 1].h # fw'[j].h
      BY <1>1, <1>2 DEF Apart
    <3>1. CASE j = Len(fw) + 1
      BY <3>1, <2>0, <1>1, <1>2 DEF OnceIn
    <3>2. CASE j # Len(fw) + 1
      <4>1. j \in 1..Len(fw) /\ fw'[j] = fw[j] /\ i + 1 \in 1..Len(x2i)
        BY <3>2, <1>1, <1>2
      <4> QED BY <4>1, <2>0 DEF Apart
    <3> QED BY <3>1, <3>2
  <2>4. Apart(x2i', i2x)
    <3> SUFFICES ASSUME NEW i \in 1..(Len(x2i) - 1), NEW j \in 1..Len(i2x)
                 PROVE  x2i'[i].h # i2x[j].h
      BY <1>1 DEF Apart
    <3>1. x2i'[i] = x2i[i + 1] /\ i + 1 \in 1..Len(x2i)
      BY <1>1
    <3> QED BY <3>1, <2>0 DEF Apart
  <2>5. Apart(fw', i2x)
    <3> SUFFICES ASSUME NEW i \in 1..(Len(fw) + 1), NEW j \in 1..Len(i2x)
                 PROVE  fw'[i].h # i2x[j].h
      BY <1>2 DEF Apart
    <3>1. CASE i = Len(fw) + 1
      <4>1. fw'[i] = x2i[1] /\ 1 \in 1..Len(x2i)
        BY <3>1, <1>1, <1>2
      <4> QED BY <4>1, <2>0 DEF Apart
    <3>2. CASE i # Len(fw) + 1
      <4>1. fw'[i] = fw[i] /\ i \in 1..Len(fw)
        BY <3>2, <1>2
      <4> QED BY <4>1, <2>0 DEF Apart
    <3> QED BY <3>1, <3>2
  <2>6. \A m \in InFlight' : m.h \in 1..made /\ (m.id = None => corrupt)
    BY <1>5 DEF ChannelInv, UnderWayOnce
  <2> QED
    BY <2>0, <2>1, <2>2, <2>3, <2>4, <2>5, <2>6, <1>0
    DEF UnderWayOnce, OnceIn, Apart, sender
<1>7. OrderKept'
  <2> SUFFICES ASSUME InSequence PROVE InSequence'
    BY <1>0 DEF ChannelInv, OrderKept, ids
  <2>1. UnderWay' = UnderWay /\ Pushing' = Pushing /\ Oldest' = Oldest /\ NextResp' = NextResp
    <3>1. UnderWay' = UnderWay
      BY <1>0, <1>1, <1>2, <1>3 DEF UnderWay
    <3> QED BY <3>1, <1>0 DEF Pushing, Oldest, NextResp, ids, sender
  <2>2. PICK o \in Int : o = Oldest
    BY OldestType DEF ChannelInv
  <2>3. \A i \in 1..(Len(fw) + 1) : /\ fw'[i].id = Nth(Len(i2x) + i)
                                    /\ fw'[i].h = o + Len(i2x) + i
    <3> SUFFICES ASSUME NEW i \in 1..(Len(fw) + 1)
                 PROVE  fw'[i].id = Nth(Len(i2x) + i) /\ fw'[i].h = o + Len(i2x) + i
      OBVIOUS
    <3>1. CASE i = Len(fw) + 1
      <4>1. /\ x2i[1].id = Nth(Len(i2x) + Len(fw) + 1)
            /\ x2i[1].h = o + Len(i2x) + Len(fw) + 1
        BY <1>1, <2>2 DEF InSequence
      <4>2. /\ Len(i2x) + Len(fw) + 1 = Len(i2x) + i
            /\ o + Len(i2x) + Len(fw) + 1 = o + Len(i2x) + i
        BY <3>1, <1>2, <1>3, <2>2
      <4> QED BY <4>1, <4>2, <3>1, <1>2
    <3>2. CASE i # Len(fw) + 1
      <4>1. i \in 1..Len(fw) /\ fw'[i] = fw[i]
        BY <3>2, <1>2
      <4> QED BY <4>1, <2>2 DEF InSequence
    <3> QED BY <3>1, <3>2
  <2>4. \A i \in 1..(Len(x2i) - 1) :
           /\ x2i'[i].id = Nth(Len(i2x) + (Len(fw) + 1) + i)
           /\ x2i'[i].h = o + Len(i2x) + (Len(fw) + 1) + i
    <3> SUFFICES ASSUME NEW i \in 1..(Len(x2i) - 1)
                 PROVE  /\ x2i[i + 1].id = Nth(Len(i2x) + (Len(fw) + 1) + i)
                        /\ x2i[i + 1].h = o + Len(i2x) + (Len(fw) + 1) + i
      BY <1>1
    <3>1. i + 1 \in 1..Len(x2i)
      BY <1>1
    <3>2. /\ x2i[i + 1].id = Nth(Len(i2x) + Len(fw) + (i + 1))
          /\ x2i[i + 1].h = o + Len(i2x) + Len(fw) + (i + 1)
      BY <3>1, <2>2 DEF InSequence
    <3>3. /\ Len(i2x) + Len(fw) + (i + 1) = Len(i2x) + (Len(fw) + 1) + i
          /\ o + Len(i2x) + Len(fw) + (i + 1) = o + Len(i2x) + (Len(fw) + 1) + i
      BY <1>2, <1>3, <2>2
    <3> QED BY <3>2, <3>3
  <2>5. /\ UnderWay + Pushing <= Limit /\ Oldest >= 0
        /\ \A i \in 1..Len(i2x) : i2x[i].id = Nth(i) /\ i2x[i].h = Oldest + i
        /\ spc = "push" => chan_xa[Nth(UnderWay + 1)] = cur
        /\ (IF next_msgid = Ids THEN 0 ELSE next_msgid) = Nth(UnderWay + Pushing + 1)
        /\ \A e \in Entry : chan_xa[e] # None =>
              \E k \in 1..(UnderWay + Pushing) : e = Nth(k)
    BY DEF InSequence
  <2>6. (UnderWay + Pushing <= Limit /\ Oldest >= 0)'
    BY <2>1, <2>5
  <2>7. (\A i \in 1..Len(i2x) : i2x[i].id = Nth(i) /\ i2x[i].h = Oldest + i)'
    BY <2>1, <2>5, <1>0 DEF Nth
  <2>8. (\A i \in 1..Len(fw) : /\ fw[i].id = Nth(Len(i2x) + i)
                                /\ fw[i].h = Oldest + Len(i2x) + i)'
    BY <2>1, <2>2, <2>3, <1>0, <1>2 DEF Nth
  <2>9. (\A i \in 1..Len(x2i) : /\ x2i[i].id = Nth(Len(i2x) + Len(fw) + i)
                                 /\ x2i[i].h = Oldest + Len(i2x) + Len(fw) + i)'
    BY <2>1, <2>2, <2>4, <1>0, <1>1, <1>2 DEF Nth
  <2>10. (/\ spc = "push" => chan_xa[Nth(UnderWay + 1)] = cur
          /\ (IF next_msgid = Ids THEN 0 ELSE next_msgid) = Nth(UnderWay + Pushing + 1))'
    BY <2>1, <2>5, <1>0 DEF Nth, ids, sender
  <2>11. (\A e \in Entry : chan_xa[e] # None =>
            \E k \in 1..(UnderWay + Pushing) : e = Nth(k))'
    BY <2>1, <2>5, <1>0 DEF Nth, ids
  <2> QED BY <2>6, <2>7, <2>8, <2>9, <2>10, <2>11 DEF InSequence
<1> QED BY <1>0, <1>4, <1>5, <1>6, <1>7, MoveKeepsInv

(* The firmware answers a message.                                         *)
LEMMA FwPutKeepsInv ==
    ASSUME ChannelInv, NEW j \in 1..Len(fw), FwPut(j)
    PROVE  ChannelInv'
<1> USE ChannelAssumption
<1>0. /\ type = "mgmt" \/ j = 1
      /\ ring' = TRUE
      /\ UNCHANGED <<ids, x2i, iohub, sender, calls, worker, poller, chan>>
  BY DEF FwPut
<1>1. PICK m : /\ i2x' = Append(i2x, m)
               /\ \/ m = fw[j] /\ corrupt' = corrupt
                  \/ m = [id |-> None, h |-> fw[j].h] /\ corrupt' = TRUE
  BY DEF FwPut
<1>2. /\ Len(fw) \in Nat /\ fw[j] \in Msg /\ fw' \in Seq(Msg) /\ Len(fw') = Len(fw) - 1
      /\ \A i \in 1..(Len(fw) - 1) : fw'[i] = IF i < j THEN fw[i] ELSE fw[i + 1]
  <2>1. fw' = SubSeq(fw, 1, j - 1) \o SubSeq(fw, j + 1, Len(fw))
    BY DEF FwPut
  <2>2. fw \in Seq(Msg)
    BY DEF ChannelInv, TypeOK
  <2>3. Len(fw) \in Nat /\ fw[j] \in Msg
    BY <2>2
  <2> QED BY <2>1, <2>2, <2>3, RemovedShape
<1>3. m \in Msg /\ m.h = fw[j].h
  BY <1>1, <1>2 DEF Msg
<1>4. /\ Len(i2x) \in Nat /\ i2x' \in Seq(Msg) /\ Len(i2x') = Len(i2x) + 1
      /\ \A i \in 1..Len(i2x) : i2x'[i] = i2x[i]
      /\ i2x'[Len(i2x) + 1] = m
  BY <1>1, <1>3, AppendProperties DEF ChannelInv, TypeOK
<1>5. Len(x2i) \in Nat
  BY DEF ChannelInv, TypeOK
<1>6. TypeOK'
  <2>1. corrupt' \in BOOLEAN /\ ring' \in BOOLEAN
    BY <1>0, <1>1 DEF ChannelInv, TypeOK
  <2> QED BY <2>1, <1>0, <1>2, <1>4
        DEF ChannelInv, TypeOK, ids, sender, calls, worker, poller
<1>7. \A i \in 1..(Len(fw) - 1) : \E k \in 1..Len(fw) : k # j /\ fw'[i] = fw[k]
                                     /\ k = IF i < j THEN i ELSE i + 1
  BY <1>2
<1>8. \A q \in InFlight' : q \in InFlight \/ q = m
  <2>1. \A i \in 1..Len(fw') : fw'[i] \in InFlight
    BY <1>2, <1>7 DEF InFlight
  <2>2. \A i \in 1..Len(i2x') : i2x'[i] \in InFlight \/ i2x'[i] = m
    BY <1>4 DEF InFlight
  <2>3. \A i \in 1..Len(x2i') : x2i'[i] \in InFlight
    BY <1>0 DEF InFlight
  <2> QED BY <2>1, <2>2, <2>3 DEF InFlight
<1>9. fw[j] \in InFlight
  BY DEF InFlight
<1>10. UnderWayOnce'
  <2>0. /\ OnceIn(x2i) /\ OnceIn(fw) /\ OnceIn(i2x)
        /\ Apart(x2i, fw) /\ Apart(x2i, i2x) /\ Apart(fw, i2x)
    BY DEF ChannelInv, UnderWayOnce
  <2>1. OnceIn(fw')
    <3> SUFFICES ASSUME NEW a \in 1..(Len(fw) - 1), NEW b \in 1..(Len(fw) - 1),
                        fw'[a].h = fw'[b].h
                 PROVE  a = b
      BY <1>2 DEF OnceIn
    <3>1. PICK k \in 1..Len(fw) : fw'[a] = fw[k] /\ k = IF a < j THEN a ELSE a + 1
      BY <1>7
    <3>2. PICK l \in 1..Len(fw) : fw'[b] = fw[l] /\ l = IF b < j THEN b ELSE b + 1
      BY <1>7
    <3>3. k = l
      BY <3>1, <3>2, <2>0 DEF OnceIn
    <3> QED BY <3>1, <3>2, <3>3, <1>2
  <2>2. OnceIn(i2x')
    BY <2>0, <1>3, <1>4 DEF OnceIn, Apart
  <2>3. Apart(x2i, fw')
    BY <2>0, <1>2, <1>7 DEF Apart
  <2>4. Apart(x2i, i2x')
    BY <2>0, <1>3, <1>4, <1>5 DEF Apart
  <2>5. Apart(fw', i2x')
    <3> SUFFICES ASSUME NEW a \in 1..(Len(fw) - 1), NEW b \in 1..(Len(i2x) + 1)
                 PROVE  fw'[a].h # i2x'[b].h
      BY <1>2, <1>4 DEF Apart
    <3>1. PICK k \in 1..Len(fw) : k # j /\ fw'[a] = fw[k]
      BY <1>7
    <3>2. CASE b = Len(i2x) + 1
      BY <3>1, <3>2, <2>0, <1>3, <1>4 DEF OnceIn
    <3>3. CASE b # Len(i2x) + 1
      <4>1. b \in 1..Len(i2x) /\ i2x'[b] = i2x[b]
        BY <3>3, <1>4
      <4> QED BY <4>1, <3>1, <2>0 DEF Apart
    <3> QED BY <3>2, <3>3
  <2>6. \A q \in InFlight' : q.h \in 1..made /\ (q.id = None => corrupt')
    <3>1. \A q \in InFlight : q.h \in 1..made /\ (q.id = None => corrupt)
      BY DEF ChannelInv, UnderWayOnce
    <3>2. corrupt => corrupt'
      BY <1>1
    <3>3. m.id = None => corrupt'
      BY <1>1, <1>9, <3>1
    <3> QED BY <3>1, <3>2, <3>3, <1>3, <1>8, <1>9
  <2> QED
    BY <2>0, <2>1, <2>2, <2>3, <2>4, <2>5, <2>6, <1>0
    DEF UnderWayOnce, OnceIn, Apart, sender
<1>11. OrderKept'
  <2> SUFFICES ASSUME WaitsOnMgmt, RoomForAll, type # "mgmt", ~corrupt'
               PROVE  InSequence'
    BY <1>0 DEF OrderKept, ids
  <2>0. j = 1 /\ m = fw[1] /\ ~corrupt
    BY <1>0, <1>1
  <2>1. InSequence
    BY <2>0 DEF ChannelInv, OrderKept
  <2>2. UnderWay' = UnderWay /\ Pushing' = Pushing /\ Oldest' = Oldest /\ NextResp' = NextResp
    <3>1. UnderWay' = UnderWay
      BY <1>0, <1>2, <1>4, <1>5 DEF UnderWay
    <3> QED BY <3>1, <1>0 DEF Pushing, Oldest, NextResp, ids, sender
  <2>3. PICK o \in Int : o = Oldest
    BY OldestType DEF ChannelInv
  <2>4. \A i \in 1..(Len(i2x) + 1) : i2x'[i].id = Nth(i) /\ i2x'[i].h = o + i
    <3> SUFFICES ASSUME NEW i \in 1..(Len(i2x) + 1)
                 PROVE  i2x'[i].id = Nth(i) /\ i2x'[i].h = o + i
      OBVIOUS
    <3>1. CASE i = Len(i2x) + 1
      <4>1. fw[1].id = Nth(Len(i2x) + 1) /\ fw[1].h = o + Len(i2x) + 1
        BY <2>0, <2>1, <2>3 DEF InSequence
      <4>2. o + Len(i2x) + 1 = o + i
        BY <3>1, <1>4, <2>3
      <4> QED BY <4>1, <4>2, <3>1, <2>0, <1>4
    <3>2. CASE i # Len(i2x) + 1
      <4>1. i \in 1..Len(i2x) /\ i2x'[i] = i2x[i]
        BY <3>2, <1>4
      <4> QED BY <4>1, <2>1, <2>3 DEF InSequence
    <3> QED BY <3>1, <3>2
  <2>5. \A i \in 1..(Len(fw) - 1) : /\ fw'[i].id = Nth((Len(i2x) + 1) + i)
                                    /\ fw'[i].h = o + (Len(i2x) + 1) + i
    <3> SUFFICES ASSUME NEW i \in 1..(Len(fw) - 1)
                 PROVE  /\ fw[i + 1].id = Nth((Len(i2x) + 1) + i)
                        /\ fw[i + 1].h = o + (Len(i2x) + 1) + i
      <4>1. \A i \in 1..(Len(fw) - 1) : fw'[i] = fw[i + 1]
        BY <1>2, <2>0
      <4> QED BY <4>1
    <3>1. i + 1 \in 1..Len(fw)
      BY <1>2
    <3>2. fw[i + 1].id = Nth(Len(i2x) + (i + 1)) /\ fw[i + 1].h = o + Len(i2x) + (i + 1)
      BY <3>1, <2>1, <2>3 DEF InSequence
    <3>3. /\ Len(i2x) + (i + 1) = (Len(i2x) + 1) + i
          /\ o + Len(i2x) + (i + 1) = o + (Len(i2x) + 1) + i
      BY <1>4, <2>3
    <3> QED BY <3>2, <3>3
  <2>6. \A i \in 1..Len(x2i) : /\ x2i[i].id = Nth((Len(i2x) + 1) + (Len(fw) - 1) + i)
                               /\ x2i[i].h = o + (Len(i2x) + 1) + (Len(fw) - 1) + i
    <3> SUFFICES ASSUME NEW i \in 1..Len(x2i)
                 PROVE  /\ x2i[i].id = Nth((Len(i2x) + 1) + (Len(fw) - 1) + i)
                        /\ x2i[i].h = o + (Len(i2x) + 1) + (Len(fw) - 1) + i
      OBVIOUS
    <3>1. /\ x2i[i].id = Nth(Len(i2x) + Len(fw) + i)
          /\ x2i[i].h = o + Len(i2x) + Len(fw) + i
      BY <2>1, <2>3 DEF InSequence
    <3>2. /\ (Len(i2x) + 1) + (Len(fw) - 1) + i = Len(i2x) + Len(fw) + i
          /\ o + (Len(i2x) + 1) + (Len(fw) - 1) + i = o + Len(i2x) + Len(fw) + i
      BY <1>2, <1>4, <2>3
    <3> QED BY <3>1, <3>2
  <2>7. /\ UnderWay + Pushing <= Limit /\ Oldest >= 0
        /\ spc = "push" => chan_xa[Nth(UnderWay + 1)] = cur
        /\ (IF next_msgid = Ids THEN 0 ELSE next_msgid) = Nth(UnderWay + Pushing + 1)
        /\ \A e \in Entry : chan_xa[e] # None =>
              \E k \in 1..(UnderWay + Pushing) : e = Nth(k)
    BY <2>1 DEF InSequence
  <2>8. (UnderWay + Pushing <= Limit /\ Oldest >= 0)'
    BY <2>2, <2>7
  <2>9. (\A i \in 1..Len(i2x) : i2x[i].id = Nth(i) /\ i2x[i].h = Oldest + i)'
    BY <2>2, <2>3, <2>4, <1>4 DEF Nth
  <2>10. (\A i \in 1..Len(fw) : /\ fw[i].id = Nth(Len(i2x) + i)
                                /\ fw[i].h = Oldest + Len(i2x) + i)'
    BY <2>2, <2>3, <2>5, <1>2, <1>4 DEF Nth
  <2>11. (\A i \in 1..Len(x2i) : /\ x2i[i].id = Nth(Len(i2x) + Len(fw) + i)
                                 /\ x2i[i].h = Oldest + Len(i2x) + Len(fw) + i)'
    BY <2>2, <2>3, <2>6, <1>0, <1>2, <1>4 DEF Nth
  <2>12. (/\ spc = "push" => chan_xa[Nth(UnderWay + 1)] = cur
          /\ (IF next_msgid = Ids THEN 0 ELSE next_msgid) = Nth(UnderWay + Pushing + 1))'
    BY <2>2, <2>7, <1>0 DEF Nth, ids, sender
  <2>13. (\A e \in Entry : chan_xa[e] # None =>
            \E k \in 1..(UnderWay + Pushing) : e = Nth(k))'
    BY <2>2, <2>7, <1>0 DEF Nth, ids
  <2> QED BY <2>8, <2>9, <2>10, <2>11, <2>12, <2>13 DEF InSequence
<1>12. \A q \in InFlight' : q.id # None => q \in InFlight
  BY <1>1, <1>8, <1>9
<1>13. \A q \in InFlight' : \E p \in InFlight : p.h = q.h
  BY <1>3, <1>8, <1>9
<1> QED BY <1>0, <1>6, <1>10, <1>11, <1>12, <1>13, MoveKeepsInv
-----------------------------------------------------------------------------
(* The response of a firmware that has not failed is accepted.             *)
LEMMA HealthyAnswerFits ==
    ASSUME ChannelInv, WaitsOnMgmt, RoomForAll, i2x # <<>>, ~corrupt
    PROVE  /\ RespOk(Head(i2x))
           /\ type # "mgmt" => Head(i2x).id = NextResp
<1> USE ChannelAssumption
<1> DEFINE m == Head(i2x)
<1>1. m = i2x[1] /\ m \in InFlight /\ 1 \in 1..Len(i2x) /\ m \in Msg
  <2>1. Len(i2x) \in Nat \ {0} /\ Head(i2x) = i2x[1] /\ i2x[1] \in Msg
    BY TailShape DEF ChannelInv, TypeOK
  <2> QED BY <2>1 DEF InFlight
<1> HIDE DEF m
<1>2. m.id # None /\ m.id \in Entry
  BY <1>1 DEF ChannelInv, UnderWayOnce, Msg
<1>3. chan_xa[m.id] # None
  BY <1>1, <1>2, InFlightDue
<1>4. type # "mgmt" => m.id = NextResp
  <2> SUFFICES ASSUME type # "mgmt" PROVE m.id = NextResp
    OBVIOUS
  <2>1. InSequence
    BY DEF ChannelInv, OrderKept
  <2>2. m.id = Nth(1)
    BY <2>1, <1>1 DEF InSequence
  <2> QED BY <2>2, NthFacts DEF ChannelInv
<1>5. validate_msgid(m.id)
  <2>1. CASE type = "mgmt"
    BY <2>1, <1>2 DEF validate_msgid
  <2>2. CASE type # "mgmt"
    BY <2>2, <1>2, <1>4 DEF validate_msgid, NextResp
  <2> QED BY <2>1, <2>2
<1> QED BY <1>3, <1>4, <1>5 DEF RespOk, m

(* mailbox_get_msg() with the callback of the message, or none.            *)
LEMMA GetMsgKeepsInv ==
    ASSUME ChannelInv, i2x # <<>>, GetMsg, chan # "freed", ReceiversStop',
           UNCHANGED <<iohub, sender, rxq, sent_msg, chan, firmware>>,
           rx' \in {"idle", "clear", "loop", "recheck"}, irq' \in BOOLEAN,
           polld' \in {"check", "sleep", "scan", "drain", "empty"}
    PROVE  ChannelInv'
<1> USE ChannelAssumption
<1>0. PICK m : m = Head(i2x)
  OBVIOUS
<1>1. /\ i2x' = Tail(i2x)
      /\ last_msg_id' = IF validate_msgid(m.id) THEN m.id ELSE last_msg_id
      /\ bad_state' = (bad_state \/ ~RespOk(m))
      /\ RespOk(m) => /\ Call({chan_xa[m.id]})
                      /\ chan_xa' = [chan_xa EXCEPT ![m.id] = None]
      /\ ~RespOk(m) => UNCHANGED <<calls, chan_xa>>
      /\ UNCHANGED <<type, next_msgid, x2i>>
  BY <1>0 DEF GetMsg
<1>2. /\ Len(i2x) \in Nat \ {0} /\ m = i2x[1] /\ m \in Msg
      /\ i2x' \in Seq(Msg) /\ Len(i2x') = Len(i2x) - 1
      /\ \A i \in 1..(Len(i2x) - 1) : i2x'[i] = i2x[i + 1]
  BY <1>0, <1>1, TailShape DEF ChannelInv, TypeOK
<1>3. UNCHANGED <<fw, corrupt, ring>> /\ Len(fw) \in Nat /\ Len(x2i) \in Nat
      /\ UNCHANGED <<spc, cur, made, kind, chan, type, next_msgid, x2i>>
  BY <1>1 DEF firmware, sender, ChannelInv, TypeOK
<1>4. m \in InFlight /\ InFlight' \subseteq InFlight
  BY <1>2, <1>3 DEF InFlight
<1>5. \A q \in InFlight' : q.h # m.h
  <2>0. /\ OnceIn(i2x) /\ Apart(x2i, i2x) /\ Apart(fw, i2x)
    BY DEF ChannelInv, UnderWayOnce
  <2>1. \A i \in 1..Len(x2i) : x2i[i].h # m.h
    BY <2>0, <1>2 DEF Apart
  <2>2. \A i \in 1..Len(fw) : fw[i].h # m.h
    BY <2>0, <1>2 DEF Apart
  <2>3. \A i \in 1..(Len(i2x) - 1) : i2x'[i].h # m.h
    BY <2>0, <1>2 DEF OnceIn
  <2> QED BY <2>1, <2>2, <2>3, <1>2, <1>3 DEF InFlight
<1>6. ASSUME RespOk(m)
      PROVE  /\ m.id \in Entry /\ chan_xa[m.id] = m.h /\ m.h # None
             /\ m.h \in Handle /\ m.h \in 1..made /\ cb[m.h] = 0
             /\ \A e \in Entry : chan_xa[e] = m.h => e = m.id
             /\ \A e \in Entry : chan_xa'[e] = IF e = m.id THEN None ELSE chan_xa[e]
             /\ cb' = [h \in Handle |-> IF h = m.h THEN cb[h] + 1 ELSE cb[h]]
             /\ live' = [h \in Handle |-> live[h] /\ ~(h = m.h /\ kind[h] = "async")]
  <2>1. m.id # None
    BY <1>6 DEF RespOk, validate_msgid
  <2>2. /\ m.id \in Entry /\ chan_xa[m.id] = m.h /\ m.h # None /\ m.h \in Handle
        /\ m.h \in 1..made /\ cb[m.h] = 0
    BY <2>1, <1>4, InFlightDue DEF Msg
  <2>3. \A e \in Entry : chan_xa[e] = m.h => e = m.id
    BY <2>2 DEF ChannelInv, TableSound
  <2>4. \A e \in Entry : chan_xa'[e] = IF e = m.id THEN None ELSE chan_xa[e]
    BY <1>1, <1>6 DEF ChannelInv, TypeOK
  <2>5. /\ cb' = [h \in Handle |-> IF h = m.h THEN cb[h] + 1 ELSE cb[h]]
        /\ live' = [h \in Handle |-> live[h] /\ ~(h = m.h /\ kind[h] = "async")]
    BY <2>2, <1>1, <1>6 DEF Call
  <2> QED BY <2>2, <2>3, <2>4, <2>5
<1>7. TypeOK'
  <2>1. last_msg_id' \in Entry \cup {None}
    BY <1>1, <1>2 DEF ChannelInv, TypeOK, Msg
  <2>2. /\ chan_xa' \in [Entry -> Handle \cup {None}]
        /\ cb' \in [Handle -> Nat] /\ live' \in [Handle -> BOOLEAN]
    <3>1. CASE RespOk(m)
      <4>1. chan_xa' \in [Entry -> Handle \cup {None}]
        BY <3>1, <1>1 DEF ChannelInv, TypeOK
      <4>2. cb' \in [Handle -> Nat]
        BY <3>1, <1>6 DEF ChannelInv, TypeOK
      <4>3. live' \in [Handle -> BOOLEAN]
        BY <3>1, <1>6
      <4> QED BY <4>1, <4>2, <4>3
    <3>2. CASE ~RespOk(m)
      BY <3>2, <1>1 DEF ChannelInv, TypeOK, calls
    <3> QED BY <3>1, <3>2
  <2>3. bad_state' \in BOOLEAN
    BY <1>1
  <2> QED BY <2>1, <2>2, <2>3, <1>1, <1>2, <1>3 DEF ChannelInv, TypeOK
<1>8. ResponseMatched'
  <2> SUFFICES ASSUME NEW q \in InFlight', q.id # None PROVE chan_xa'[q.id] = q.h
    BY DEF ResponseMatched
  <2>1. q.id \in Entry /\ chan_xa[q.id] = q.h /\ q.h # m.h
    BY <1>4, <1>5, InFlightDue
  <2>2. CASE RespOk(m)
    BY <2>1, <2>2, <1>6
  <2>3. CASE ~RespOk(m)
    BY <2>1, <2>3, <1>1
  <2> QED BY <2>2, <2>3
<1>9. SenderAt'
  <2>1. ASSUME spc = "push"
        PROVE  (\E e \in Entry : chan_xa'[e] = cur) /\ (\A q \in InFlight' : q.h # cur)
    <3>1. (\E e \in Entry : chan_xa[e] = cur) /\ (\A q \in InFlight : q.h # cur)
      BY <2>1 DEF ChannelInv, SenderAt
    <3>2. CASE RespOk(m)
      BY <3>1, <3>2, <1>4, <1>6
    <3>3. CASE ~RespOk(m)
      BY <3>1, <3>3, <1>1, <1>4
    <3> QED BY <3>2, <3>3
  <2> QED BY <2>1, <1>3 DEF ChannelInv, SenderAt
<1>10. UnderWayOnce'
  <2>0. /\ OnceIn(x2i) /\ OnceIn(fw) /\ OnceIn(i2x)
        /\ Apart(x2i, fw) /\ Apart(x2i, i2x) /\ Apart(fw, i2x)
    BY DEF ChannelInv, UnderWayOnce
  <2>1. OnceIn(i2x')
    BY <2>0, <1>2 DEF OnceIn
  <2>2. Apart(x2i, i2x') /\ Apart(fw, i2x')
    <3>1. \A i \in 1..(Len(i2x) - 1) : i + 1 \in 1..Len(i2x)
      BY <1>2
    <3>2. Apart(x2i, i2x')
      BY <3>1, <2>0, <1>2 DEF Apart
    <3>3. Apart(fw, i2x')
      BY <3>1, <2>0, <1>2 DEF Apart
    <3> QED BY <3>2, <3>3
  <2>3. \A q \in InFlight' : q.h \in 1..made /\ (q.id = None => corrupt)
    BY <1>4 DEF ChannelInv, UnderWayOnce
  <2> QED BY <2>0, <2>1, <2>2, <2>3, <1>3 DEF UnderWayOnce, OnceIn, Apart
<1>11. TableSound'
  <2>1. CASE ~RespOk(m)
    BY <2>1, <1>1, <1>3 DEF ChannelInv, TableSound, calls
  <2>2. CASE RespOk(m)
    <3>0. \A h \in Handle : /\ cb'[h] = IF h = m.h THEN cb[h] + 1 ELSE cb[h]
                            /\ live'[h] => live[h]
                            /\ h # m.h /\ live[h] => live'[h]
                            /\ cb[h] \in Nat
      BY <2>2, <1>6 DEF ChannelInv, TypeOK
    <3>1. \A h \in Handle : h > made => cb'[h] = 0
      BY <3>0, <2>2, <1>6 DEF ChannelInv, TableSound, TypeOK
    <3>2. \A h \in 1..made : kind[h] \in Kinds[type]
      BY DEF ChannelInv, TableSound
    <3>3. ASSUME NEW e \in Entry, chan_xa'[e] # None
          PROVE  /\ chan_xa'[e] \in 1..made /\ cb'[chan_xa'[e]] = 0
                 /\ WaitsOnMgmt => live'[chan_xa'[e]]
      <4>1. e # m.id /\ chan_xa'[e] = chan_xa[e] /\ chan_xa[e] # m.h /\ chan_xa[e] # None
        BY <3>3, <2>2, <1>6
      <4>2. /\ chan_xa[e] \in 1..made /\ cb[chan_xa[e]] = 0 /\ chan_xa[e] \in Handle
            /\ WaitsOnMgmt => live[chan_xa[e]]
        BY <4>1 DEF ChannelInv, TableSound, TypeOK
      <4> QED BY <4>1, <4>2, <3>0
    <3>4. \A c, d \in Entry : chan_xa'[c] # None /\ chan_xa'[c] = chan_xa'[d] => c = d
      BY <2>2, <1>6 DEF ChannelInv, TableSound
    <3>5. ASSUME NEW h \in Handle, live'[h], cb'[h] = 0
          PROVE  \E e \in Entry : chan_xa'[e] = h
      <4>1. h # m.h /\ cb[h] = 0 /\ live[h]
        BY <3>0, <3>5
      <4>2. PICK e \in Entry : chan_xa[e] = h
        BY <4>1 DEF ChannelInv, TableSound
      <4> QED BY <4>1, <4>2, <2>2, <1>6
    <3> QED BY <3>1, <3>2, <3>3, <3>4, <3>5, <1>3 DEF TableSound
  <2> QED BY <2>1, <2>2
<1>12. OrderKept'
  <2> SUFFICES ASSUME WaitsOnMgmt, RoomForAll, type # "mgmt", ~corrupt
               PROVE  InSequence'
    BY <1>3 DEF OrderKept
  <2>1. InSequence
    BY DEF ChannelInv, OrderKept
  <2>2. RespOk(m) /\ m.id = NextResp
    BY <1>0, HealthyAnswerFits
  <2>3. PICK n \in Nat : n = NextResp /\ n \in Entry
    BY NthFacts DEF ChannelInv, Entry
  <2>4. PICK u \in Nat : u = UnderWay
    BY OldestType DEF ChannelInv
  <2>5. PICK p \in {0, 1} : p = Pushing
    BY OldestType DEF ChannelInv
  <2>6. PICK o \in Int : o = Oldest
    BY OldestType DEF ChannelInv
  <2>7. /\ u + p <= Limit /\ o >= 0 /\ u >= 1 /\ Limit <= Ids /\ Ids \in Nat \ {0}
        /\ n <= Ids - 1 /\ u = Len(i2x) + Len(fw) + Len(x2i)
    <3>1. u + p <= Limit /\ o >= 0
      BY <2>1, <2>4, <2>5, <2>6 DEF InSequence
    <3>2. u >= 1 /\ u = Len(i2x) + Len(fw) + Len(x2i)
      BY <2>4, <1>2, <1>3 DEF UnderWay
    <3> QED BY <3>1, <3>2, <2>3 DEF RoomForAll, Entry
  <2> DEFINE next == IF n = Ids - 1 THEN 0 ELSE n + 1
             P(k) == IF next + k - 1 < Ids THEN next + k - 1 ELSE next + k - 1 - Ids
  <2>8. /\ UnderWay' = u - 1 /\ Pushing' = p /\ Oldest' = o + 1 /\ NextResp' = next
    <3>1. UnderWay' = u - 1
      BY <2>4, <1>2, <1>3 DEF UnderWay
    <3>2. Pushing' = p
      BY <2>5, <1>3 DEF Pushing
    <3>3. last_msg_id' = n /\ n # None
      BY <2>2, <2>3, <1>1 DEF RespOk, None
    <3>4. Oldest' = made - p - (u - 1) /\ o = made - p - u
      BY <3>1, <3>2, <2>4, <2>5, <2>6, <1>3 DEF Oldest
    <3>5. made \in Int
      BY DEF ChannelInv, TypeOK
    <3> QED BY <3>1, <3>2, <3>3, <3>4, <3>5, <2>4, <2>5 DEF NextResp
  <2>9. \A k \in 1..Ids : P(k) = Nth(k + 1)
    BY <2>3, <2>7 DEF Nth
  <2>10. \A i \in 1..(Len(i2x) - 1) : i2x'[i].id = P(i) /\ i2x'[i].h = o + 1 + i
    <3> SUFFICES ASSUME NEW i \in 1..(Len(i2x) - 1)
                 PROVE  i2x'[i].id = P(i) /\ i2x'[i].h = o + 1 + i
      OBVIOUS
    <3>1. /\ i + 1 \in 1..Len(i2x) /\ i \in 1..Ids /\ o + (i + 1) = o + 1 + i
      BY <1>2, <1>3, <2>5, <2>6, <2>7
    <3>2. i2x[i + 1].id = Nth(i + 1) /\ i2x[i + 1].h = o + (i + 1)
      BY <3>1, <2>1, <2>6 DEF InSequence
    <3> QED BY <3>1, <3>2, <2>9, <1>2
  <2>11. \A i \in 1..Len(fw) : /\ fw[i].id = P((Len(i2x) - 1) + i)
                               /\ fw[i].h = o + 1 + (Len(i2x) - 1) + i
    <3> SUFFICES ASSUME NEW i \in 1..Len(fw)
                 PROVE  /\ fw[i].id = P((Len(i2x) - 1) + i)
                        /\ fw[i].h = o + 1 + (Len(i2x) - 1) + i
      OBVIOUS
    <3>1. /\ (Len(i2x) - 1) + i \in 1..Ids /\ ((Len(i2x) - 1) + i) + 1 = Len(i2x) + i
          /\ o + 1 + (Len(i2x) - 1) + i = o + Len(i2x) + i
      BY <1>2, <1>3, <2>5, <2>6, <2>7
    <3>2. fw[i].id = Nth(Len(i2x) + i) /\ fw[i].h = o + Len(i2x) + i
      BY <2>1, <2>6 DEF InSequence
    <3>3. P((Len(i2x) - 1) + i) = Nth(((Len(i2x) - 1) + i) + 1)
      BY <3>1, <2>9
    <3> HIDE DEF P
    <3> QED BY <3>1, <3>2, <3>3
  <2>12. \A i \in 1..Len(x2i) : /\ x2i[i].id = P((Len(i2x) - 1) + Len(fw) + i)
                                /\ x2i[i].h = o + 1 + (Len(i2x) - 1) + Len(fw) + i
    <3> SUFFICES ASSUME NEW i \in 1..Len(x2i)
                 PROVE  /\ x2i[i].id = P((Len(i2x) - 1) + Len(fw) + i)
                        /\ x2i[i].h = o + 1 + (Len(i2x) - 1) + Len(fw) + i
      OBVIOUS
    <3>1. /\ (Len(i2x) - 1) + Len(fw) + i \in 1..Ids
          /\ ((Len(i2x) - 1) + Len(fw) + i) + 1 = Len(i2x) + Len(fw) + i
          /\ o + 1 + (Len(i2x) - 1) + Len(fw) + i = o + Len(i2x) + Len(fw) + i
      BY <1>2, <1>3, <2>5, <2>6, <2>7
    <3>2. x2i[i].id = Nth(Len(i2x) + Len(fw) + i) /\ x2i[i].h = o + Len(i2x) + Len(fw) + i
      BY <2>1, <2>6 DEF InSequence
    <3>3. P((Len(i2x) - 1) + Len(fw) + i) = Nth(((Len(i2x) - 1) + Len(fw) + i) + 1)
      BY <3>1, <2>9
    <3> HIDE DEF P
    <3> QED BY <3>1, <3>2, <3>3
  <2>13. ASSUME spc = "push" PROVE chan_xa'[P((u - 1) + 1)] = cur
    <3>1. p = 1
      BY <2>5, <2>13 DEF Pushing
    <3>2. (u - 1) + 1 \in 1..Ids /\ ((u - 1) + 1) + 1 = u + 1 /\ u + 1 \in 1..(Ids + 1)
      BY <3>1, <2>7
    <3>3. P((u - 1) + 1) = Nth(((u - 1) + 1) + 1)
      BY <3>2, <2>9
    <3>4. chan_xa[Nth(u + 1)] = cur /\ Nth(u + 1) \in Entry
      BY <3>2, <2>1, <2>4, <2>13, NthFacts DEF InSequence, ChannelInv
    <3>5. cur # m.h
      BY <1>4, <2>13 DEF ChannelInv, SenderAt
    <3> HIDE DEF P
    <3> QED BY <3>2, <3>3, <3>4, <3>5, <2>2, <1>6
  <2>14. (IF next_msgid = Ids THEN 0 ELSE next_msgid) = P((u - 1) + p + 1)
    <3>1. /\ (u - 1) + p + 1 \in 1..Ids /\ ((u - 1) + p + 1) + 1 = u + p + 1
      BY <2>5, <2>7
    <3>2. P((u - 1) + p + 1) = Nth(((u - 1) + p + 1) + 1)
      BY <3>1, <2>9
    <3> HIDE DEF P
    <3> QED BY <3>1, <3>2, <2>1, <2>4, <2>5 DEF InSequence
  <2>15. ASSUME NEW e \in Entry, chan_xa'[e] # None
         PROVE  \E k \in 1..((u - 1) + p) : e = P(k)
    <3>1. e # m.id /\ chan_xa[e] # None
      BY <2>2, <2>15, <1>6
    <3>2. PICK k \in 1..(u + p) : e = Nth(k)
      BY <3>1, <2>1, <2>4, <2>5 DEF InSequence
    <3>3. k # 1
      BY <3>1, <3>2, <2>2, NthFacts DEF ChannelInv
    <3>4. k - 1 \in 1..((u - 1) + p) /\ k - 1 \in 1..Ids /\ (k - 1) + 1 = k
      BY <3>2, <3>3, <2>5, <2>7
    <3>5. P(k - 1) = Nth((k - 1) + 1)
      BY <3>4, <2>9
    <3> HIDE DEF P
    <3> QED BY <3>2, <3>4, <3>5
  <2>16. (u - 1) + p <= Limit /\ o + 1 >= 0
    BY <2>5, <2>7
  <2>17. (UnderWay + Pushing <= Limit /\ Oldest >= 0)'
    BY <2>8, <2>16
  <2>18. (\A i \in 1..Len(i2x) : i2x[i].id = Nth(i) /\ i2x[i].h = Oldest + i)'
    BY <2>8, <2>10, <1>2 DEF Nth
  <2>19. (\A i \in 1..Len(fw) : /\ fw[i].id = Nth(Len(i2x) + i)
                                /\ fw[i].h = Oldest + Len(i2x) + i)'
    BY <2>8, <2>11, <1>2, <1>3 DEF Nth
  <2>20. (\A i \in 1..Len(x2i) : /\ x2i[i].id = Nth(Len(i2x) + Len(fw) + i)
                                 /\ x2i[i].h = Oldest + Len(i2x) + Len(fw) + i)'
    BY <2>8, <2>12, <1>2, <1>3 DEF Nth
  <2>21. (/\ spc = "push" => chan_xa[Nth(UnderWay + 1)] = cur
          /\ (IF next_msgid = Ids THEN 0 ELSE next_msgid) = Nth(UnderWay + Pushing + 1))'
    BY <2>8, <2>13, <2>14, <1>3 DEF Nth
  <2>22. (\A e \in Entry : chan_xa[e] # None =>
            \E k \in 1..(UnderWay + Pushing) : e = Nth(k))'
    BY <2>8, <2>15 DEF Nth
  <2> QED BY <2>17, <2>18, <2>19, <2>20, <2>21, <2>22 DEF InSequence
<1>13. NothingForgotten'
  BY <1>7, <1>11, TableForgetsNothing, PTL
<1> QED BY <1>7, <1>8, <1>9, <1>10, <1>11, <1>12, <1>13 DEF ChannelInv

(* The worker takes a response.                                            *)
LEMMA RxGetKeepsInv ==
    ASSUME ChannelInv, RxGet
    PROVE  ChannelInv'
<1>0. /\ rx = "loop" /\ i2x # <<>> /\ GetMsg
      /\ (rx' = rx /\ irq' = irq) \/ (rx' = "idle" /\ irq' = FALSE)
      /\ UNCHANGED <<iohub, sender, rxq, poller, chan, firmware>>
  BY DEF RxGet
<1>1. chan # "freed" /\ chan # "stopped" /\ chan # "unlisted"
  BY <1>0 DEF ChannelInv, ReceiversStop
<1>2. /\ rx' \in {"idle", "clear", "loop", "recheck"} /\ irq' \in BOOLEAN
      /\ polld' \in {"check", "sleep", "scan", "drain", "empty"}
  BY <1>0 DEF ChannelInv, TypeOK, poller
<1>3. type' = type
  BY <1>0 DEF GetMsg
<1>4. ReceiversStop'
  BY <1>0, <1>1, <1>3 DEF ChannelInv, ReceiversStop, poller
<1> QED BY <1>0, <1>1, <1>2, <1>4, GetMsgKeepsInv DEF poller

(* The poller takes a response.                                            *)
LEMMA PollDrainKeepsInv ==
    ASSUME ChannelInv, PollDrain
    PROVE  ChannelInv'
<1>1. CASE i2x = <<>>
  BY <1>1, PollKeepsInv
<1>2. CASE i2x # <<>>
  <2>0. /\ polld = "drain" /\ GetMsg /\ polld' \in {"drain", "check"}
        /\ UNCHANGED <<iohub, sender, worker, sent_msg, chan, firmware>>
    BY <1>2 DEF PollDrain
  <2>1. chan # "freed" /\ chan # "unlisted" /\ type = "poll"
    BY <2>0 DEF ChannelInv, ReceiversStop
  <2>2. /\ rx' \in {"idle", "clear", "loop", "recheck"} /\ irq' \in BOOLEAN
        /\ polld' \in {"check", "sleep", "scan", "drain", "empty"}
    BY <2>0 DEF ChannelInv, TypeOK, worker
  <2>3. type' = type
    BY <2>0 DEF GetMsg
  <2>4. ReceiversStop'
    BY <2>0, <2>1, <2>3 DEF ChannelInv, ReceiversStop, worker
  <2> QED BY <1>2, <2>0, <2>1, <2>2, <2>4, GetMsgKeepsInv DEF worker
<1> QED BY <1>1, <1>2

(* The channel is destroyed: every message left in the table gets its      *)
(* callback.                                                               *)
LEMMA ReleaseMsgsKeepsInv ==
    ASSUME ChannelInv, ReleaseMsgs
    PROVE  ChannelInv'
<1> USE ChannelAssumption
<1> DEFINE S == {chan_xa[e] : e \in Entry} \ {None}
<1>0. /\ chan = "unlisted" /\ chan' = "freed"
      /\ UNCHANGED <<ids, x2i, i2x, iohub, sender, worker, poller, firmware>>
      /\ cb' = [h \in Handle |-> IF h \in S THEN cb[h] + 1 ELSE cb[h]]
      /\ live' = [h \in Handle |-> live[h] /\ ~(h \in S /\ kind[h] = "async")]
  BY DEF ReleaseMsgs, Call
<1>1. TypeOK'
  <2>1. cb' \in [Handle -> Nat]
    BY <1>0 DEF ChannelInv, TypeOK
  <2>2. live' \in [Handle -> BOOLEAN]
    BY <1>0
  <2> QED BY <1>0, <2>1, <2>2 DEF ChannelInv, TypeOK, ids, sender, worker, poller, firmware
<1>2. InFlight' = InFlight
  BY <1>0 DEF InFlight, firmware
<1>3. ResponseMatched'
  BY <1>0, <1>2 DEF ChannelInv, ResponseMatched, ids
<1>4. SenderAt'
  BY <1>0, <1>2 DEF ChannelInv, SenderAt, sender
<1>5. UnderWayOnce'
  BY <1>0, <1>2 DEF ChannelInv, UnderWayOnce, OnceIn, Apart, sender, firmware
<1>6. TableSound'
  <2>0. \A e \in Entry : chan_xa[e] # None => chan_xa[e] \in 1..made
    BY DEF ChannelInv, TableSound
  <2>1. ASSUME NEW h \in Handle, h > made PROVE cb'[h] = 0
    <3>1. h \notin S
      BY <2>0, <2>1 DEF ChannelInv, TypeOK
    <3>2. cb'[h] = cb[h]
      BY <3>1, <1>0
    <3> QED BY <3>2, <2>1 DEF ChannelInv, TableSound
  <2>2. ASSUME NEW h \in Handle, live'[h], cb'[h] = 0 PROVE FALSE
    <3>1. live[h] /\ cb[h] \in Nat
      BY <2>2, <1>0 DEF ChannelInv, TypeOK
    <3>2. CASE h \in S
      BY <3>1, <3>2, <2>2, <1>0
    <3>3. CASE h \notin S
      <4>1. cb[h] = 0
        BY <3>3, <2>2, <1>0
      <4>2. PICK e \in Entry : chan_xa[e] = h
        BY <4>1, <3>1 DEF ChannelInv, TableSound
      <4> QED BY <4>2, <3>3 DEF Handle, None
    <3> QED BY <3>2, <3>3
  <2> HIDE DEF S
  <2>3. UNCHANGED <<type, chan_xa, made, kind>>
    BY <1>0 DEF ids, sender
  <2> QED BY <2>0, <2>1, <2>2, <2>3, <1>0 DEF ChannelInv, TableSound
<1>7. ReceiversStop'
  BY <1>0 DEF ChannelInv, ReceiversStop, ids, worker, poller
<1>8. OrderKept'
  BY <1>0 DEF ChannelInv, OrderKept, InSequence, UnderWay, Pushing, Oldest, NextResp,
     Nth, ids, sender, firmware
<1>9. NothingForgotten'
  BY <1>1, <1>6, TableForgetsNothing, PTL
<1> QED
  BY <1>1, <1>3, <1>4, <1>5, <1>6, <1>7, <1>8, <1>9 DEF ChannelInv
-----------------------------------------------------------------------------
(* Every step keeps the channel's invariant.                               *)
LEMMA ChannelInvNext == ChannelInv /\ [Next]_vars => ChannelInv'
<1> SUFFICES ASSUME ChannelInv, [Next]_vars PROVE ChannelInv'
  OBVIOUS
<1>1. CASE UNCHANGED vars
  <2>1. UNCHANGED <<ids, x2i, i2x, iohub, sender, calls, worker, poller, chan, firmware>>
    BY <1>1 DEF vars
  <2>2. TypeOK'
    BY <2>1 DEF ChannelInv, TypeOK, ids, sender, calls, worker, poller, firmware
  <2>3. ReceiversStop'
    BY <2>1 DEF ChannelInv, ReceiversStop, ids, worker, poller
  <2> QED BY <2>1, <2>2, <2>3, QuietStepKeepsInv DEF firmware
<1>2. CASE \E k \in Kinds[type] : SendAcquire(k)
  BY <1>2, SendAcquireKeepsInv
<1>3. CASE Sender \/ WaitTimeout
  BY <1>3, SendPushKeepsInv, SendNoSpaceKeepsInv, WaitKeepsInv DEF Sender
<1>4. CASE Rx
  BY <1>4, RxKeepsInv, RxGetKeepsInv DEF Rx
<1>5. CASE Poll
  BY <1>5, PollKeepsInv, PollDrainKeepsInv DEF Poll
<1>6. CASE StopIrq \/ Teardown
  BY <1>6, StopKeepsInv, ReleaseMsgsKeepsInv DEF Teardown
<1>7. CASE FwTake \/ FwRing
  BY <1>7, FwTakeKeepsInv, FwRingKeepsInv
<1>8. CASE \E j \in 1..Len(fw) : FwPut(j)
  BY <1>8, FwPutKeepsInv
<1> QED BY <1>1, <1>2, <1>3, <1>4, <1>5, <1>6, <1>7, <1>8 DEF Next

(* The message table is sound on every channel: an id leads to its message *)
(* as long as the message is under way, whatever the order of answers,     *)
(* refused sends, timeouts and the wrap of the ids, and when               *)
(* xdna_mailbox_destroy_channel() has freed the channel no message that    *)
(* was sent is without its callback.                                       *)
THEOREM ChannelSound == Spec => []ChannelInv
<1>1. Spec => Init /\ [][Next]_vars
  BY PTL DEF Spec
<1> QED BY <1>1, ChannelInvInit, ChannelInvNext, PTL
-----------------------------------------------------------------------------
(* A step calls only handles whose owners expect it.                       *)
LEMMA StepCallsLive ==
    ASSUME ChannelInv, WaitsOnMgmt, [Next]_vars,
           NEW h \in Handle, cb'[h] # cb[h]
    PROVE  live[h]
<1> USE ChannelAssumption
<1>1. ASSUME NEW e \in Entry, chan_xa[e] # None, chan # "freed" PROVE live[chan_xa[e]]
  BY <1>1 DEF ChannelInv, TableSound
<1>2. ASSUME i2x # <<>>, GetMsg, chan # "freed" PROVE live[h]
  <2>1. PICK m : m = Head(i2x)
    OBVIOUS
  <2>2. RespOk(m) /\ cb' = [x \in Handle |-> IF x \in {chan_xa[m.id]} THEN cb[x] + 1
                                                                     ELSE cb[x]]
    BY <1>2, <2>1 DEF GetMsg, Call, calls
  <2>3. h = chan_xa[m.id]
    BY <2>2
  <2>4. m \in Msg
    BY <1>2, <2>1, TailShape DEF ChannelInv, TypeOK
  <2>5. m.id \in Entry /\ chan_xa[m.id] # None
    BY <2>2, <2>4 DEF RespOk, validate_msgid, Msg
  <2> QED BY <2>3, <2>5, <1>1, <1>2
<1>3. CASE RxGet
  BY <1>2, <1>3 DEF RxGet, ChannelInv, ReceiversStop
<1>4. CASE PollDrain
  BY <1>2, <1>4 DEF PollDrain, ChannelInv, ReceiversStop, calls
<1>5. CASE ReleaseMsgs
  <2>1. h \in {chan_xa[e] : e \in Entry} \ {None} /\ chan # "freed"
    BY <1>5 DEF ReleaseMsgs, Call
  <2> QED BY <2>1, <1>1
<1>6. CASE UNCHANGED cb
  BY <1>6
<1>7. UNCHANGED vars => UNCHANGED cb
  BY DEF vars, calls
<1>8. \/ UNCHANGED cb \/ RxGet \/ PollDrain \/ ReleaseMsgs \/ UNCHANGED vars
  BY DEF Next, Sender, Rx, Poll, Teardown, SendAcquire, SendPush, SendNoSpace, WaitDone,
     WaitTimeout, TimeoutReturn, RxStart, RxClear, RxEmpty, RxRecheck, PollCheck,
     PollScan, PollEmpty, StopIrq, StopCancel, ReleaseUnlist, FwTake, FwRing, FwPut, calls
<1> QED BY <1>3, <1>4, <1>5, <1>6, <1>7, <1>8

(* No step takes a response from the ring of a channel that has stopped.   *)
LEMMA StepStaysQuiet ==
    ASSUME ChannelInv, [Next]_vars,
           \/ chan \in {"unlisted", "freed"}
           \/ chan = "stopped" /\ type # "poll"
    PROVE  Len(i2x') >= Len(i2x)
<1>0. Len(i2x) \in Nat
  BY DEF ChannelInv, TypeOK
<1>1. ~RxGet /\ ~(PollDrain /\ i2x # <<>>)
  BY DEF ChannelInv, ReceiversStop, RxGet, PollDrain
<1>2. ASSUME NEW j \in 1..Len(fw), FwPut(j) PROVE Len(i2x') >= Len(i2x)
  <2>1. \E m : i2x' = Append(i2x, m)
    BY <1>2 DEF FwPut
  <2>2. i2x \in Seq(Msg)
    BY DEF ChannelInv, TypeOK
  <2> QED BY <1>0, <2>1, <2>2
<1>3. CASE UNCHANGED i2x
  BY <1>0, <1>3
<1>4. UNCHANGED vars => UNCHANGED i2x
  BY DEF vars
<1>5. \/ UNCHANGED i2x \/ UNCHANGED vars \/ \E j \in 1..Len(fw) : FwPut(j)
  BY <1>1 DEF Next, Sender, Rx, Poll, Teardown, SendAcquire, SendPush, SendNoSpace,
     WaitDone, WaitTimeout, TimeoutReturn, RxStart, RxClear, RxEmpty, RxRecheck,
     PollCheck, PollScan, PollDrain, PollEmpty, StopIrq, StopCancel, ReleaseUnlist,
     ReleaseMsgs, FwTake, FwRing
<1> QED BY <1>2, <1>3, <1>4, <1>5

(* On channels in service, where only the management channel has a waiting *)
(* sender, notify_cb() is called for no sender that has returned and none  *)
(* a second time; and xdna_mailbox_stop_channel() stops the receiving.     *)
THEOREM CallbacksAreExpected ==
    ASSUME WaitsOnMgmt
    PROVE  Spec => CallbacksExpected
<1>1. ChannelInv /\ [Next]_vars => [\A h \in Handle : cb'[h] # cb[h] => live[h]]_vars
  BY StepCallsLive
<1>2. ChannelInv /\ [Next]_vars =>
        [\/ chan \in {"unlisted", "freed"}
         \/ chan = "stopped" /\ type # "poll"
         => Len(i2x') >= Len(i2x)]_vars
  BY StepStaysQuiet
<1>3. Spec => Init /\ [][Next]_vars
  BY PTL DEF Spec
<1> QED
  BY <1>1, <1>2, <1>3, ChannelSound, PTL
  DEF CallbacksExpected, CallbackOnLiveHandle, StoppedStaysQuiet

(* A firmware that answers a context's messages in order, and any message  *)
(* with the id it came with, is never taken for a broken device:           *)
(* mailbox_validate_msgid() accepts every response, over the wrap of the   *)
(* ids.  It needs a ring with room for all outstanding commands, as the    *)
(* driver has: a send that is refused uses up an id.                       *)
THEOREM HealthyNeverBad ==
    ASSUME WaitsOnMgmt, RoomForAll
    PROVE  Spec => []NoFalseBad
<1>1. Init => NoFalseBad
  BY DEF Init, NoFalseBad
<1>2. ChannelInv /\ NoFalseBad /\ [Next]_vars => NoFalseBad'
  <2> SUFFICES ASSUME ChannelInv, NoFalseBad, [Next]_vars PROVE NoFalseBad'
    OBVIOUS
  <2>1. ASSUME i2x # <<>>, GetMsg, UNCHANGED firmware PROVE NoFalseBad'
    <3>1. CASE corrupt
      BY <2>1, <3>1 DEF NoFalseBad, firmware
    <3>2. CASE ~corrupt
      <4>1. RespOk(Head(i2x)) /\ ~bad_state
        BY <2>1, <3>2, HealthyAnswerFits DEF NoFalseBad
      <4>2. bad_state' = FALSE
        BY <2>1, <4>1 DEF GetMsg
      <4> QED BY <4>2 DEF NoFalseBad
    <3> QED BY <3>1, <3>2
  <2>2. CASE RxGet
    BY <2>1, <2>2 DEF RxGet
  <2>3. CASE PollDrain /\ i2x # <<>>
    BY <2>1, <2>3 DEF PollDrain
  <2>4. CASE bad_state' = bad_state /\ (corrupt => corrupt')
    BY <2>4 DEF NoFalseBad
  <2>5. UNCHANGED vars => bad_state' = bad_state /\ (corrupt => corrupt')
    BY DEF vars, ids, firmware
  <2>6. \A j : FwPut(j) => bad_state' = bad_state /\ (corrupt => corrupt')
    BY DEF FwPut, ids
  <2>7. \/ UNCHANGED <<bad_state, corrupt>>
        \/ RxGet \/ (PollDrain /\ i2x # <<>>) \/ UNCHANGED vars
        \/ \E j \in 1..Len(fw) : FwPut(j)
    <3>1. CASE \E k \in Kinds[type] : SendAcquire(k)
      BY <3>1 DEF SendAcquire, firmware
    <3>2. CASE Sender \/ WaitTimeout
      BY <3>2 DEF Sender, SendPush, SendNoSpace, WaitDone, WaitTimeout, TimeoutReturn,
         ids, firmware
    <3>3. CASE Rx
      BY <3>3 DEF Rx, RxStart, RxClear, RxEmpty, RxRecheck, ids, firmware
    <3>4. CASE Poll
      BY <3>4 DEF Poll, PollCheck, PollScan, PollDrain, PollEmpty, ids, firmware
    <3>5. CASE StopIrq \/ Teardown
      BY <3>5 DEF Teardown, StopIrq, StopCancel, ReleaseUnlist, ReleaseMsgs, ids, firmware
    <3>6. CASE FwTake \/ FwRing
      BY <3>6 DEF FwTake, FwRing, ids
    <3> QED BY <3>1, <3>2, <3>3, <3>4, <3>5, <3>6 DEF Next
  <2> QED BY <2>2, <2>3, <2>4, <2>5, <2>6, <2>7
<1>3. Spec => Init /\ [][Next]_vars
  BY PTL DEF Spec
<1> QED BY <1>1, <1>2, <1>3, ChannelSound, PTL
=============================================================================
