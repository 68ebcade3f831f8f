----------------------------- MODULE RingProofs ------------------------------
(***************************************************************************)
(* Proofs about the ring on its own, for every size, every set of messages *)
(* and, where it is said, one writer and one reader.                       *)
(***************************************************************************)
EXTENDS RingChannel, DataLemmas

-----------------------------------------------------------------------------
(* Type correctness, for any number of writers and readers. *)

(* The ring, as the lemmas about its data see it.                          *)
LEMMA RingData ==
  /\ \A i \in Slots : Succ(i) = SuccOf(i)
  /\ Held = HeldBy(in, out) /\ Content = ContentOf(in, out, buffer)
  /\ Content' = ContentOf(in', out', buffer')
  BY DEF Succ, SuccOf, Held, HeldBy, Nth, NthFrom, Content, ContentOf

(* The ring starts empty and well typed.                                   *)
LEMMA InitTypeOK == Init => TypeOK
  BY ZeroSlot, ZeroTxInTx DEF Init, TypeOK, Words, Callers

(* Every move of a writer, a reader or a caller keeps the types, however   *)
(* the processes interleave.                                               *)
LEMMA NextTypeOK == TypeOK /\ [Next]_vars => TypeOK'
<1> USE RingAssumption
        DEF PutLabels, GetLabels, Callers, Goto, shared, local, history
<1> SUFFICES ASSUME TypeOK, [Next]_vars PROVE TypeOK'
  OBVIOUS
<1>1. ASSUME NEW p \in Writers, Writing(p) PROVE TypeOK'
  <2>1. CASE PutLoadIn(p) /\ UNCHANGED history
    BY <2>1 DEF TypeOK, PutLoadIn
  <2>2. CASE PutRoom(p) /\ UNCHANGED history
    BY <2>2 DEF TypeOK, PutRoom
  <2>3. CASE PutCopy(p) /\ UNCHANGED history
    BY <2>3, CopyWordInTx, NextWordInWords DEF TypeOK, PutCopy, NextWord
  <2>4. CASE PutFull(p) /\ fate' = "lost" /\ UNCHANGED taken
    BY <2>4, ZeroSlot DEF TypeOK, PutFull
  <2>5. CASE PutSet(p) /\ fate' = "stored" /\ UNCHANGED taken
    BY <2>5, ZeroSlot, SuccInSlots, RingData DEF TypeOK, PutSet
  <2> QED
    BY <1>1, <2>1, <2>2, <2>3, <2>4, <2>5 DEF Writing
<1>2. ASSUME NEW p \in Writers, NEW m \in Msgs, Offer(p, m) PROVE TypeOK'
  BY <1>2 DEF TypeOK, Offer
<1>3. ASSUME NEW p \in Readers, Reading(p) PROVE TypeOK'
  <2>1. CASE GetLoadIn(p) /\ UNCHANGED history
    BY <1>3, <2>1 DEF TypeOK, GetLoadIn
  <2>2. CASE GetEmpty(p) /\ UNCHANGED history
    BY <2>2, ZeroSlot DEF TypeOK, GetEmpty, Tx, NoTx
  <2>3. CASE GetSome(p) /\ UNCHANGED history
    BY <2>3 DEF TypeOK, GetSome
  <2>4. CASE GetCopy(p) /\ UNCHANGED history
    BY <2>4, CopyWordInTx, NextWordInWords DEF TypeOK, GetCopy, NextWord
  <2>5. CASE GetSet(p) /\ taken' = tx[p] /\ UNCHANGED fate
    BY <2>5, ZeroSlot, SuccInSlots, RingData DEF TypeOK, GetSet
  <2> QED
    BY <1>3, <2>1, <2>2, <2>3, <2>4, <2>5 DEF Reading
<1>4. ASSUME NEW p \in Readers, Ask(p) PROVE TypeOK'
  BY <1>4, ZeroTxInTx DEF TypeOK, Ask
<1>5. CASE UNCHANGED vars
  BY <1>5 DEF TypeOK, vars
<1> QED
  BY <1>1, <1>2, <1>3, <1>4, <1>5 DEF Next, WriterStep, ReaderStep

(* Whatever the writers and readers do to one another, no index leaves the *)
(* array and no slot holds anything but words of transactions              *)
(* (memory.c:87-145).                                                      *)
THEOREM RingTyped == Spec => []TypeOK
  BY InitTypeOK, NextTypeOK, PTL DEF Spec

-----------------------------------------------------------------------------
(* One writer, one reader: the ring is a queue.                            *)

(* A writer alone works on the slot of in, which the reader leaves alone. *)
WriterInv(w) ==
  /\ pc[w] # "idle" => tx[w] \in Msgs
  /\ pc[w] \in {"put_out", "put_copy", "put_set"} => idx[w] = in
  /\ pc[w] \in {"put_copy", "put_set"} => Succ(in) # out
  /\ pc[w] = "put_copy" => Moved(buffer[in], tx[w], wrd[w])
  /\ pc[w] = "put_set" => buffer[in] = tx[w]
  /\ pc[w] # "put_copy" => wrd[w] = 1

(* A reader alone works on the slot of out, once it knows of an entry: the *)
(* in it loaded may be old, but entries are only added meanwhile.          *)
ReaderInv(r) ==
  /\ (pc[r] = "get_out" /\ idx[r] # out) => in # out
  /\ pc[r] \in {"get_copy", "get_set"} => idx[r] = out /\ in # out
  /\ pc[r] = "get_copy" => Moved(tx[r], buffer[out], wrd[r])
  /\ pc[r] = "get_set" => tx[r] = buffer[out]
  /\ pc[r] # "get_copy" => wrd[r] = 1

HandOver == \A w \in Writers, r \in Readers : WriterInv(w) /\ ReaderInv(r)

(* The callers start with nothing to hand over.                            *)
LEMMA InitHandOver == Init => HandOver
  BY DEF Init, HandOver, WriterInv, ReaderInv, Callers

(* No step breaks the hand-over: the writer fills a slot outside the ring's *)
(* content and the reader empties one inside it (memory.c:97-98, 136-137).  *)
LEMMA NextHandOver ==
  ASSUME NEW w, NEW r, Writers = {w}, Readers = {r},
         TypeOK, HandOver, [Next]_vars
  PROVE  HandOver'
<1> USE RingAssumption
        DEF PutLabels, GetLabels, Callers, Goto, shared, local, history
<1>0. w # r /\ TypeOK' /\ WriterInv(w) /\ ReaderInv(r)
  BY NextTypeOK DEF HandOver
<1> SUFFICES WriterInv(w)' /\ ReaderInv(r)'
  BY DEF HandOver
<1>1. CASE Writing(w)
  <2>1. CASE PutLoadIn(w)
    BY <1>0, <2>1 DEF TypeOK, PutLoadIn, WriterInv, ReaderInv
  <2>2. CASE PutRoom(w)
    BY <1>0, <2>2 DEF TypeOK, PutRoom, WriterInv, ReaderInv, Moved
  <2>3. CASE PutCopy(w)
    <3>1. in \in Slots /\ buffer[in] \in Tx /\ tx[w] \in Tx /\ wrd[w] \in 1 .. Words
      BY DEF TypeOK
    <3>2. Moved(buffer[in], tx[w], wrd[w]) /\ idx[w] = in
      BY <1>0, <2>3 DEF WriterInv, PutCopy
    <3>3. buffer'[in] = CopyWord(buffer[in], tx[w], wrd[w])
      BY <2>3, <3>1, <3>2 DEF PutCopy, TypeOK
    <3>4. \A i \in Slots : i # in => buffer'[i] = buffer[i]
      BY <2>3, <3>2 DEF PutCopy, TypeOK
    <3>5. WriterInv(w)'
      BY <1>0, <2>3, <3>1, <3>2, <3>3, MovedNext
      DEF TypeOK, PutCopy, NextWord, WriterInv, Words
    <3>6. ReaderInv(r)'
      BY <1>0, <2>3, <3>4 DEF TypeOK, PutCopy, NextWord, ReaderInv
    <3> QED
      BY <3>5, <3>6
  <2>4. CASE PutFull(w)
    BY <1>0, <2>4 DEF TypeOK, PutFull, WriterInv, ReaderInv
  <2>5. CASE PutSet(w)
    BY <1>0, <2>5 DEF TypeOK, PutSet, WriterInv, ReaderInv
  <2> QED
    BY <1>1, <2>1, <2>2, <2>3, <2>4, <2>5 DEF Writing
<1>2. ASSUME NEW m \in Msgs, Offer(w, m) PROVE WriterInv(w)' /\ ReaderInv(r)'
  BY <1>0, <1>2 DEF TypeOK, Offer, WriterInv, ReaderInv
<1>3. CASE Reading(r)
  <2>1. CASE GetLoadIn(r)
    BY <1>0, <2>1 DEF TypeOK, GetLoadIn, WriterInv, ReaderInv
  <2>2. CASE GetEmpty(r)
    BY <1>0, <2>2 DEF TypeOK, GetEmpty, WriterInv, ReaderInv
  <2>3. CASE GetSome(r)
    BY <1>0, <2>3 DEF TypeOK, GetSome, WriterInv, ReaderInv, Moved
  <2>4. CASE GetCopy(r)
    <3>1. out \in Slots /\ buffer[out] \in Tx /\ tx[r] \in Tx /\ wrd[r] \in 1 .. Words
      BY DEF TypeOK
    <3>2. tx'[r] = CopyWord(tx[r], buffer[out], wrd[r]) /\ tx'[w] = tx[w]
      BY <1>0, <2>4 DEF GetCopy, ReaderInv, TypeOK
    <3>3. ReaderInv(r)'
      BY <1>0, <2>4, <3>1, <3>2, MovedNext
      DEF TypeOK, GetCopy, NextWord, ReaderInv, Words
    <3>4. WriterInv(w)'
      BY <1>0, <2>4, <3>2 DEF TypeOK, GetCopy, NextWord, WriterInv
    <3> QED
      BY <3>3, <3>4
  <2>5. CASE GetSet(r)
    <3>1. in \in Slots /\ out \in Slots /\ in # out /\ idx[r] = out
      BY <1>0, <2>5 DEF TypeOK, GetSet, ReaderInv
    <3>2. in' = in /\ out' = Succ(out) /\ Succ(in) # Succ(out)
      BY <2>5, <3>1, SuccInjective, RingData DEF GetSet
    <3> QED
      BY <1>0, <2>5, <3>1, <3>2 DEF TypeOK, GetSet, WriterInv, ReaderInv
  <2> QED
    BY <1>3, <2>1, <2>2, <2>3, <2>4, <2>5 DEF Reading
<1>4. CASE Ask(r)
  BY <1>0, <1>4 DEF TypeOK, Ask, WriterInv, ReaderInv
<1>5. CASE UNCHANGED vars
  BY <1>0, <1>5 DEF vars, WriterInv, ReaderInv
<1> QED
  BY <1>1, <1>2, <1>3, <1>4, <1>5 DEF Next, WriterStep, ReaderStep

-----------------------------------------------------------------------------
(* What the ring holds, as a sequence. *)

(* A writer may fill the slot of in: the content stays.                    *)
LEMMA FillKeepsContent ==
  ASSUME TypeOK, in' = in, out' = out,
         \A i \in Slots : i # in => buffer'[i] = buffer[i]
  PROVE  Content' = Content
<1>1. in \in Slots /\ out \in Slots
  BY DEF TypeOK
<1> DEFINE b == buffer
           c == buffer'
<1> HIDE DEF b, c
<1>2. ContentOf(in, out, c) = ContentOf(in, out, b)
  <2>1. \A i \in Slots : i # in => c[i] = b[i]
    BY DEF b, c
  <2> QED
    BY <1>1, <2>1, ContentKept
<1> QED
  BY <1>2, RingData DEF b, c

(* When the writer advances in, the slot it filled becomes the last entry. *)
LEMMA PutSetStores ==
  ASSUME NEW w, NEW r, Writers = {w}, Readers = {r},
         TypeOK, HandOver, PutSet(w)
  PROVE  Content' = Append(Content, tx[w]) /\ Len(Content) < BufSize - 1
<1>1. /\ in' = Succ(in) /\ out' = out /\ buffer' = buffer
      /\ Succ(in) # out /\ buffer[in] = tx[w]
      /\ in \in Slots /\ out \in Slots /\ buffer \in [Slots -> Tx]
  BY DEF PutSet, HandOver, WriterInv, TypeOK, Callers
<1>2. /\ ContentOf(in', out', buffer') = Append(ContentOf(in, out, buffer), tx[w])
      /\ Len(ContentOf(in, out, buffer)) < BufSize - 1
  BY <1>1, RingData, StoreAppends, ContentIsSeq
<1> QED
  BY <1>2, RingData

(* When the reader advances out, what it copied was the first entry.       *)
LEMMA GetSetDelivers ==
  ASSUME NEW w, NEW r, Writers = {w}, Readers = {r},
         TypeOK, HandOver, GetSet(r)
  PROVE  Content # <<>> /\ tx[r] = Head(Content) /\ Content' = Tail(Content)
<1>1. /\ in' = in /\ out' = Succ(out) /\ buffer' = buffer
      /\ in # out /\ tx[r] = buffer[out]
      /\ in \in Slots /\ out \in Slots /\ buffer \in [Slots -> Tx]
  BY DEF GetSet, HandOver, ReaderInv, TypeOK
<1>2. /\ ContentOf(in, out, buffer) # <<>>
      /\ Head(ContentOf(in, out, buffer)) = tx[r]
      /\ ContentOf(in', out', buffer') = Tail(ContentOf(in, out, buffer))
  BY <1>1, RingData, DeliverTakesHead
<1> QED
  BY <1>2, RingData

(* Each step of the ring is a step of the queue or changes nothing of it.  *)
LEMMA NextIsQueueStep ==
  ASSUME NEW w, NEW r, Writers = {w}, Readers = {r},
         TypeOK, TypeOK', HandOver, [Next]_vars
  PROVE  [Queue!Next]_(Queue!vars)
<1> USE DEF shared, local, history
<1>1. CASE PutSet(w) /\ fate' = "stored" /\ UNCHANGED taken
  <2>1. tx[w] \in Msgs
    BY <1>1 DEF PutSet, HandOver, WriterInv
  <2>2. Queue!Store(tx[w])
    BY <1>1, PutSetStores DEF Queue!Store
  <2> QED
    BY <2>1, <2>2 DEF Queue!Next
<1>2. CASE PutFull(w) /\ fate' = "lost" /\ UNCHANGED taken
  <2>1. Succ(in) = out /\ UNCHANGED <<in, out, buffer>>
    BY <1>2 DEF PutFull, HandOver, WriterInv
  <2>2. Content' = Content
    BY <2>1, FillKeepsContent
  <2>3. Len(Content) = BufSize - 1
    BY <2>1, HeldSlots, ContentIsSeq, RingData DEF TypeOK
  <2> QED
    BY <1>2, <2>2, <2>3 DEF Queue!Lose, Queue!Next
<1>3. CASE PutCopy(w) /\ UNCHANGED history
  <2>1. idx[w] = in /\ in' = in /\ out' = out
    BY <1>3 DEF PutCopy, HandOver, WriterInv
  <2>2. \A i \in Slots : i # in => buffer'[i] = buffer[i]
    BY <1>3, <2>1 DEF PutCopy, TypeOK
  <2> QED
    BY <1>3, <2>1, <2>2, FillKeepsContent DEF Queue!vars
<1>4. CASE GetSet(r) /\ taken' = tx[r] /\ UNCHANGED fate
  <2>1. Queue!Deliver
    BY <1>4, GetSetDelivers DEF Queue!Deliver
  <2> QED
    BY <2>1 DEF Queue!Next
<1>5. CASE UNCHANGED <<shared, history>>
  BY <1>5, FillKeepsContent DEF Queue!vars
<1>6. PutLoadIn(w) \/ PutRoom(w) \/ GetLoadIn(r) \/ GetEmpty(r) \/ GetSome(r)
        \/ GetCopy(r) \/ Ask(r) \/ (\E m \in Msgs : Offer(w, m))
        => UNCHANGED shared
  BY DEF PutLoadIn, PutRoom, GetLoadIn, GetEmpty, GetSome, GetCopy, Ask, Offer
<1>7. Ask(r) \/ (\E m \in Msgs : Offer(w, m)) => UNCHANGED history
  BY DEF Ask, Offer
<1> QED
  BY <1>1, <1>2, <1>3, <1>4, <1>5, <1>6, <1>7
  DEF Next, WriterStep, ReaderStep, Writing, Reading, vars

(* The ring starts as the empty queue, nothing written or delivered.       *)
LEMMA InitIsQueueInit == Init => Queue!Init
<1> SUFFICES ASSUME Init PROVE Queue!Init
  OBVIOUS
<1>1. TypeOK /\ in = out /\ taken = IndeterminateTx /\ fate = "none"
  BY InitTypeOK DEF Init
<1>2. Content = <<>>
  BY <1>1, HeldSlots, ContentIsSeq, RingData, EmptySeq DEF TypeOK
<1> QED
  BY <1>1, <1>2 DEF Queue!Init

(* With one writer and one reader, whatever the size of the ring, no slot  *)
(* is filled while it is copied out of, although nothing locks it.         *)
THEOREM SPSCSlotExclusive ==
  ASSUME NEW w, NEW r, Writers = {w}, Readers = {r}
  PROVE  Spec => []SlotExclusive
<1>1. TypeOK /\ HandOver => SlotExclusive
  BY DEF HandOver, WriterInv, ReaderInv, SlotExclusive, Callers, TypeOK, PutLabels,
         GetLabels
<1>2. TypeOK /\ HandOver /\ [Next]_vars => HandOver'
  BY NextHandOver
<1> QED
  BY InitTypeOK, NextTypeOK, InitHandOver, <1>1, <1>2, PTL DEF Spec

(* With one writer and one reader, whatever the size of the ring, the two  *)
(* functions implement a first-in first-out queue of BufSize - 1 places:   *)
(* what is written is delivered once, whole and in order, and a write is   *)
(* lost only when the queue is full (memory.c:87-145).                     *)
THEOREM SPSCRingIsFIFO ==
  ASSUME NEW w, NEW r, Writers = {w}, Readers = {r}
  PROVE  Spec => IsFIFO
<1>1. TypeOK /\ HandOver /\ [Next]_vars => HandOver'
  BY NextHandOver
<1>2. TypeOK /\ TypeOK' /\ HandOver /\ [Next]_vars => [Queue!Next]_(Queue!vars)
  BY NextIsQueueStep
<1> QED
  BY InitTypeOK, NextTypeOK, InitHandOver, InitIsQueueInit, <1>1, <1>2, PTL
  DEF Spec, IsFIFO, Queue!Spec
=============================================================================
