----------------------------- MODULE DataLemmas ------------------------------
(***************************************************************************)
(* Facts about the data of SOchain that the proofs of the ring on its own  *)
(* and those of the whole program rest on: transactions, how they are      *)
(* copied, and the sequence that a ring holds.                             *)
(***************************************************************************)
EXTENDS Transactions, Sequences, FiniteSetsExt, SequenceTheorems, FiniteSetTheorems,
        WellFoundedInduction, TLAPS

(* There is a first wallet, which the zero bytes of a new slot name.       *)
LEMMA ZeroWallet == 0 \in Wallets
  BY SizesAssumption DEF Wallets

(* There is a first slot, where every loop starts (memory.c:78, 118).      *)
LEMMA ZeroSlot == 0 \in Slots
  BY SizesAssumption DEF Slots

(* What ftruncate leaves in a slot is a transaction, and so is what an     *)
(* unassigned struct transaction stands for.                               *)
LEMMA ZeroTxInTx == ZeroTx \in Tx /\ IndeterminateTx \in Tx
  BY ZeroWallet DEF ZeroTx, IndeterminateTx, Indeterminate, Tx

(* A word of one transaction moved into another leaves a transaction: a    *)
(* torn copy names no wallet that does not exist (memory.c:81, 97, 120).   *)
LEMMA CopyWordInTx ==
  ASSUME NEW to \in Tx, NEW from \in Tx, NEW k \in 1 .. Words
  PROVE  CopyWord(to, from, k) \in Tx
  BY DEF CopyWord, Tx, Words

(* A read that found nothing sets the id alone (memory.c:126, 142, 158).   *)
LEMMA IdSetInTx ==
  ASSUME NEW t \in Tx, NEW i \in Int
  PROVE  [t EXCEPT !.id = i] \in Tx
  BY DEF Tx

(* The index of the next move.                                             *)
LEMMA NextWordInWords ==
  ASSUME NEW k \in 1 .. Words
  PROVE  (IF k = Words THEN 1 ELSE k + 1) \in 1 .. Words
  BY DEF Words

(* The first k - 1 words of from were moved into to. *)
Moved(to, from, k) ==
  /\ k > 1 => to.id = from.id /\ to.src_id = from.src_id
  /\ k > 2 => to.dest_id = from.dest_id /\ to.amount = from.amount

(* Moving the next word: three of them make the whole transaction.         *)
LEMMA MovedNext ==
  ASSUME NEW to \in Tx, NEW from \in Tx, NEW k \in 1 .. Words,
         Moved(to, from, k)
  PROVE  /\ k # Words => Moved(CopyWord(to, from, k), from, k + 1)
         /\ k = Words => CopyWord(to, from, k) = from
  BY DEF Moved, CopyWord, Words, Tx

-----------------------------------------------------------------------------
(* The ring that i and o point into, as CircBuffer defines it. *)

SuccOf(i)         == (i + 1) % BufSize
HeldBy(i, o)      == IF o <= i THEN i - o ELSE i - o + BufSize
NthFrom(o, k)     == IF o + k - 1 < BufSize THEN o + k - 1 ELSE o + k - 1 - BufSize
ContentOf(i, o, b) == [k \in 1 .. HeldBy(i, o) |-> b[NthFrom(o, k)]]

(* The index after i is in the array too (memory.c:98, 137).               *)
LEMMA SuccInSlots ==
  ASSUME NEW i \in Slots
  PROVE  /\ SuccOf(i) \in Slots
         /\ SuccOf(i) = IF i + 1 = BufSize THEN 0 ELSE i + 1
  BY SizesAssumption, SMTT(30) DEF Slots, SuccOf

(* Two indexes never step onto the same one.                               *)
LEMMA SuccInjective ==
  ASSUME NEW i \in Slots, NEW j \in Slots, i # j
  PROVE  SuccOf(i) # SuccOf(j)
<1>1. SuccOf(i) = IF i + 1 = BufSize THEN 0 ELSE i + 1
  BY SuccInSlots
<1>2. SuccOf(j) = IF j + 1 = BufSize THEN 0 ELSE j + 1
  BY SuccInSlots
<1> QED
  BY <1>1, <1>2 DEF Slots

(* The ring holds at most BufSize - 1 entries, none in the slot of in.     *)
LEMMA HeldSlots ==
  ASSUME NEW i \in Slots, NEW o \in Slots
  PROVE  /\ HeldBy(i, o) \in 0 .. BufSize - 1
         /\ HeldBy(i, o) = 0 <=> i = o
         /\ HeldBy(i, o) = BufSize - 1 <=> SuccOf(i) = o
         /\ \A k \in 1 .. HeldBy(i, o) : NthFrom(o, k) \in Slots \ {i}
         /\ HeldBy(i, o) # 0 => NthFrom(o, 1) = o
<1>1. i \in 0 .. BufSize - 1 /\ o \in 0 .. BufSize - 1 /\ BufSize \in Nat \ {0}
  BY SizesAssumption DEF Slots
<1>2. SuccOf(i) = IF i + 1 = BufSize THEN 0 ELSE i + 1
  BY SuccInSlots
<1> QED
  BY <1>1, <1>2 DEF HeldBy, NthFrom, Slots

(* The content is a sequence of those entries, the slots from out to in.   *)
LEMMA ContentIsSeq ==
  ASSUME NEW i \in Slots, NEW o \in Slots, NEW b \in [Slots -> Tx]
  PROVE  /\ ContentOf(i, o, b) \in Seq(Tx)
         /\ Len(ContentOf(i, o, b)) = HeldBy(i, o)
         /\ \A k \in 1 .. HeldBy(i, o) : ContentOf(i, o, b)[k] = b[NthFrom(o, k)]
<1> DEFINE n == HeldBy(i, o)
<1>1. n \in Nat /\ \A k \in 1 .. n : b[NthFrom(o, k)] \in Tx
  BY HeldSlots, SizesAssumption
<1>2. ContentOf(i, o, b) \in [1 .. n -> Tx]
  BY <1>1 DEF ContentOf
<1>3. ContentOf(i, o, b) \in Seq(Tx)
  BY <1>1, <1>2, SeqDef
<1>4. Len(ContentOf(i, o, b)) = n
  BY <1>1, <1>2, <1>3, LenProperties
<1> QED
  BY <1>3, <1>4 DEF ContentOf

(* While the slots between stay as they are, so does the content: a writer *)
(* may fill the slot of in.                                                *)
LEMMA ContentKept ==
  ASSUME NEW i \in Slots, NEW o \in Slots, NEW b, NEW c,
         \A j \in Slots : j # i => c[j] = b[j]
  PROVE  ContentOf(i, o, c) = ContentOf(i, o, b)
<1>1. \A k \in 1 .. HeldBy(i, o) : c[NthFrom(o, k)] = b[NthFrom(o, k)]
  BY HeldSlots
<1> QED
  BY <1>1 DEF ContentOf

(* Advancing in makes the slot it pointed to the last entry.               *)
LEMMA StoreAppends ==
  ASSUME NEW i \in Slots, NEW o \in Slots, NEW b \in [Slots -> Tx], SuccOf(i) # o
  PROVE  /\ ContentOf(SuccOf(i), o, b) = Append(ContentOf(i, o, b), b[i])
         /\ HeldBy(SuccOf(i), o) = HeldBy(i, o) + 1
         /\ HeldBy(i, o) < BufSize - 1
<1> DEFINE n == HeldBy(i, o)
           s == ContentOf(i, o, b)
           t == ContentOf(SuccOf(i), o, b)
<1>1. SuccOf(i) = (IF i + 1 = BufSize THEN 0 ELSE i + 1) /\ SuccOf(i) \in Slots
  BY SuccInSlots
<1>2. n \in 0 .. BufSize - 1 /\ n # BufSize - 1 /\ BufSize \in Nat
  BY HeldSlots, SizesAssumption
<1>3. /\ HeldBy(SuccOf(i), o) = n + 1
      /\ \A k \in 1 .. n + 1 : k = n + 1 => NthFrom(o, k) = i
  BY <1>1, <1>2, SizesAssumption DEF HeldBy, NthFrom, Slots
<1>4. /\ s \in Seq(Tx) /\ Len(s) = n
      /\ \A k \in 1 .. n : s[k] = b[NthFrom(o, k)]
  BY ContentIsSeq
<1>5. /\ t \in Seq(Tx) /\ Len(t) = n + 1
      /\ \A k \in 1 .. n + 1 : t[k] = b[NthFrom(o, k)]
  BY <1>1, <1>3, ContentIsSeq
<1>6. /\ Append(s, b[i]) \in Seq(Tx) /\ Len(Append(s, b[i])) = n + 1
      /\ \A k \in 1 .. n : Append(s, b[i])[k] = s[k]
      /\ Append(s, b[i])[n + 1] = b[i]
  BY <1>4, AppendProperties
<1>7. \A k \in 1 .. n + 1 : t[k] = Append(s, b[i])[k]
  <2> TAKE k \in 1 .. n + 1
  <2>1. CASE k = n + 1
    BY <1>2, <1>3, <1>5, <1>6, <2>1
  <2>2. CASE k # n + 1
    BY <1>2, <1>4, <1>5, <1>6, <2>2
  <2> QED
    BY <2>1, <2>2
<1>8. t = Append(s, b[i])
  BY <1>2, <1>5, <1>6, <1>7, SeqEqual
<1> QED
  BY <1>2, <1>3, <1>8

(* Advancing out takes the first entry away.                               *)
LEMMA DeliverTakesHead ==
  ASSUME NEW i \in Slots, NEW o \in Slots, NEW b \in [Slots -> Tx], i # o
  PROVE  /\ ContentOf(i, o, b) # <<>> /\ Head(ContentOf(i, o, b)) = b[o]
         /\ ContentOf(i, SuccOf(o), b) = Tail(ContentOf(i, o, b))
         /\ HeldBy(i, SuccOf(o)) = HeldBy(i, o) - 1
<1> DEFINE n == HeldBy(i, o)
           s == ContentOf(i, o, b)
           t == ContentOf(i, SuccOf(o), b)
<1>1. SuccOf(o) = (IF o + 1 = BufSize THEN 0 ELSE o + 1) /\ SuccOf(o) \in Slots
  BY SuccInSlots
<1>2. n \in 0 .. BufSize - 1 /\ n # 0 /\ NthFrom(o, 1) = o /\ BufSize \in Nat
  BY HeldSlots, SizesAssumption
<1>3. /\ HeldBy(i, SuccOf(o)) = n - 1
      /\ \A k \in 1 .. n - 1 : NthFrom(SuccOf(o), k) = NthFrom(o, k + 1)
  BY <1>1, <1>2, SizesAssumption DEF HeldBy, NthFrom, Slots
<1>4. /\ s \in Seq(Tx) /\ Len(s) = n
      /\ \A k \in 1 .. n : s[k] = b[NthFrom(o, k)]
  BY ContentIsSeq
<1>5. /\ t \in Seq(Tx) /\ Len(t) = n - 1
      /\ \A k \in 1 .. n - 1 : t[k] = b[NthFrom(SuccOf(o), k)]
  BY <1>1, <1>3, ContentIsSeq
<1>6. s # <<>> /\ Head(s) = b[o]
  BY <1>2, <1>4
<1>7. /\ Tail(s) \in Seq(Tx) /\ Len(Tail(s)) = n - 1
      /\ \A k \in 1 .. n - 1 : Tail(s)[k] = s[k + 1]
  BY <1>4, <1>6, HeadTailProperties
<1>8. \A k \in 1 .. n - 1 : t[k] = Tail(s)[k]
  BY <1>2, <1>3, <1>4, <1>5, <1>7
<1>9. t = Tail(s)
  BY <1>5, <1>7, <1>8, SeqEqual
<1> QED
  BY <1>3, <1>6, <1>9

-----------------------------------------------------------------------------
(* Sums over a finite set. *)

(* The sum of f over the elements of S, and the element that it adds last. *)
SumOf(f, S) == MapThenSumSet(LAMBDA x : f[x], S)

Some(T) == CHOOSE x \in T : TRUE

(* Of some subsets of a finite set, one has none of the others below it.   *)
(* What a sum is shown to be below rests on a smallest counterexample.     *)
LEMMA SmallestSubset ==
  ASSUME NEW S, IsFiniteSet(S), NEW Bad, Bad \subseteq SUBSET S, Bad # {}
  PROVE  \E T \in Bad : \A U \in SUBSET T : U # T => U \notin Bad
<1>1. FiniteSubsetsOf(S) = SUBSET S
  BY FS_FiniteSubsetsOfFinite
<1>2. IsWellFoundedOn(StrictSubsetOrdering(S), SUBSET S)
  BY <1>1, FS_StrictSubsetOrderingWellFounded
<1>3. PICK T \in Bad : \A U \in Bad : ~ (<<U, T>> \in StrictSubsetOrdering(S))
  BY <1>2, WFMin, Zenon
<1>4. ASSUME NEW U \in SUBSET T, U # T, U \in Bad PROVE FALSE
  <2>1. <<U, T>> \in StrictSubsetOrdering(S)
    BY <1>3, <1>4 DEF StrictSubsetOrdering
  <2> QED
    BY <1>3, <1>4, <2>1
<1> QED
  BY <1>3, <1>4

(* g is the function in the definition of the sum of f over T.             *)
Adds(f, g, T) ==
  g = [s \in SUBSET T |-> IF s = {} THEN 0 ELSE f[Some(s)] + g[s \ {Some(s)}]]

(* A set that is not empty has an element to be added last.               *)
LEMMA SomeIn == ASSUME NEW T, T # {} PROVE Some(T) \in T
  BY DEF Some

(* A sum, by its definition.                                               *)
LEMMA SumUnfold ==
  ASSUME NEW f, NEW S
  PROVE  SumOf(f, S) = (CHOOSE g : Adds(f, g, S))[S]
  BY DEF SumOf, MapThenSumSet, MapThenFoldSet, Adds, Some

(* Two such functions agree wherever both are defined,                     *)
LEMMA AddsUnique ==
  ASSUME NEW S, IsFiniteSet(S), NEW f, NEW g, NEW h, NEW T \in SUBSET S, NEW U \in SUBSET S,
         Adds(f, g, T), Adds(f, h, U)
  PROVE  \A s \in SUBSET S : s \subseteq T /\ s \subseteq U => g[s] = h[s]
<1> DEFINE Bad == {s \in SUBSET S : s \subseteq T /\ s \subseteq U /\ g[s] # h[s]}
<1> SUFFICES ASSUME Bad # {} PROVE FALSE
  OBVIOUS
<1>1. PICK s \in Bad : \A r \in SUBSET s : r # s => r \notin Bad
  BY SmallestSubset, Bad \subseteq SUBSET S, Zenon
<1>2. s # {} /\ s \subseteq T /\ s \subseteq U /\ s \subseteq S /\ g[s] # h[s]
  BY DEF Adds
<1>3. Some(s) \in s
  BY <1>2, SomeIn
<1>4. g[s \ {Some(s)}] = h[s \ {Some(s)}]
  BY <1>1, <1>2, <1>3
<1> QED
  BY <1>2, <1>4 DEF Adds

(* and there is one on every finite set.                                   *)
LEMMA AddsExists ==
  ASSUME NEW S, IsFiniteSet(S), NEW f
  PROVE  \A T \in SUBSET S : \E g : Adds(f, g, T)
<1> DEFINE Bad == {T \in SUBSET S : ~ \E g : Adds(f, g, T)}
<1> SUFFICES ASSUME Bad # {} PROVE FALSE
  OBVIOUS
<1>1. PICK T \in Bad : \A r \in SUBSET T : r # T => r \notin Bad
  <2>1. Bad \subseteq SUBSET S
    OBVIOUS
  <2> HIDE DEF Bad
  <2> QED
    BY <2>1, SmallestSubset, Zenon
<1>2. T \in SUBSET S /\ ~ \E g : Adds(f, g, T)
  OBVIOUS
<1> DEFINE G(s) == CHOOSE g : Adds(f, g, s)
           V(s) == G(s)[s]
           new == [s \in SUBSET T |-> IF s = {} THEN 0
                                      ELSE f[Some(s)] + V(s \ {Some(s)})]
<1>3. \A r \in SUBSET T : r # T => Adds(f, G(r), r)
  <2> SUFFICES ASSUME NEW r \in SUBSET T, r # T PROVE \E g : Adds(f, g, r)
    OBVIOUS
  <2> QED
    BY <1>1, <1>2
<1> HIDE DEF G
<1>4. \A s \in SUBSET T : s # T => new[s] = V(s)
  <2> SUFFICES ASSUME NEW s \in SUBSET T, s # T PROVE new[s] = V(s)
    OBVIOUS
  <2>1. Adds(f, G(s), s)
    BY <1>3
  <2>2. CASE s = {}
    BY <2>1, <2>2 DEF Adds
  <2>3. CASE s # {}
    <3> DEFINE r == s \ {Some(s)}
    <3>1. Some(s) \in s /\ r \in SUBSET T /\ r # T /\ r \in SUBSET s
      BY <2>3, SomeIn
    <3>2. Adds(f, G(r), r)
      BY <1>3, <3>1
    <3>3. G(s)[r] = G(r)[r]
      BY <1>2, <2>1, <3>1, <3>2, AddsUnique
    <3>4. G(s)[s] = f[Some(s)] + G(s)[r]
      BY <2>1, <2>3 DEF Adds
    <3> QED
      BY <2>3, <3>3, <3>4
  <2> QED
    BY <2>2, <2>3
<1>5. \A s \in SUBSET T : s # {} => new[s \ {Some(s)}] = V(s \ {Some(s)})
  <2> SUFFICES ASSUME NEW s \in SUBSET T, s # {}
               PROVE  new[s \ {Some(s)}] = V(s \ {Some(s)})
    OBVIOUS
  <2>1. Some(s) \in s
    BY SomeIn
  <2>2. s \ {Some(s)} \in SUBSET T /\ s \ {Some(s)} # T
    BY <2>1
  <2> HIDE DEF new, V
  <2> QED
    BY <1>4, <2>2
<1>6. Adds(f, new, T)
  <2> HIDE DEF V
  <2>1. new = [s \in SUBSET T |-> IF s = {} THEN 0
                                      ELSE f[Some(s)] + V(s \ {Some(s)})]
    OBVIOUS
  <2> HIDE DEF new
  <2> QED
    BY <1>5, <2>1 DEF Adds
<1> QED
  BY <1>2, <1>6

(* The sum over no element,                                                *)
LEMMA SumOfNone ==
  ASSUME NEW f PROVE SumOf(f, {}) = 0
<1>1. \E g : Adds(f, g, {})
  BY AddsExists, FS_EmptySet, {} \in SUBSET {}
<1>2. Adds(f, CHOOSE g : Adds(f, g, {}), {})
  BY <1>1
<1> QED
  BY <1>2, SumUnfold DEF Adds

(* and over one more.                                                      *)
LEMMA SumOfSome ==
  ASSUME NEW S, IsFiniteSet(S), S # {}, NEW f
  PROVE  SumOf(f, S) = f[Some(S)] + SumOf(f, S \ {Some(S)})
<1> DEFINE G(s) == CHOOSE g : Adds(f, g, s)
           r == S \ {Some(S)}
<1>1. Adds(f, G(S), S) /\ Adds(f, G(r), r)
  <2>1. S \in SUBSET S /\ r \in SUBSET S
    OBVIOUS
  <2>2. (\E g : Adds(f, g, S)) /\ (\E g : Adds(f, g, r))
    BY <2>1, AddsExists
  <2> QED
    BY <2>2
<1>2. SumOf(f, S) = G(S)[S] /\ SumOf(f, r) = G(r)[r]
  BY SumUnfold
<1> HIDE DEF G
<1>3. r \in SUBSET S /\ S \in SUBSET S
  OBVIOUS
<1>4. G(S)[r] = G(r)[r]
  BY <1>1, <1>3, AddsUnique
<1>5. G(S)[S] = f[Some(S)] + G(S)[r]
  BY <1>1 DEF Adds
<1> QED
  BY <1>2, <1>4, <1>5

(* What holds of no element, and of a set as soon as it holds of the set   *)
(* without one of its elements, holds of every finite set.                 *)
LEMMA SetInduction ==
  ASSUME NEW S, IsFiniteSet(S), NEW Good, {} \in Good,
         \A T \in SUBSET S : T # {} /\ T \ {Some(T)} \in Good => T \in Good
  PROVE  S \in Good
<1> DEFINE Bad == {T \in SUBSET S : T \notin Good}
<1> SUFFICES ASSUME Bad # {} PROVE FALSE
  OBVIOUS
<1>1. PICK T \in Bad : \A U \in SUBSET T : U # T => U \notin Bad
  <2>1. Bad \subseteq SUBSET S
    OBVIOUS
  <2> HIDE DEF Bad
  <2> QED
    BY <2>1, SmallestSubset, Zenon
<1>2. T \in SUBSET S /\ T # {} /\ Some(T) \in T
  BY SomeIn
<1>3. T \ {Some(T)} \in Good
  BY <1>1, <1>2
<1> QED
  BY <1>2, <1>3

(* A sum of integers is one.                                               *)
LEMMA SumInt ==
  ASSUME NEW S, IsFiniteSet(S), NEW f, \A x \in S : f[x] \in Int
  PROVE  SumOf(f, S) \in Int
<1> DEFINE Good == {T \in SUBSET S : SumOf(f, T) \in Int}
<1>1. {} \in Good
  BY SumOfNone
<1>2. ASSUME NEW T \in SUBSET S, T # {}, T \ {Some(T)} \in Good PROVE T \in Good
  <2>1. IsFiniteSet(T) /\ Some(T) \in S
    BY <1>2, SomeIn, FS_Subset
  <2>2. SumOf(f, T) = f[Some(T)] + SumOf(f, T \ {Some(T)})
    BY <1>2, <2>1, SumOfSome
  <2> QED
    BY <1>2, <2>1, <2>2
<1> HIDE DEF Good
<1>3. S \in Good
  BY <1>1, <1>2, SetInduction
<1> QED
  BY <1>3 DEF Good

(* A sum of zeros is zero: what an empty ledger moves (server.c:85-107).   *)
LEMMA SumOfZeros ==
  ASSUME NEW S, IsFiniteSet(S), NEW f, \A x \in S : f[x] = 0
  PROVE  SumOf(f, S) = 0
<1> DEFINE Good == {T \in SUBSET S : SumOf(f, T) = 0}
<1>1. {} \in Good
  BY SumOfNone
<1>2. ASSUME NEW T \in SUBSET S, T # {}, T \ {Some(T)} \in Good PROVE T \in Good
  <2>1. IsFiniteSet(T) /\ Some(T) \in S
    BY <1>2, SomeIn, FS_Subset
  <2>2. SumOf(f, T) = f[Some(T)] + SumOf(f, T \ {Some(T)})
    BY <1>2, <2>1, SumOfSome
  <2> QED
    BY <1>2, <2>1, <2>2
<1> HIDE DEF Good
<1>3. S \in Good
  BY <1>1, <1>2, SetInduction
<1> QED
  BY <1>3 DEF Good

(* c more for each element: create_processes gives every wallet the same   *)
(* balance (main.c:131-143).                                               *)
LEMMA SumShift ==
  ASSUME NEW S, IsFiniteSet(S), NEW f, NEW g, NEW c \in Int,
         \A x \in S : f[x] \in Int /\ g[x] = c + f[x]
  PROVE  SumOf(g, S) = Cardinality(S) * c + SumOf(f, S)
<1> DEFINE Good == {T \in SUBSET S : SumOf(g, T) = Cardinality(T) * c + SumOf(f, T)}
<1>1. {} \in Good
  BY SumOfNone, FS_EmptySet
<1>2. ASSUME NEW T \in SUBSET S, T # {}, T \ {Some(T)} \in Good PROVE T \in Good
  <2> DEFINE x == Some(T)
             r == T \ {Some(T)}
  <2>1. IsFiniteSet(T) /\ x \in T /\ x \in S
    BY <1>2, SomeIn, FS_Subset
  <2>2. IsFiniteSet(r) /\ Cardinality(r) = Cardinality(T) - 1
    BY <2>1, FS_RemoveElement
  <2>3. Cardinality(T) \in Nat
    BY <2>1, FS_CardinalityType
  <2>4. SumOf(g, T) = g[x] + SumOf(g, r) /\ SumOf(f, T) = f[x] + SumOf(f, r)
    BY <1>2, <2>1, SumOfSome
  <2>5. SumOf(f, r) \in Int
    BY <2>2, SumInt
  <2>6. SumOf(g, r) = Cardinality(r) * c + SumOf(f, r)
    BY <1>2
  <2> HIDE DEF x, r
  <2>7. (Cardinality(T) - 1) * c = Cardinality(T) * c - c
    BY <2>3
  <2>8. SumOf(g, T) = Cardinality(T) * c + SumOf(f, T)
    <3>1. Cardinality(T) * c \in Int
      BY <2>3
    <3> QED
      BY <2>1, <2>2, <2>4, <2>5, <2>6, <2>7, <3>1
  <2> QED
    BY <2>8
<1> HIDE DEF Good
<1>3. S \in Good
  BY <1>1, <1>2, SetInduction
<1> QED
  BY <1>3 DEF Good

(* g is f with a more for one element, and less for another.               *)
Transferred(f, g, S, from, to, a) ==
  \A x \in S : /\ f[x] \in Int
               /\ g[x] = f[x] + (IF x = to THEN a ELSE 0) - (IF x = from THEN a ELSE 0)

(* What is taken from one element and added to another, as a transfer is   *)
(* (server.c:65-66), leaves the sum as it was.                             *)
LEMMA SumMoves ==
  ASSUME NEW S, IsFiniteSet(S), NEW from \in S, NEW to \in S, NEW a \in Int,
         NEW f, NEW g, Transferred(f, g, S, from, to, a)
  PROVE  SumOf(g, S) = SumOf(f, S)
<1> USE DEF Transferred
<1> DEFINE Shift(T) == (IF to \in T THEN a ELSE 0) - (IF from \in T THEN a ELSE 0)
           Good == {T \in SUBSET S : SumOf(g, T) = SumOf(f, T) + Shift(T)}
<1>1. {} \in Good
  BY SumOfNone
<1>2. ASSUME NEW T \in SUBSET S, T # {}, T \ {Some(T)} \in Good PROVE T \in Good
  <2> DEFINE x == Some(T)
             r == T \ {Some(T)}
  <2>1. IsFiniteSet(T) /\ x \in T /\ x \in S /\ IsFiniteSet(r) /\ r \subseteq S
    BY <1>2, SomeIn, FS_Subset
  <2>2. SumOf(g, T) = g[x] + SumOf(g, r) /\ SumOf(f, T) = f[x] + SumOf(f, r)
    BY <1>2, <2>1, SumOfSome
  <2>3. SumOf(f, r) \in Int
    BY <2>1, SumInt
  <2>4. SumOf(g, r) = SumOf(f, r) + Shift(r)
    BY <1>2
  <2>5. /\ to \in T <=> to = x \/ to \in r
        /\ from \in T <=> from = x \/ from \in r
        /\ x \notin r
    BY <2>1
  <2> HIDE DEF x, r
  <2> QED
    BY <2>1, <2>2, <2>3, <2>4, <2>5
<1>3. S \in Good
  <2> HIDE DEF Good
  <2> QED
    BY <1>1, <1>2, SetInduction
<1>4. SumOf(f, S) \in Int
  BY SumInt
<1> QED
  BY <1>3, <1>4

(* Where no element gives more than before, and one of them less, the sum  *)
(* is less.                                                                *)
LEMMA SumDescends ==
  ASSUME NEW S, IsFiniteSet(S), NEW p \in S, NEW f, NEW g,
         \A x \in S : f[x] \in Int /\ g[x] \in Int /\ g[x] <= f[x],
         g[p] < f[p]
  PROVE  SumOf(g, S) < SumOf(f, S)
<1> DEFINE Good == {T \in SUBSET S : IF p \in T THEN SumOf(g, T) < SumOf(f, T)
                                                ELSE SumOf(g, T) <= SumOf(f, T)}
<1>1. {} \in Good
  BY SumOfNone
<1>2. ASSUME NEW T \in SUBSET S, T # {}, T \ {Some(T)} \in Good PROVE T \in Good
  <2> DEFINE x == Some(T)
             r == T \ {Some(T)}
  <2>1. IsFiniteSet(T) /\ x \in T /\ x \in S /\ IsFiniteSet(r) /\ r \subseteq S
    BY <1>2, SomeIn, FS_Subset
  <2>2. SumOf(g, T) = g[x] + SumOf(g, r) /\ SumOf(f, T) = f[x] + SumOf(f, r)
    BY <1>2, <2>1, SumOfSome
  <2>3. SumOf(f, r) \in Int /\ SumOf(g, r) \in Int
    BY <2>1, SumInt
  <2>4. IF p \in r THEN SumOf(g, r) < SumOf(f, r) ELSE SumOf(g, r) <= SumOf(f, r)
    BY <1>2
  <2>5. p \in T <=> p = x \/ p \in r
    BY <2>1
  <2> HIDE DEF x, r
  <2> QED
    BY <2>1, <2>2, <2>3, <2>4, <2>5
<1>3. S \in Good
  <2> HIDE DEF Good
  <2> QED
    BY <1>1, <1>2, SetInduction
<1> QED
  BY <1>3

(* A sum of natural numbers is one.                                        *)
LEMMA SumNat ==
  ASSUME NEW S, IsFiniteSet(S), NEW f, \A x \in S : f[x] \in Nat
  PROVE  SumOf(f, S) \in Nat
<1> DEFINE Good == {T \in SUBSET S : SumOf(f, T) \in Nat}
<1>1. {} \in Good
  BY SumOfNone
<1>2. ASSUME NEW T \in SUBSET S, T # {}, T \ {Some(T)} \in Good PROVE T \in Good
  <2>1. IsFiniteSet(T) /\ Some(T) \in S
    BY <1>2, SomeIn, FS_Subset
  <2>2. SumOf(f, T) = f[Some(T)] + SumOf(f, T \ {Some(T)})
    BY <1>2, <2>1, SumOfSome
  <2> QED
    BY <1>2, <2>1, <2>2
<1> HIDE DEF Good
<1>3. S \in Good
  BY <1>1, <1>2, SetInduction
<1> QED
  BY <1>3 DEF Good
==============================================================================
