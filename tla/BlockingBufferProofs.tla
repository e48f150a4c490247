------------------------- MODULE BlockingBufferProofs -------------------------
(***************************************************************************)
(* Invariants of BlockingBuffer, proved for any number of threads, any      *)
(* element type and any Size > 0: types, the agreement of the ring indices, *)
(* the lock protocol, and, for one reader and one writer, that nobody       *)
(* sleeps through a reason to run.                                          *)
(***************************************************************************)
EXTENDS BlockingBuffer, TLAPS

\* A remainder is a slot of the ring.
LEMMA ModInSlot == ASSUME NEW a \in Int PROVE a % Size \in Slot
  BY SizeAssumption DEF Slot

\* Within two laps the remainder is one conditional subtraction.
LEMMA ModOneLap ==
  ASSUME NEW a \in Nat, a < 2 * Size
  PROVE  a % Size = IF a < Size THEN a ELSE a - Size
  BY SizeAssumption

\* Reducing early does not matter, as long as the sum stays within one lap.
LEMMA ModShift ==
  ASSUME NEW r \in Slot, NEW k \in Nat, NEW j \in Nat, k + j <= Size
  PROVE  (((r + k) % Size) + j) % Size = (r + k + j) % Size
<1>1. r \in Nat /\ r < Size /\ Size \in Nat
  BY SizeAssumption DEF Slot
<1>2. (r + k) % Size = IF r + k < Size THEN r + k ELSE r + k - Size
  BY <1>1, ModOneLap
<1>3. (r + k + j) % Size = IF r + k + j < Size THEN r + k + j ELSE r + k + j - Size
  BY <1>1, ModOneLap
<1>4. CASE r + k < Size
  BY <1>1, <1>2, <1>4
<1>5. CASE r + k >= Size
  <2>1. r + k - Size + j \in Nat /\ r + k - Size + j < Size
    BY <1>1, <1>5
  <2>2. (r + k - Size + j) % Size = r + k - Size + j
    BY <2>1, <1>1, ModOneLap
  <2> QED
    BY <2>1, <2>2, <1>1, <1>2, <1>3, <1>5
<1> QED
  BY <1>1, <1>4, <1>5

\* A span has a length within MaxArg and elements in Data.
LEMMA ChunkType ==
  ASSUME NEW s \in Chunk
  PROVE  /\ Len(s) \in Nat
         /\ \A i \in 1..Len(s) : s[i] \in Data
<1>1. PICK n \in 0..MaxArg : s \in [1..n -> Data]
  BY DEF Chunk
<1>2. n \in Nat /\ s \in Seq(Data) /\ Len(s) = n
  BY <1>1, MaxArgAssumption
<1> QED
  BY <1>1, <1>2

\* The empty span is one of them, so NoCall has the fields of a call.
LEMMA CallType ==
  ASSUME NEW c \in Call \cup {NoCall}
  PROVE  /\ c.bytes \in Chunk /\ c.n \in Count /\ c.offset \in Count
<1>1. <<>> \in [1..0 -> Data]
  OBVIOUS
<1>2. <<>> \in Chunk /\ 0 \in Count
  BY <1>1, MaxArgAssumption DEF Chunk, Count
<1> QED
  BY <1>2 DEF Call, NoCall

\* Copying k elements out of the ring gives a sequence of k elements.
LEMMA CopyType ==
  ASSUME buffer_ \in [Slot -> Data], NEW p \in Int, NEW k \in Nat
  PROVE  Copy(p, k) \in Seq(Data) /\ Len(Copy(p, k)) = k
<1>1. \A i \in 1..k : buffer_[(p + i - 1) % Size] \in Data
  BY ModInSlot
<1>2. Copy(p, k) \in [1..k -> Data]
  BY <1>1 DEF Copy
<1> QED
  BY <1>2

\* std::min of two sizes is a size within both.
LEMMA LesserType ==
  ASSUME NEW a \in Nat, NEW b \in Nat
  PROVE  Lesser(a, b) \in Nat /\ Lesser(a, b) <= a /\ Lesser(a, b) <= b
  BY DEF Lesser

-----------------------------------------------------------------------------

\* Taking elements from the front keeps the ring well formed.
LEMMA AdvanceType ==
  ASSUME TypeOK, NEW k \in Nat, k <= curr_len_, Advance(k)
  PROVE  /\ read_pos_' \in Slot /\ write_pos_' \in Slot /\ curr_len_' \in 0..Size
         /\ buffer_' \in [Slot -> Data]
<1>1. read_pos_ + k \in Int
  BY DEF TypeOK, Slot
<1>2. read_pos_' \in Slot
  BY <1>1, ModInSlot DEF Advance
<1>3. curr_len_' \in 0..Size
  BY SizeAssumption DEF Advance, TypeOK
<1> QED
  BY <1>2, <1>3 DEF Advance, TypeOK

\* Returning from a call keeps the threads' bookkeeping well typed.
LEMMA FinishType ==
  ASSUME TypeOK, NEW t \in Thread, NEW n \in Nat, NEW s \in Seq(Data), NEW woken,
         Finish(t, n, s, woken)
  PROVE  /\ is_forcefully_woken_up_' \in BOOLEAN
         /\ mutex_' \in Thread \cup {NoThread}
         /\ pc' \in [Thread -> {"idle", "lock", "test", "block", "waiting",
                                "flag", "notify_read", "notify_write"}]
         /\ call' \in [Thread -> Call \cup {NoCall}]
         /\ ret' \in [Thread -> [n : Nat, data : Seq(Data)]]
<1>1. is_forcefully_woken_up_' \in BOOLEAN
  BY DEF Finish, TypeOK
<1>2. pc' \in [Thread -> {"idle", "lock", "test", "block", "waiting",
                          "flag", "notify_read", "notify_write"}]
  BY DEF Finish, TypeOK
<1>3. call' \in [Thread -> Call \cup {NoCall}]
  BY DEF Finish, TypeOK
<1>4. ret' \in [Thread -> [n : Nat, data : Seq(Data)]]
  BY DEF Finish, TypeOK
<1> QED
  BY <1>1, <1>2, <1>3, <1>4 DEF Finish

\* The number of elements a write stores fits into the ring and the span.
LEMMA WriteCount ==
  ASSUME TypeOK, NEW t \in Thread
  PROVE  LET n == Lesser(Len(call[t].bytes), Size - curr_len_) IN
         /\ n \in Nat /\ n <= Len(call[t].bytes) /\ curr_len_ + n <= Size
         /\ call[t].bytes \in Chunk /\ Len(call[t].bytes) \in Nat
         /\ curr_len_ \in Nat /\ Size \in Nat
<1>1. call[t].bytes \in Chunk
  BY CallType DEF TypeOK
<1>2. Len(call[t].bytes) \in Nat
  BY <1>1, ChunkType
<1> QED
  BY <1>1, <1>2, SizeAssumption DEF Lesser, TypeOK

\* write keeps the types: what it stores fits the free slots.
LEMMA WriteType ==
  ASSUME TypeOK, NEW t \in Thread, write(t)
  PROVE  TypeOK'
<1> DEFINE bytes == call[t].bytes
           count == Lesser(Len(bytes), Size - curr_len_)
           Index(s) == (s - write_pos_) % Size
<1>1. bytes \in Chunk
  BY WriteCount
<1>2. count \in Nat /\ count <= Len(bytes) /\ curr_len_ + count <= Size
  BY WriteCount
<1>3. buffer_' \in [Slot -> Data]
  <2>1. \A s \in Slot : Index(s) < count => bytes[Index(s) + 1] \in Data
    <3> SUFFICES ASSUME NEW s \in Slot, Index(s) < count
                 PROVE  bytes[Index(s) + 1] \in Data
      OBVIOUS
    <3>1. s - write_pos_ \in Int
      BY DEF TypeOK, Slot
    <3>2. Index(s) \in Nat
      BY <3>1, ModInSlot DEF Slot
    <3>3. Index(s) + 1 \in 1..Len(bytes)
      BY <3>2, <1>1, <1>2, ChunkType
    <3> QED
      BY <3>3, <1>1, ChunkType
  <2> QED
    BY <2>1 DEF write, TypeOK
<1>4. write_pos_' \in Slot
  <2>1. write_pos_ + count \in Int
    BY <1>2 DEF TypeOK, Slot
  <2> QED
    BY <2>1, ModInSlot DEF write
<1>5. curr_len_' \in 0..Size
  BY <1>2, SizeAssumption DEF write, TypeOK
<1>6. PICK woken \in NotifyOne(can_read_) :
        can_read_' = can_read_ \ woken /\ Finish(t, count, <<>>, woken)
  BY DEF write
<1>7. <<>> \in Seq(Data)
  OBVIOUS
<1>8. can_read_' \subseteq Thread /\ can_write_' \subseteq Thread /\ read_pos_' \in Slot
  BY <1>6 DEF write, TypeOK
<1> HIDE DEF count
<1> QED
  BY <1>2, <1>3, <1>4, <1>5, <1>6, <1>7, <1>8, FinishType DEF TypeOK

\* The common tail of read and try_read keeps the types.
LEMMA TakeFrontType ==
  ASSUME TypeOK, NEW t \in Thread, TakeFront(t)
  PROVE  TypeOK'
<1> DEFINE count == Lesser(call[t].n, curr_len_)
<1>1. count \in Nat /\ count <= curr_len_
  <2>1. call[t].n \in Nat /\ curr_len_ \in Nat
    BY CallType, SizeAssumption, MaxArgAssumption DEF TypeOK, Count
  <2> QED
    BY <2>1, LesserType
<1>2. Copy(read_pos_, count) \in Seq(Data)
  BY <1>1, CopyType DEF TypeOK, Slot
<1>3. PICK woken \in NotifyOne(can_write_) :
        /\ can_write_' = can_write_ \ woken
        /\ Finish(t, count, Copy(read_pos_, count), woken)
  BY DEF TakeFront
<1>4. Advance(count)
  BY DEF TakeFront
<1>5. can_read_' \subseteq Thread /\ can_write_' \subseteq Thread
  BY <1>3 DEF TakeFront, TypeOK
<1> HIDE DEF count
<1> QED
  BY <1>1, <1>2, <1>3, <1>4, <1>5, AdvanceType, FinishType DEF TypeOK

\* Every operation of BlockingBuffer.h keeps the types.
LEMMA BodyType ==
  ASSUME TypeOK, NEW t \in Thread, Body(t)
  PROVE  TypeOK'
<1>0. <<>> \in Seq(Data) /\ curr_len_ \in Nat /\ Size - curr_len_ \in Nat
  BY SizeAssumption DEF TypeOK
<1>1. CASE write(t)
  BY <1>1, WriteType
<1>2. CASE read(t)
  BY <1>2, TakeFrontType DEF read
<1>3. CASE try_read(t)
  <2>1. CASE TakeFront(t)
    BY <2>1, TakeFrontType
  <2>2. CASE Finish(t, 0, <<>>, {}) /\ UNCHANGED <<ring, waiters>>
    BY <2>2, <1>0, FinishType DEF TypeOK, ring, waiters
  <2> QED
    BY <1>3, <2>1, <2>2 DEF try_read
<1>4. CASE peek(t)
  <2> DEFINE offset == call[t].offset
             count == IF offset >= curr_len_ THEN 0
                      ELSE Lesser(call[t].n, curr_len_ - offset)
             data == Copy((read_pos_ + offset) % Size, count)
  <2>1. offset \in Nat /\ call[t].n \in Nat
    BY CallType, MaxArgAssumption DEF TypeOK, Count
  <2>2. count \in Nat
    BY <2>1, <1>0 DEF Lesser
  <2>3. (read_pos_ + offset) % Size \in Int
    <3>1. read_pos_ + offset \in Int
      BY <2>1 DEF TypeOK, Slot
    <3>2. (read_pos_ + offset) % Size \in Slot
      BY <3>1, ModInSlot
    <3> QED
      BY <3>2 DEF Slot
  <2>4. data \in Seq(Data)
    <3> HIDE DEF count
    <3> QED
      BY <2>2, <2>3, CopyType DEF TypeOK
  <2>5. Finish(t, count, data, {}) /\ UNCHANGED <<ring, waiters>>
    BY <1>4 DEF peek
  <2> HIDE DEF count, data
  <2> QED
    BY <2>2, <2>4, <2>5, FinishType DEF TypeOK, ring, waiters
<1>5. CASE discard(t)
  <2> DEFINE to_discard == Lesser(call[t].n, curr_len_)
  <2>1. call[t].n \in Nat
    BY CallType, MaxArgAssumption DEF TypeOK, Count
  <2>2. to_discard \in Nat /\ to_discard <= curr_len_
    BY <2>1, <1>0, LesserType
  <2>3. PICK woken : /\ can_write_' = can_write_ \ woken
                     /\ Finish(t, to_discard, <<>>, woken)
    BY <1>5 DEF discard
  <2>4. Advance(to_discard) /\ UNCHANGED can_read_
    BY <1>5 DEF discard
  <2> HIDE DEF to_discard
  <2> QED
    BY <1>0, <2>2, <2>3, <2>4, AdvanceType, FinishType DEF TypeOK
<1>6. CASE size(t)
  BY <1>6, <1>0, FinishType DEF size, TypeOK, ring, waiters
<1>7. CASE available_capacity(t)
  BY <1>7, <1>0, FinishType DEF available_capacity, TypeOK, ring, waiters
<1> QED
  BY <1>1, <1>2, <1>3, <1>4, <1>5, <1>6, <1>7 DEF Body

\* Every step, of the lock protocol and of force_wake_up_ too, keeps the types.
LEMMA NextType == TypeOK /\ [Next]_vars => TypeOK'
<1> SUFFICES ASSUME TypeOK, [Next]_vars PROVE TypeOK'
  OBVIOUS
<1>1. ASSUME NEW t \in Thread, Begin(t) PROVE TypeOK'
  <2>1. PICK c \in Calls(t) : call' = [call EXCEPT ![t] = c]
    BY <1>1 DEF Begin
  <2>2. call' \in [Thread -> Call \cup {NoCall}]
    BY <2>1 DEF Calls, TypeOK
  <2>3. pc' \in [Thread -> {"idle", "lock", "test", "block", "waiting",
                            "flag", "notify_read", "notify_write"}]
    BY <1>1 DEF Begin, TypeOK
  <2> QED
    BY <1>1, <2>2, <2>3 DEF Begin, TypeOK, ring, waiters
<1>2. ASSUME NEW t \in Thread, Acquire(t) PROVE TypeOK'
  BY <1>2 DEF Acquire, TypeOK, ring, waiters
<1>3. ASSUME NEW t \in Thread, Test(t) PROVE TypeOK'
  BY <1>3 DEF Test, TypeOK, ring, waiters
<1>4. ASSUME NEW t \in Thread, Block(t) PROVE TypeOK'
  BY <1>4 DEF Block, TypeOK, ring
<1>5. ASSUME NEW t \in Thread, SpuriousWakeup(t) PROVE TypeOK'
  BY <1>5 DEF SpuriousWakeup, TypeOK, ring
<1>6. ASSUME NEW t \in Thread, SetFlag(t) PROVE TypeOK'
  BY <1>6 DEF SetFlag, TypeOK, ring, waiters
<1>7. ASSUME NEW t \in Thread, NotifyReaders(t) PROVE TypeOK'
  BY <1>7 DEF NotifyReaders, Rouse, TypeOK, ring
<1>8. ASSUME NEW t \in Thread, NotifyWriters(t) PROVE TypeOK'
  BY <1>8 DEF NotifyWriters, Rouse, TypeOK, ring
<1>9. CASE UNCHANGED vars
  BY <1>9 DEF vars, TypeOK, ring, waiters
<1> QED
  BY <1>1, <1>2, <1>3, <1>4, <1>5, <1>6, <1>7, <1>8, <1>9, BodyType DEF Next, Step

\* Type correctness: under every interleaving of any number of threads the ring
\* indices of BlockingBuffer.h stay within the array and curr_len_ within Size.
THEOREM TypeCorrect == Spec => []TypeOK
<1>1. Init => TypeOK
  <2> SUFFICES ASSUME Init PROVE TypeOK
    OBVIOUS
  <2>1. <<>> \in Seq(Data)
    OBVIOUS
  <2>2. ret \in [Thread -> [n : Nat, data : Seq(Data)]]
    BY <2>1 DEF Init
  <2>3. call \in [Thread -> Call \cup {NoCall}]
    BY DEF Init
  <2> QED
    BY <2>2, <2>3, SizeAssumption DEF Init, TypeOK, Slot
<1> QED
  BY <1>1, NextType, PTL DEF Spec

-----------------------------------------------------------------------------
(* The ring indices agree.                                                  *)

\* Taking k elements moves read_pos_ and curr_len_ together.
LEMMA AdvanceRing ==
  ASSUME TypeOK, RingConsistent, NEW k \in Nat, k <= curr_len_, Advance(k)
  PROVE  RingConsistent'
<1>1. curr_len_ \in Nat /\ curr_len_ <= Size
  BY SizeAssumption DEF TypeOK
<1>2. (((read_pos_ + k) % Size) + (curr_len_ - k)) % Size = (read_pos_ + k + (curr_len_ - k)) % Size
  BY <1>1, ModShift DEF TypeOK
<1>3. read_pos_ + k + (curr_len_ - k) = read_pos_ + curr_len_
  BY <1>1 DEF TypeOK, Slot
<1> QED
  BY <1>2, <1>3 DEF Advance, RingConsistent

\* Storing elements moves write_pos_ and curr_len_ together.
LEMMA WriteRing ==
  ASSUME TypeOK, RingConsistent, NEW t \in Thread, write(t)
  PROVE  RingConsistent'
<1> DEFINE n == Lesser(Len(call[t].bytes), Size - curr_len_)
<1>1. n \in Nat /\ curr_len_ \in Nat /\ curr_len_ + n <= Size
  BY WriteCount
<1>2. write_pos_' = (write_pos_ + n) % Size /\ curr_len_' = curr_len_ + n
      /\ read_pos_' = read_pos_
  BY DEF write
<1> HIDE DEF n
<1>3. (((read_pos_ + curr_len_) % Size) + n) % Size = (read_pos_ + curr_len_ + n) % Size
  BY <1>1, ModShift DEF TypeOK
<1>4. read_pos_ + curr_len_ + n = read_pos_ + (curr_len_ + n)
  BY <1>1 DEF TypeOK, Slot
<1> QED
  BY <1>2, <1>3, <1>4 DEF RingConsistent

\* read and try_read keep the indices in agreement.
LEMMA TakeFrontRing ==
  ASSUME TypeOK, RingConsistent, NEW t \in Thread,
         Advance(Lesser(call[t].n, curr_len_))
  PROVE  RingConsistent'
<1>1. call[t].n \in Nat /\ curr_len_ \in Nat
  BY CallType, SizeAssumption, MaxArgAssumption DEF TypeOK, Count
<1>2. Lesser(call[t].n, curr_len_) \in Nat /\ Lesser(call[t].n, curr_len_) <= curr_len_
  BY <1>1, LesserType
<1> QED
  BY <1>2, AdvanceRing

\* The three indices of the ring (BlockingBuffer.h:30-32) agree in every reachable
\* state: only write, read, try_read and discard touch them.
THEOREM RingAgrees == Spec => []RingConsistent
<1>1. Init => RingConsistent
  BY SizeAssumption, ModOneLap DEF Init, RingConsistent
<1>2. TypeOK /\ RingConsistent /\ [Next]_vars => RingConsistent'
  <2> SUFFICES ASSUME TypeOK, RingConsistent, [Next]_vars PROVE RingConsistent'
    OBVIOUS
  <2>1. ASSUME NEW t \in Thread, write(t) PROVE RingConsistent'
    BY <2>1, WriteRing
  <2>2. ASSUME NEW t \in Thread, read(t) \/ discard(t) PROVE RingConsistent'
    BY <2>2, TakeFrontRing DEF read, discard, TakeFront
  <2>3. ASSUME NEW t \in Thread, try_read(t) PROVE RingConsistent'
    <3>1. CASE TakeFront(t)
      BY <3>1, TakeFrontRing DEF TakeFront
    <3>2. CASE UNCHANGED <<ring, waiters>>
      BY <3>2 DEF RingConsistent, ring
    <3> QED
      BY <2>3, <3>1, <3>2 DEF try_read
  <2>4. CASE UNCHANGED ring
    BY <2>4 DEF RingConsistent, ring
  <2>5. ASSUME NEW t \in Thread, peek(t) \/ size(t) \/ available_capacity(t)
        PROVE  UNCHANGED ring
    BY <2>5 DEF peek, size, available_capacity
  <2>6. ASSUME NEW t \in Thread,
               \/ Begin(t) \/ SpuriousWakeup(t) \/ Acquire(t) \/ Test(t) \/ Block(t)
               \/ SetFlag(t) \/ NotifyReaders(t) \/ NotifyWriters(t)
        PROVE  UNCHANGED ring
    BY <2>6 DEF Begin, SpuriousWakeup, Acquire, Test, Block, SetFlag,
                NotifyReaders, NotifyWriters
  <2>7. CASE UNCHANGED vars
    BY <2>7, <2>4 DEF vars
  <2> QED
    BY <2>1, <2>2, <2>3, <2>4, <2>5, <2>6, <2>7 DEF Next, Step, Body
<1> QED
  BY <1>1, <1>2, TypeCorrect, PTL DEF Spec

-----------------------------------------------------------------------------
(* The lock protocol.                                                       *)

\* A thread that returns wakes only threads parked on `cv'.
LEMMA FinishLock ==
  ASSUME TypeOK, LockDiscipline, NEW t \in Thread, pc[t] = "test", NEW n, NEW s,
         NEW woken \in SUBSET Thread, Finish(t, n, s, woken),
         \/ /\ woken \subseteq can_read_
            /\ can_read_' = can_read_ \ woken /\ can_write_' = can_write_
         \/ /\ woken \subseteq can_write_
            /\ can_write_' = can_write_ \ woken /\ can_read_' = can_read_
  PROVE  LockDiscipline'
<1>1. pc' = [u \in Thread |-> IF u = t THEN "idle"
                              ELSE IF u \in woken THEN "lock" ELSE pc[u]]
  BY DEF Finish
<1>2. mutex_ = t /\ mutex_' = NoThread /\ t \notin can_read_ \cup can_write_
  BY DEF Finish, LockDiscipline
<1>3. \A u \in Thread : pc'[u] \in {"test", "block"} <=> mutex_' = u
  BY <1>1, <1>2, NoThreadAssumption DEF LockDiscipline
<1>4. \A u \in Thread : (pc'[u] = "waiting") <=> (u \in can_read_' \cup can_write_')
  BY <1>1, <1>2 DEF LockDiscipline
<1> QED
  BY <1>3, <1>4 DEF LockDiscipline

\* notify_one wakes a thread that waits.
LEMMA NotifyOneType ==
  ASSUME NEW cv \in SUBSET Thread, NEW woken \in NotifyOne(cv)
  PROVE  woken \subseteq cv
  BY DEF NotifyOne

\* Every body starts with mutex_ held and ends with it released.
LEMMA BodyLock ==
  ASSUME TypeOK, LockDiscipline, NEW t \in Thread, Body(t)
  PROVE  LockDiscipline'
<1>1. CASE write(t)
  <2>1. PICK woken \in NotifyOne(can_read_) :
          /\ can_read_' = can_read_ \ woken
          /\ Finish(t, Lesser(Len(call[t].bytes), Size - curr_len_), <<>>, woken)
    BY <1>1 DEF write
  <2>2. woken \subseteq can_read_ /\ woken \in SUBSET Thread
    BY <2>1, NotifyOneType DEF TypeOK
  <2>3. pc[t] = "test" /\ can_write_' = can_write_
    BY <1>1 DEF write, Running
  <2> QED
    BY <2>1, <2>2, <2>3, FinishLock
<1>2. ASSUME TakeFront(t), pc[t] = "test" PROVE LockDiscipline'
  <2>1. PICK woken \in NotifyOne(can_write_) :
          /\ can_write_' = can_write_ \ woken
          /\ Finish(t, Lesser(call[t].n, curr_len_),
                    Copy(read_pos_, Lesser(call[t].n, curr_len_)), woken)
    BY <1>2 DEF TakeFront
  <2>2. woken \subseteq can_write_ /\ woken \in SUBSET Thread
    BY <2>1, NotifyOneType DEF TypeOK
  <2>3. can_read_' = can_read_
    BY <1>2 DEF TakeFront
  <2> QED
    BY <1>2, <2>1, <2>2, <2>3, FinishLock
<1>3. ASSUME NEW n, NEW s, Finish(t, n, s, {}), UNCHANGED waiters, pc[t] = "test"
      PROVE  LockDiscipline'
  BY <1>3, FinishLock DEF waiters
<1>4. CASE read(t)
  BY <1>4, <1>2 DEF read, Running
<1>5. CASE try_read(t)
  BY <1>5, <1>2, <1>3 DEF try_read, Running
<1>6. CASE peek(t)
  BY <1>6, <1>3 DEF peek, Running
<1>7. CASE discard(t)
  <2>1. PICK woken : /\ woken \subseteq can_write_
                     /\ can_write_' = can_write_ \ woken
                     /\ Finish(t, Lesser(call[t].n, curr_len_), <<>>, woken)
    BY <1>7 DEF discard, NotifyAll
  <2>2. pc[t] = "test" /\ can_read_' = can_read_ /\ woken \in SUBSET Thread
    BY <1>7, <2>1 DEF discard, Running, TypeOK
  <2> QED
    BY <2>1, <2>2, FinishLock
<1>8. CASE size(t) \/ available_capacity(t)
  BY <1>8, <1>3 DEF size, available_capacity, Running
<1> QED
  BY <1>1, <1>4, <1>5, <1>6, <1>7, <1>8 DEF Body

\* Every step keeps the lock protocol.
LEMMA NextLock == TypeOK /\ LockDiscipline /\ [Next]_vars => LockDiscipline'
<1> SUFFICES ASSUME TypeOK, LockDiscipline, [Next]_vars PROVE LockDiscipline'
  OBVIOUS
<1>1. ASSUME NEW t \in Thread, Begin(t) PROVE LockDiscipline'
  <2>1. /\ pc[t] = "idle" /\ UNCHANGED <<mutex_, can_read_, can_write_>>
        /\ \E at \in {"flag", "lock"} : pc' = [pc EXCEPT ![t] = at]
    BY <1>1 DEF Begin, waiters
  <2> QED
    BY <2>1 DEF LockDiscipline, TypeOK
<1>2. ASSUME NEW t \in Thread, Acquire(t) PROVE LockDiscipline'
  BY <1>2, NoThreadAssumption DEF Acquire, LockDiscipline, TypeOK, waiters
<1>3. ASSUME NEW t \in Thread, Test(t) PROVE LockDiscipline'
  BY <1>3 DEF Test, LockDiscipline, TypeOK, waiters
<1>4. ASSUME NEW t \in Thread, Block(t) PROVE LockDiscipline'
  BY <1>4, NoThreadAssumption DEF Block, LockDiscipline, TypeOK
<1>5. ASSUME NEW t \in Thread, SpuriousWakeup(t) PROVE LockDiscipline'
  BY <1>5 DEF SpuriousWakeup, LockDiscipline, TypeOK
<1>6. ASSUME NEW t \in Thread, SetFlag(t) PROVE LockDiscipline'
  BY <1>6 DEF SetFlag, LockDiscipline, TypeOK, waiters
<1>7. ASSUME NEW t \in Thread, NotifyReaders(t) PROVE LockDiscipline'
  BY <1>7 DEF NotifyReaders, Rouse, LockDiscipline, TypeOK
<1>8. ASSUME NEW t \in Thread, NotifyWriters(t) PROVE LockDiscipline'
  BY <1>8 DEF NotifyWriters, Rouse, LockDiscipline, TypeOK
<1>9. CASE UNCHANGED vars
  BY <1>9 DEF vars, LockDiscipline, waiters
<1> QED
  BY <1>1, <1>2, <1>3, <1>4, <1>5, <1>6, <1>7, <1>8, <1>9, BodyLock DEF Next, Step

\* mutex_ is held exactly by the thread that tests a predicate, is about to park or
\* runs a body, and the wait sets hold exactly the parked threads: the lock
\* protocol of BlockingBuffer.h:48-161 survives every interleaving.
THEOREM LockKept == Spec => []LockDiscipline
<1>1. Init => LockDiscipline
  BY NoThreadAssumption DEF Init, LockDiscipline
<1> QED
  BY <1>1, NextLock, TypeCorrect, PTL DEF Spec

-----------------------------------------------------------------------------
(* Nobody oversleeps.  The invariant is not inductive by itself: the thread  *)
(* about to park must still find its predicate false, and a parked thread    *)
(* must be one whose program makes that call, so that OneEach applies.       *)

\* A thread is inside a call it makes, and parks on the condition variable of its
\* operation.
CallsOwnOps ==
    /\ \A t \in Thread : pc[t] # "idle" => call[t].op \in Ops[t]
    /\ \A t \in can_read_ : call[t].op = "read"
    /\ \A t \in can_write_ : call[t].op = "write"

\* The thread about to park still finds its predicate false: nobody could change
\* the ring since it looked.
ParksInTime ==
    ~ is_forcefully_woken_up_ =>
        \A t \in Thread : pc[t] = "block" =>
            /\ call[t].op = "read" => curr_len_ = 0
            /\ call[t].op = "write" => curr_len_ = Size

\* The inductive strengthening of NobodyOversleeps.
SleepInv == CallsOwnOps /\ ParksInTime /\ NobodyOversleeps

\* What a return does to the three parts that do not depend on the ring.
LEMMA FinishOps ==
  ASSUME TypeOK, LockDiscipline, CallsOwnOps, NEW t \in Thread, pc[t] = "test",
         NEW n, NEW s, NEW woken, Finish(t, n, s, woken),
         woken \subseteq can_read_ \cup can_write_,
         can_read_' \subseteq can_read_, can_write_' \subseteq can_write_
  PROVE  CallsOwnOps' /\ ParksInTime'
<1>1. pc' = [u \in Thread |-> IF u = t THEN "idle"
                              ELSE IF u \in woken THEN "lock" ELSE pc[u]]
  BY DEF Finish
<1>2. mutex_ = t /\ t \notin can_read_ \cup can_write_
  BY DEF LockDiscipline
<1>3. \A u \in Thread : u # t => call'[u] = call[u]
  BY DEF Finish, TypeOK
<1>4. \A u \in Thread : pc'[u] # "block"
  BY <1>1, <1>2 DEF LockDiscipline
<1>5. \A u \in woken : pc[u] # "idle"
  BY DEF LockDiscipline, TypeOK
<1>6. CallsOwnOps'
  <2>1. ASSUME NEW u \in Thread, pc'[u] # "idle" PROVE call'[u].op \in Ops[u]
    BY <2>1, <1>1, <1>3, <1>5 DEF CallsOwnOps
  <2>2. \A u \in can_read_' : call'[u].op = "read"
    BY <1>2, <1>3 DEF CallsOwnOps, TypeOK
  <2>3. \A u \in can_write_' : call'[u].op = "write"
    BY <1>2, <1>3 DEF CallsOwnOps, TypeOK
  <2> QED
    BY <2>1, <2>2, <2>3 DEF CallsOwnOps
<1> QED
  BY <1>4, <1>6 DEF ParksInTime

\* With one caller of `op', notify_one empties the wait set.
LEMMA NotifyOneEmpties ==
  ASSUME OneEach, TypeOK, LockDiscipline, CallsOwnOps,
         NEW cv, cv = can_read_ \/ cv = can_write_, NEW woken \in NotifyOne(cv)
  PROVE  cv \ woken = {}
<1>1. ASSUME NEW t \in cv, NEW u \in cv PROVE t = u
  <2>1. t \in Thread /\ u \in Thread /\ pc[t] = "waiting" /\ pc[u] = "waiting"
    BY <1>1 DEF TypeOK, LockDiscipline
  <2>2. call[t].op \in Ops[t] /\ call[u].op \in Ops[u]
    BY <2>1 DEF CallsOwnOps
  <2>3. \/ call[t].op = "read" /\ call[u].op = "read"
        \/ call[t].op = "write" /\ call[u].op = "write"
    BY <1>1 DEF CallsOwnOps
  <2> QED
    BY <2>1, <2>2, <2>3 DEF OneEach
<1> QED
  BY <1>1 DEF NotifyOne

\* A body wakes whoever it gives a reason to run.
LEMMA BodySleep ==
  ASSUME OneEach, TypeOK, LockDiscipline, SleepInv, NEW t \in Thread, Body(t)
  PROVE  SleepInv'
<1> USE DEF SleepInv
<1>0. pc[t] = "test" /\ CanGo(t) /\ curr_len_ \in Nat
  BY SizeAssumption DEF Body, write, read, try_read, peek, discard, size,
                        available_capacity, Running, TypeOK
<1>1. CASE write(t)
  <2>1. PICK woken \in NotifyOne(can_read_) :
          /\ can_read_' = can_read_ \ woken
          /\ Finish(t, Lesser(Len(call[t].bytes), Size - curr_len_), <<>>, woken)
    BY <1>1 DEF write
  <2>2. woken \subseteq can_read_ /\ can_write_' = can_write_ /\ can_read_' = {}
    BY <1>1, <2>1, NotifyOneType, NotifyOneEmpties DEF write, TypeOK
  <2>3. curr_len_ < Size \/ is_forcefully_woken_up_
    BY <1>1 DEF write, Running, CanGo
  <2>4. NobodyOversleeps'
    BY <2>1, <2>2, <2>3, SizeAssumption DEF NobodyOversleeps, Finish, TypeOK
  <2> QED
    BY <1>0, <2>1, <2>2, <2>4, FinishOps
<1>2. ASSUME TakeFront(t), curr_len_ > 0 \/ is_forcefully_woken_up_ PROVE SleepInv'
  <2>1. PICK woken \in NotifyOne(can_write_) :
          /\ can_write_' = can_write_ \ woken
          /\ Finish(t, Lesser(call[t].n, curr_len_),
                    Copy(read_pos_, Lesser(call[t].n, curr_len_)), woken)
    BY <1>2 DEF TakeFront
  <2>2. woken \subseteq can_write_ /\ can_read_' = can_read_ /\ can_write_' = {}
    BY <1>2, <2>1, NotifyOneType, NotifyOneEmpties DEF TakeFront, TypeOK
  <2>3. NobodyOversleeps'
    BY <1>0, <1>2, <2>1, <2>2 DEF NobodyOversleeps, Finish
  <2> QED
    BY <1>0, <2>1, <2>2, <2>3, FinishOps
<1>3. ASSUME NEW n, NEW s, Finish(t, n, s, {}), UNCHANGED <<ring, waiters>> PROVE SleepInv'
  <2>1. NobodyOversleeps'
    BY <1>3 DEF NobodyOversleeps, Finish, ring, waiters
  <2> QED
    BY <1>0, <1>3, <2>1, FinishOps DEF waiters
<1>4. CASE read(t)
  BY <1>4, <1>2 DEF read, Running, CanGo
<1>5. CASE try_read(t)
  BY <1>5, <1>2, <1>3 DEF try_read
<1>6. CASE peek(t) \/ size(t) \/ available_capacity(t)
  BY <1>6, <1>3 DEF peek, size, available_capacity
<1>7. CASE discard(t)
  <2> DEFINE d == Lesser(call[t].n, curr_len_)
  <2>1. PICK woken \in (IF d > 0 THEN NotifyAll(can_write_) ELSE {{}}) :
          can_write_' = can_write_ \ woken /\ Finish(t, d, <<>>, woken)
    BY <1>7 DEF discard
  <2>2. woken \subseteq can_write_ /\ can_read_' = can_read_
    BY <1>7, <2>1 DEF discard, NotifyAll
  <2>3. d \in Nat /\ d <= curr_len_ /\ curr_len_' = curr_len_ - d
    <3>1. call[t].n \in Nat
      BY CallType, MaxArgAssumption DEF TypeOK, Count
    <3> QED
      BY <1>0, <1>7, <3>1, LesserType DEF discard, Advance
  <2>4. is_forcefully_woken_up_' = is_forcefully_woken_up_
    BY <2>1 DEF Finish
  <2> HIDE DEF d
  <2>5. NobodyOversleeps'
    <3>1. CASE d = 0
      BY <3>1, <1>0, <2>1, <2>2, <2>3, <2>4 DEF NobodyOversleeps
    <3>2. CASE d > 0
      BY <3>2, <1>0, <2>1, <2>2, <2>3, <2>4 DEF NobodyOversleeps, NotifyAll
    <3> QED
      BY <2>3, <3>1, <3>2
  <2> QED
    BY <1>0, <2>1, <2>2, <2>5, FinishOps
<1> QED
  BY <1>1, <1>4, <1>5, <1>6, <1>7 DEF Body

\* Every step keeps the strengthened invariant.
LEMMA NextSleep ==
  ASSUME OneEach
  PROVE  TypeOK /\ LockDiscipline /\ SleepInv /\ [Next]_vars => SleepInv'
<1> SUFFICES ASSUME TypeOK, LockDiscipline, SleepInv, [Next]_vars PROVE SleepInv'
  OBVIOUS
<1> USE DEF SleepInv
<1>1. ASSUME NEW t \in Thread, Begin(t) PROVE SleepInv'
  <2>1. PICK c \in Calls(t) : call' = [call EXCEPT ![t] = c]
    BY <1>1 DEF Begin
  <2>2. c.op \in Ops[t] /\ t \notin can_read_ /\ t \notin can_write_
    BY <1>1, <2>1 DEF Calls, Begin, LockDiscipline
  <2>3. \A u \in Thread : u # t => call'[u] = call[u] /\ pc'[u] = pc[u]
    BY <1>1, <2>1 DEF Begin, TypeOK
  <2>4. call'[t].op \in Ops[t] /\ pc'[t] # "block"
    BY <1>1, <2>1, <2>2 DEF Begin, TypeOK
  <2>5. CallsOwnOps'
    BY <1>1, <2>2, <2>3, <2>4 DEF Begin, CallsOwnOps, TypeOK, waiters
  <2>6. ParksInTime'
    BY <1>1, <2>3, <2>4 DEF Begin, ParksInTime, ring
  <2>7. NobodyOversleeps'
    BY <1>1 DEF Begin, NobodyOversleeps, ring, waiters
  <2> QED
    BY <2>5, <2>6, <2>7
<1>2. ASSUME NEW t \in Thread, Acquire(t) PROVE SleepInv'
  BY <1>2 DEF Acquire, CallsOwnOps, ParksInTime, NobodyOversleeps, TypeOK, ring, waiters
<1>3. ASSUME NEW t \in Thread, Test(t) PROVE SleepInv'
  <2>1. ParksInTime'
    <3>1. /\ call[t].op = "read" => curr_len_ = 0
          /\ call[t].op = "write" => curr_len_ = Size
      BY <1>3, SizeAssumption DEF Test, CanGo, TypeOK
    <3> QED
      BY <1>3, <3>1 DEF Test, ParksInTime, TypeOK, ring
  <2>2. CallsOwnOps' /\ NobodyOversleeps'
    BY <1>3 DEF Test, CallsOwnOps, NobodyOversleeps, TypeOK, ring, waiters
  <2> QED
    BY <2>1, <2>2
<1>4. ASSUME NEW t \in Thread, Block(t) PROVE SleepInv'
  <2>1. CallsOwnOps'
    BY <1>4 DEF Block, CallsOwnOps, TypeOK
  <2>2. ParksInTime'
    BY <1>4 DEF Block, ParksInTime, TypeOK, ring
  <2>3. NobodyOversleeps'
    BY <1>4 DEF Block, ParksInTime, NobodyOversleeps, ring
  <2> QED
    BY <2>1, <2>2, <2>3
<1>5. ASSUME NEW t \in Thread, SpuriousWakeup(t) PROVE SleepInv'
  BY <1>5 DEF SpuriousWakeup, CallsOwnOps, ParksInTime, NobodyOversleeps, TypeOK, ring
<1>6. ASSUME NEW t \in Thread, SetFlag(t) PROVE SleepInv'
  BY <1>6 DEF SetFlag, CallsOwnOps, ParksInTime, NobodyOversleeps, TypeOK, ring, waiters
<1>7. ASSUME NEW t \in Thread, NotifyReaders(t) PROVE SleepInv'
  <2>1. CallsOwnOps'
    BY <1>7 DEF NotifyReaders, Rouse, CallsOwnOps, LockDiscipline, TypeOK
  <2>2. ParksInTime' /\ NobodyOversleeps'
    BY <1>7 DEF NotifyReaders, Rouse, ParksInTime, NobodyOversleeps, TypeOK, ring
  <2> QED
    BY <2>1, <2>2
<1>8. ASSUME NEW t \in Thread, NotifyWriters(t) PROVE SleepInv'
  <2>0. /\ pc' = [u \in Thread |-> IF u = t THEN "idle"
                                   ELSE IF u \in can_write_ THEN "lock" ELSE pc[u]]
        /\ \A u \in Thread : u # t => call'[u] = call[u]
        /\ t \notin can_read_
    BY <1>8 DEF NotifyWriters, Rouse, LockDiscipline, TypeOK
  <2>1. CallsOwnOps'
    BY <1>8, <2>0 DEF NotifyWriters, CallsOwnOps, LockDiscipline, TypeOK
  <2>2. ParksInTime'
    BY <1>8, <2>0 DEF NotifyWriters, ParksInTime, ring
  <2>3. NobodyOversleeps'
    BY <1>8 DEF NotifyWriters, NobodyOversleeps, ring
  <2> QED
    BY <2>1, <2>2, <2>3
<1>9. CASE UNCHANGED vars
  BY <1>9 DEF vars, CallsOwnOps, ParksInTime, NobodyOversleeps, ring, waiters
<1> QED
  BY <1>1, <1>2, <1>3, <1>4, <1>5, <1>6, <1>7, <1>8, <1>9, BodySleep DEF Next, Step

\* With one reader and one writer, the notify_one of write and read (BlockingBuffer.h
\* 65 and 88) and the notify_all of discard (145) reach everybody who needs them:
\* until force_wake_up_ is called nobody sleeps through a reason to run.
THEOREM NoOversleeping ==
  ASSUME OneEach
  PROVE  Spec => []NobodyOversleeps
<1>1. Init => SleepInv
  BY DEF Init, SleepInv, CallsOwnOps, ParksInTime, NobodyOversleeps
<1>2. SleepInv => NobodyOversleeps
  BY DEF SleepInv
<1> QED
  BY <1>1, <1>2, NextSleep, TypeCorrect, LockKept, PTL DEF Spec
=============================================================================
