--------------------------- MODULE BufferRefinement ---------------------------
(***************************************************************************)
(* The proof that the ring buffer implements the FIFO queue of ByteQueue:   *)
(* Contents lists the stored elements from read_pos_ on, the lock protocol  *)
(* is stuttering, and the body of an operation is the queue's answer.       *)
(***************************************************************************)
EXTENDS BlockingBufferProofs, SequenceTheorems

\* What the program counter says about the request of a thread.
RequestInv ==
    \A t \in Thread :
        /\ pc[t] = "idle" => call[t] = NoCall
        /\ pc[t] \in {"flag", "notify_read", "notify_write"} =>
             call[t].op = "force_wake_up_"
        /\ pc[t] \in {"notify_read", "notify_write"} => is_forcefully_woken_up_

\* A return leaves the thread idle and without a request.
LEMMA FinishRequest ==
  ASSUME TypeOK, RequestInv, NEW t \in Thread, NEW n, NEW s, NEW woken,
         Finish(t, n, s, woken)
  PROVE  RequestInv'
<1>1. call'[t] = NoCall /\ \A u \in Thread : u # t => call'[u] = call[u]
  BY DEF Finish, TypeOK
<1>2. pc' = [u \in Thread |-> IF u = t THEN "idle"
                              ELSE IF u \in woken THEN "lock" ELSE pc[u]]
  BY DEF Finish
<1> QED
  BY <1>1, <1>2 DEF RequestInv, Finish

\* Every step keeps RequestInv.
LEMMA NextRequest == TypeOK /\ RequestInv /\ [Next]_vars => RequestInv'
<1> SUFFICES ASSUME TypeOK, RequestInv, [Next]_vars PROVE RequestInv'
  OBVIOUS
<1>1. ASSUME NEW t \in Thread, Begin(t) PROVE RequestInv'
  <2>1. PICK c \in Calls(t) :
          /\ call' = [call EXCEPT ![t] = c]
          /\ pc' = [pc EXCEPT ![t] = IF c.op = "force_wake_up_" THEN "flag" ELSE "lock"]
    BY <1>1 DEF Begin
  <2> QED
    BY <1>1, <2>1 DEF Begin, RequestInv, TypeOK
<1>2. ASSUME NEW t \in Thread, Acquire(t) \/ Test(t) PROVE RequestInv'
  BY <1>2 DEF Acquire, Test, RequestInv, TypeOK
<1>3. ASSUME NEW t \in Thread, Block(t) \/ SpuriousWakeup(t) PROVE RequestInv'
  BY <1>3 DEF Block, SpuriousWakeup, RequestInv, TypeOK
<1>4. ASSUME NEW t \in Thread, Body(t) PROVE RequestInv'
  <2>1. \E n, s, woken : Finish(t, n, s, woken)
    BY <1>4 DEF Body, write, read, try_read, TakeFront, peek, discard, size,
                available_capacity
  <2> QED
    BY <2>1, FinishRequest
<1>5. ASSUME NEW t \in Thread, SetFlag(t) PROVE RequestInv'
  BY <1>5 DEF SetFlag, RequestInv, TypeOK
<1>6. ASSUME NEW t \in Thread, NotifyReaders(t) PROVE RequestInv'
  BY <1>6 DEF NotifyReaders, Rouse, RequestInv, TypeOK
<1>7. ASSUME NEW t \in Thread, NotifyWriters(t) PROVE RequestInv'
  BY <1>7 DEF NotifyWriters, Rouse, RequestInv, TypeOK
<1>8. CASE UNCHANGED vars
  BY <1>8 DEF vars, RequestInv
<1> QED
  BY <1>1, <1>2, <1>3, <1>4, <1>5, <1>6, <1>7, <1>8 DEF Next, Step

-----------------------------------------------------------------------------
(* The stored elements as a sequence.                                       *)

\* Contents is a sequence of curr_len_ elements, oldest first.
LEMMA ContentsType ==
  ASSUME TypeOK
  PROVE  /\ Contents \in Seq(Data) /\ Len(Contents) = curr_len_ /\ curr_len_ \in Nat
         /\ curr_len_ <= Size
         /\ \A i \in 1..curr_len_ : Contents[i] = buffer_[(read_pos_ + i - 1) % Size]
<1>1. Contents = Copy(read_pos_, curr_len_)
  BY DEF Contents, Copy
<1>2. curr_len_ \in Nat /\ read_pos_ \in Int /\ curr_len_ <= Size
  BY SizeAssumption DEF TypeOK, Slot
<1>3. \A i \in 1..curr_len_ : Contents[i] = buffer_[(read_pos_ + i - 1) % Size]
  BY DEF Contents
<1> QED
  BY <1>1, <1>2, <1>3, CopyType DEF TypeOK

\* Copying k elements from `off' on is a subsequence.
LEMMA CopyIsSubSeq ==
  ASSUME TypeOK, NEW off \in Nat, NEW k \in Nat, off + k <= curr_len_
  PROVE  Copy((read_pos_ + off) % Size, k) = SubSeq(Contents, off + 1, off + k)
<1> DEFINE c == Copy((read_pos_ + off) % Size, k)
           d == SubSeq(Contents, off + 1, off + k)
<1>1. curr_len_ \in Nat /\ curr_len_ <= Size /\ read_pos_ \in Slot /\ read_pos_ \in Nat
  BY SizeAssumption DEF TypeOK, Slot
<1>2. (read_pos_ + off) % Size \in Int
  <2>1. read_pos_ + off \in Int
    BY <1>1
  <2>2. (read_pos_ + off) % Size \in Slot
    BY <2>1, ModInSlot
  <2> QED
    BY <2>2 DEF Slot
<1>3. c \in Seq(Data) /\ Len(c) = k
  BY <1>2, CopyType DEF TypeOK
<1>4. \A i \in (off + 1)..(off + k) : Contents[i] \in Data
  <2> SUFFICES ASSUME NEW i \in (off + 1)..(off + k) PROVE Contents[i] \in Data
    OBVIOUS
  <2>1. i \in 1..Len(Contents) /\ Contents \in Seq(Data)
    BY <1>1, ContentsType
  <2> QED
    BY <2>1
<1>5. /\ d \in Seq(Data) /\ Len(d) = k
      /\ \A i \in 1..k : d[i] = Contents[off + 1 + i - 1]
  <2>1. /\ d \in Seq(Data)
        /\ Len(d) = IF off + 1 <= off + k THEN off + k - (off + 1) + 1 ELSE 0
        /\ \A i \in 1..(off + k - (off + 1) + 1) : d[i] = Contents[off + 1 + i - 1]
    BY <1>4, SubSeqProperties
  <2> QED
    BY <2>1
<1>6. \A i \in 1..k : c[i] = d[i]
  <2> SUFFICES ASSUME NEW i \in 1..k PROVE c[i] = d[i]
    OBVIOUS
  <2> DEFINE j == i - 1
  <2>0. j \in Nat /\ off + j <= Size
    BY <1>1, SizeAssumption
  <2>1. c[i] = buffer_[(((read_pos_ + off) % Size) + i - 1) % Size]
    BY DEF Copy
  <2>3. ((read_pos_ + off) % Size) + i - 1 = ((read_pos_ + off) % Size) + j
    BY <1>2
  <2> HIDE DEF j
  <2>2. (((read_pos_ + off) % Size) + j) % Size = (read_pos_ + off + j) % Size
    BY <1>1, <2>0, ModShift
  <2>4. d[i] = Contents[off + i]
    BY <1>5
  <2>5. off + i \in 1..curr_len_ /\ read_pos_ + (off + i) - 1 = read_pos_ + off + j
    BY <1>1 DEF j
  <2>6. Contents[off + i] = buffer_[(read_pos_ + (off + i) - 1) % Size]
    BY <2>5, ContentsType
  <2> QED
    BY <2>1, <2>2, <2>3, <2>4, <2>5, <2>6
<1> HIDE DEF c, d
<1>7. c = d
  BY <1>3, <1>5, <1>6, SeqEqual
<1> QED
  BY <1>7 DEF c, d

\* Advancing drops the oldest elements.
LEMMA AdvanceContents ==
  ASSUME TypeOK, TypeOK', NEW k \in Nat, k <= curr_len_, Advance(k)
  PROVE  Contents' = SubSeq(Contents, k + 1, Len(Contents))
<1>1. curr_len_ \in Nat /\ Len(Contents) = curr_len_
  BY ContentsType
<1>2. Contents' = Copy((read_pos_ + k) % Size, curr_len_ - k)
  BY DEF Contents, Copy, Advance
<1>3. Copy((read_pos_ + k) % Size, curr_len_ - k)
        = SubSeq(Contents, k + 1, k + (curr_len_ - k))
  BY <1>1, CopyIsSubSeq
<1>4. k + (curr_len_ - k) = curr_len_
  BY <1>1
<1> QED
  BY <1>1, <1>2, <1>3, <1>4

\* Where a slot lies relative to the write position.
LEMMA SlotIndex ==
  ASSUME NEW r \in Slot, NEW c \in Nat, c <= Size, NEW i \in Nat, i < Size
  PROVE  (((r + i) % Size) - ((r + c) % Size)) % Size
           = IF i < c THEN i - c + Size ELSE i - c
<1>1. r \in Nat /\ r < Size /\ Size \in Nat
  BY SizeAssumption DEF Slot
<1>2. (r + i) % Size = IF r + i < Size THEN r + i ELSE r + i - Size
  BY <1>1, ModOneLap
<1>3. (r + c) % Size = IF r + c < Size THEN r + c ELSE r + c - Size
  BY <1>1, ModOneLap
<1>4. ASSUME NEW a \in Int, a < Size, a >= 0 - Size
      PROVE  a % Size = IF a < 0 THEN a + Size ELSE a
  BY <1>4, SizeAssumption
<1> DEFINE d == ((r + i) % Size) - ((r + c) % Size)
<1>5. d \in Int /\ d < Size /\ d >= 0 - Size /\ d \in {i - c, i - c + Size, i - c - Size}
  BY <1>1, <1>2, <1>3
<1>6. d % Size = IF d < 0 THEN d + Size ELSE d
  BY <1>4, <1>5
<1> HIDE DEF d
<1>7. d % Size = IF i < c THEN i - c + Size ELSE i - c
  BY <1>1, <1>5, <1>6
<1> QED
  BY <1>7 DEF d

\* Writing appends.
LEMMA WriteContents ==
  ASSUME TypeOK, TypeOK', RingConsistent, NEW t \in Thread, write(t)
  PROVE  Contents' = Contents \o SubSeq(call[t].bytes, 1,
                                   Lesser(Len(call[t].bytes), Size - curr_len_))
<1> DEFINE bytes == call[t].bytes
           n == Lesser(Len(bytes), Size - curr_len_)
           tail == SubSeq(bytes, 1, n)
           Index(s) == (s - write_pos_) % Size
<1>1. /\ n \in Nat /\ n <= Len(bytes) /\ curr_len_ + n <= Size
      /\ bytes \in Chunk /\ Len(bytes) \in Nat /\ curr_len_ \in Nat /\ Size \in Nat
  BY WriteCount
<1>2. /\ buffer_' = [s \in Slot |-> IF Index(s) < n THEN bytes[Index(s) + 1]
                                    ELSE buffer_[s]]
      /\ curr_len_' = curr_len_ + n /\ read_pos_' = read_pos_
      /\ write_pos_ = (read_pos_ + curr_len_) % Size /\ read_pos_ \in Slot
  BY DEF write, RingConsistent, TypeOK
<1> HIDE DEF n
<1>3. \A i \in 1..n : bytes[i] \in Data
  BY <1>1, ChunkType
<1>4. /\ tail \in Seq(Data) /\ Len(tail) = n
      /\ \A i \in 1..n : tail[i] = bytes[i]
  <2>1. /\ tail \in Seq(Data)
        /\ Len(tail) = IF 1 <= n THEN n - 1 + 1 ELSE 0
        /\ \A i \in 1..(n - 1 + 1) : tail[i] = bytes[1 + i - 1]
    BY <1>1, <1>3, SubSeqProperties
  <2> QED
    BY <2>1, <1>1
<1>5. /\ Contents \in Seq(Data) /\ Len(Contents) = curr_len_
      /\ \A i \in 1..curr_len_ : Contents[i] = buffer_[(read_pos_ + i - 1) % Size]
  BY ContentsType
<1>6. /\ Contents' \in Seq(Data) /\ Len(Contents') = curr_len_ + n
      /\ \A i \in 1..(curr_len_ + n) : Contents'[i] = buffer_'[(read_pos_ + i - 1) % Size]
  <2>1. /\ Contents' \in Seq(Data) /\ Len(Contents') = curr_len_'
        /\ \A i \in 1..curr_len_' : Contents'[i] = buffer_'[(read_pos_' + i - 1) % Size]
    <3>1. Contents' = [i \in 1..curr_len_' |-> buffer_'[(read_pos_' + i - 1) % Size]]
      BY DEF Contents
    <3>2. curr_len_' \in Nat /\ read_pos_' \in Int /\ buffer_' \in [Slot -> Data]
      BY <1>1, <1>2 DEF TypeOK, Slot
    <3>3. \A i \in 1..curr_len_' : buffer_'[(read_pos_' + i - 1) % Size] \in Data
      BY <3>2, ModInSlot
    <3>4. Contents' \in [1..curr_len_' -> Data]
      BY <3>1, <3>3
    <3>5. Contents' \in Seq(Data) /\ Len(Contents') = curr_len_'
      BY <3>2, <3>4
    <3> QED
      BY <3>1, <3>5
  <2> QED
    BY <2>1, <1>2
<1> HIDE DEF tail
<1>7. /\ Contents \o tail \in Seq(Data) /\ Len(Contents \o tail) = curr_len_ + n
      /\ \A i \in 1..(curr_len_ + n) : (Contents \o tail)[i] =
           IF i <= curr_len_ THEN Contents[i] ELSE tail[i - curr_len_]
  BY <1>4, <1>5, ConcatProperties
<1>8. \A i \in 1..(curr_len_ + n) : Contents'[i] = (Contents \o tail)[i]
  <2> SUFFICES ASSUME NEW i \in 1..(curr_len_ + n)
               PROVE  Contents'[i] = (Contents \o tail)[i]
    OBVIOUS
  <2> DEFINE j == i - 1
             s == (read_pos_ + j) % Size
  <2>0. i = j + 1
    BY <1>1
  <2>1. j \in Nat /\ j < Size /\ curr_len_ <= Size
    BY <1>1
  <2>2. read_pos_ + i - 1 = read_pos_ + j /\ read_pos_ + j \in Int
    BY <1>2 DEF Slot
  <2> HIDE DEF j
  <2>3. s \in Slot
    BY <2>2, ModInSlot
  <2>4. Index(s) = IF j < curr_len_ THEN j - curr_len_ + Size ELSE j - curr_len_
    <3>1. (((read_pos_ + j) % Size) - ((read_pos_ + curr_len_) % Size)) % Size
            = IF j < curr_len_ THEN j - curr_len_ + Size ELSE j - curr_len_
      BY <1>1, <1>2, <2>1, SlotIndex
    <3>2. Index(s) = (((read_pos_ + j) % Size) - ((read_pos_ + curr_len_) % Size)) % Size
      BY <1>2, Zenon
    <3> HIDE DEF s, Index
    <3> QED
      BY <3>1, <3>2, Zenon
  <2>5. Contents'[i] = buffer_'[s]
    BY <1>6, <2>2
  <2> HIDE DEF s
  <2>6. CASE i <= curr_len_
    <3>1. ~ (Index(s) < n)
      BY <2>0, <2>1, <2>4, <2>6, <1>1
    <3>2. buffer_'[s] = buffer_[s]
      BY <1>2, <2>3, <3>1
    <3>3. Contents[i] = buffer_[s]
      BY <1>5, <2>2, <2>6 DEF s
    <3> QED
      BY <1>7, <2>5, <2>6, <3>2, <3>3
  <2>7. CASE i > curr_len_
    <3>1. Index(s) < n /\ Index(s) + 1 = i - curr_len_
      BY <2>0, <2>1, <2>4, <2>7, <1>1
    <3>2. buffer_'[s] = bytes[i - curr_len_]
      BY <1>2, <2>3, <3>1
    <3>3. i - curr_len_ \in 1..n
      BY <1>1, <2>7
    <3> QED
      BY <1>4, <1>7, <1>1, <2>5, <2>7, <3>2, <3>3
  <2>8. i <= curr_len_ \/ i > curr_len_
    BY <1>1
  <2> QED
    BY <2>6, <2>7, <2>8
<1>9. Contents' = Contents \o tail
  BY <1>6, <1>7, <1>8, SeqEqual
<1> QED
  BY <1>9 DEF tail, n

-----------------------------------------------------------------------------
(* Every step of the buffer is a step of the queue or leaves it alone.       *)

\* A step that touches nothing the queue sees.
LEMMA Stutter ==
  ASSUME UNCHANGED <<ring, is_forcefully_woken_up_, call, ret>>
  PROVE  UNCHANGED Queue!vars
  BY DEF Queue!vars, Contents, ring

\* Returning from a call is the queue's answer.
LEMMA FinishAnswers ==
  ASSUME TypeOK, NEW t \in Thread, NEW n, NEW s, NEW woken, Finish(t, n, s, woken)
  PROVE  Queue!Answer(t, n, s)
  BY DEF Finish, Queue!Answer, Queue!Outcome

\* A running body has been asked for.
LEMMA RunningAsks ==
  ASSUME NEW t \in Thread, NEW op \in Op, Running(t, op)
  PROVE  Queue!Asks(t, op)
  BY DEF Running, Queue!Asks, NoCall, Op

\* read and try_read.
LEMMA TakeRefines ==
  ASSUME TypeOK, TypeOK', NEW t \in Thread, TakeFront(t)
  PROVE  Queue!Take(t)
<1> DEFINE k == Lesser(call[t].n, curr_len_)
<1>1. Len(Contents) = curr_len_ /\ curr_len_ \in Nat /\ call[t].n \in Nat
  BY ContentsType, CallType, MaxArgAssumption DEF TypeOK, Count
<1>2. k \in Nat /\ k <= curr_len_ /\ k = Queue!Lesser(call[t].n, Len(Contents))
  BY <1>1 DEF Lesser, Queue!Lesser
<1>3. PICK woken : Finish(t, k, Copy(read_pos_, k), woken)
  BY DEF TakeFront
<1>4. Advance(k)
  BY DEF TakeFront
<1> HIDE DEF k
<1>5. Contents' = SubSeq(Contents, k + 1, Len(Contents))
  BY <1>2, <1>4, AdvanceContents
<1>6. Copy(read_pos_, k) = SubSeq(Contents, 1, k)
  <2>1. Copy((read_pos_ + 0) % Size, k) = SubSeq(Contents, 0 + 1, 0 + k)
    BY <1>1, <1>2, CopyIsSubSeq
  <2>2. (read_pos_ + 0) % Size = read_pos_
    <3>1. read_pos_ \in Nat /\ read_pos_ < Size /\ Size \in Nat
      BY SizeAssumption DEF TypeOK, Slot
    <3>2. read_pos_ % Size = read_pos_
      BY <3>1, ModOneLap
    <3> QED
      BY <3>1, <3>2
  <2> QED
    BY <2>1, <2>2, <1>2
<1>7. Queue!Answer(t, k, SubSeq(Contents, 1, k))
  BY <1>3, <1>6, FinishAnswers
<1> QED
  BY <1>2, <1>5, <1>7 DEF Queue!Take, Queue!Rest, Queue!Front

\* The body of an operation is the queue's operation.
LEMMA BodyRefines ==
  ASSUME TypeOK, TypeOK', RingConsistent, NEW t \in Thread, Body(t)
  PROVE  Queue!Next
<1> USE DEF Queue!Next
<1>0. /\ Len(Contents) = curr_len_ /\ curr_len_ \in Nat /\ Contents \in Seq(Data)
      /\ call[t].n \in Nat /\ call[t].offset \in Nat
  BY ContentsType, CallType, MaxArgAssumption DEF TypeOK, Count
<1>1. CASE write(t)
  <2> DEFINE n == Lesser(Len(call[t].bytes), Size - curr_len_)
  <2>1. PICK woken : Finish(t, n, <<>>, woken)
    BY <1>1 DEF write
  <2>2. Contents' = Contents \o SubSeq(call[t].bytes, 1, n)
    BY <1>1, WriteContents
  <2>3. n = Queue!Lesser(Len(call[t].bytes), Size - Len(Contents))
    BY <1>0 DEF Lesser, Queue!Lesser
  <2>4. Queue!Asks(t, "write") /\ (curr_len_ < Size \/ is_forcefully_woken_up_)
    BY <1>1, RunningAsks DEF write, Op, Running, CanGo
  <2>5. Queue!Answer(t, n, <<>>)
    BY <2>1, FinishAnswers
  <2> HIDE DEF n
  <2>6. Queue!Write(t)
    BY <1>0, <2>2, <2>3, <2>4, <2>5 DEF Queue!Write
  <2> QED
    BY <2>6
<1>2. CASE read(t)
  <2>1. Queue!Asks(t, "read") /\ (curr_len_ > 0 \/ is_forcefully_woken_up_)
    BY <1>2, RunningAsks DEF read, Op, Running, CanGo
  <2>2. curr_len_ > 0 => Contents # <<>>
    BY <1>0
  <2>3. Queue!Read(t)
    BY <1>2, <2>1, <2>2, TakeRefines DEF read, Queue!Read
  <2> QED
    BY <2>3
<1>3. CASE try_read(t)
  <2>1. Queue!Asks(t, "try_read")
    BY <1>3, RunningAsks DEF try_read, Op
  <2>2. CASE TakeFront(t)
    <3>1. Queue!TryRead(t)
      BY <2>1, <2>2, TakeRefines DEF Queue!TryRead
    <3> QED
      BY <3>1
  <2>3. CASE curr_len_ = 0 /\ Finish(t, 0, <<>>, {}) /\ UNCHANGED <<ring, waiters>>
    <3>1. Contents = <<>> /\ Contents' = Contents
      BY <1>0, <2>3 DEF Contents, ring
    <3>2. Queue!Lesser(call[t].n, Len(Contents)) = 0
      BY <1>0, <2>3 DEF Queue!Lesser
    <3>3. Queue!Front(0) = <<>> /\ Queue!Rest(0) = <<>>
      BY <1>0, <2>3, SubSeqEmpty DEF Queue!Front, Queue!Rest
    <3>4. Queue!Answer(t, 0, <<>>)
      BY <2>3, FinishAnswers
    <3>5. Queue!Take(t)
      BY <3>1, <3>2, <3>3, <3>4 DEF Queue!Take
    <3>6. Queue!TryRead(t)
      BY <2>1, <3>5 DEF Queue!TryRead
    <3> QED
      BY <3>6
  <2> QED
    BY <1>3, <2>2, <2>3 DEF try_read
<1>4. CASE peek(t)
  <2> DEFINE off == call[t].offset
             k == IF off >= curr_len_ THEN 0 ELSE Lesser(call[t].n, curr_len_ - off)
  <2>1. Finish(t, k, Copy((read_pos_ + off) % Size, k), {}) /\ UNCHANGED ring
    BY <1>4 DEF peek
  <2>2. k \in Nat /\ (k = 0 \/ off + k <= curr_len_)
    BY <1>0 DEF Lesser
  <2>3. k = IF off >= Len(Contents) THEN 0 ELSE Queue!Lesser(call[t].n, Len(Contents) - off)
    BY <1>0 DEF Lesser, Queue!Lesser
  <2> HIDE DEF k
  <2>4. Copy((read_pos_ + off) % Size, k) = SubSeq(Contents, off + 1, off + k)
    <3>1. CASE off + k <= curr_len_
      BY <3>1, <1>0, <2>2, CopyIsSubSeq
    <3>2. CASE k = 0
      <4>1. SubSeq(Contents, off + 1, off + k) = <<>>
        BY <3>2, <1>0, SubSeqEmpty
      <4>2. Copy((read_pos_ + off) % Size, k) = <<>>
        BY <3>2 DEF Copy
      <4> QED
        BY <4>1, <4>2
    <3> QED
      BY <2>2, <3>1, <3>2
  <2>5. Queue!Answer(t, k, SubSeq(Contents, off + 1, off + k))
    BY <2>1, <2>4, FinishAnswers
  <2>6. Contents' = Contents
    BY <2>1 DEF Contents, ring
  <2>7. Queue!Asks(t, "peek")
    BY <1>4, RunningAsks DEF peek, Op
  <2>8. Queue!Peek(t)
    BY <2>3, <2>5, <2>6, <2>7 DEF Queue!Peek
  <2> QED
    BY <2>8
<1>5. CASE discard(t)
  <2> DEFINE k == Lesser(call[t].n, curr_len_)
  <2>1. PICK woken : Finish(t, k, <<>>, woken)
    BY <1>5 DEF discard
  <2>2. k \in Nat /\ k <= curr_len_ /\ k = Queue!Lesser(call[t].n, Len(Contents))
    BY <1>0 DEF Lesser, Queue!Lesser
  <2>3. Advance(k)
    BY <1>5 DEF discard
  <2> HIDE DEF k
  <2>4. Contents' = SubSeq(Contents, k + 1, Len(Contents))
    BY <2>2, <2>3, AdvanceContents
  <2>5. Queue!Answer(t, k, <<>>)
    BY <2>1, FinishAnswers
  <2>6. Queue!Asks(t, "discard")
    BY <1>5, RunningAsks DEF discard, Op
  <2>7. Queue!Discard(t)
    BY <2>2, <2>4, <2>5, <2>6 DEF Queue!Discard, Queue!Rest
  <2> QED
    BY <2>7
<1>6. CASE size(t)
  <2>1. Contents' = Contents /\ Queue!Answer(t, Len(Contents), <<>>)
    BY <1>0, <1>6, FinishAnswers DEF size, Contents, ring
  <2>2. Queue!Inquire(t)
    BY <1>6, <2>1, RunningAsks DEF size, Op, Queue!Inquire
  <2> QED
    BY <2>2
<1>7. CASE available_capacity(t)
  <2>1. Contents' = Contents /\ Queue!Answer(t, Size - Len(Contents), <<>>)
    BY <1>0, <1>7, FinishAnswers DEF available_capacity, Contents, ring
  <2>2. Queue!Inquire(t)
    BY <1>7, <2>1, RunningAsks DEF available_capacity, Op, Queue!Inquire
  <2> QED
    BY <2>2
<1> QED
  BY <1>1, <1>2, <1>3, <1>4, <1>5, <1>6, <1>7 DEF Body

\* Every step of the buffer is a step of the queue or a stutter.
LEMMA StepRefines ==
  TypeOK /\ TypeOK' /\ RingConsistent /\ RequestInv /\ [Next]_vars
    => [Queue!Next]_(Queue!vars)
<1> SUFFICES ASSUME TypeOK, TypeOK', RingConsistent, RequestInv, [Next]_vars
             PROVE  Queue!Next \/ UNCHANGED Queue!vars
  OBVIOUS
<1>1. ASSUME NEW t \in Thread, Begin(t) PROVE Queue!Next
  <2>1. PICK c \in Call : call' = [call EXCEPT ![t] = c]
    BY <1>1 DEF Begin, Calls
  <2>2. Contents' = Contents
    BY <1>1 DEF Begin, Contents, ring
  <2>3. Queue!Request(t)
    BY <1>1, <2>1, <2>2 DEF Begin, RequestInv, Queue!Request
  <2> QED
    BY <2>3 DEF Queue!Next
<1>2. ASSUME NEW t \in Thread,
             Acquire(t) \/ Test(t) \/ Block(t) \/ SpuriousWakeup(t) \/ NotifyReaders(t)
      PROVE  UNCHANGED Queue!vars
  BY <1>2, Stutter DEF Acquire, Test, Block, SpuriousWakeup, NotifyReaders
<1>3. ASSUME NEW t \in Thread, SetFlag(t) PROVE Queue!Next
  <2>1. Contents' = Contents
    BY <1>3 DEF SetFlag, Contents, ring
  <2>2. Queue!Asks(t, "force_wake_up_")
    BY <1>3 DEF SetFlag, RequestInv, Queue!Asks, NoCall
  <2>3. Queue!Release(t)
    BY <1>3, <2>1, <2>2 DEF SetFlag, Queue!Release
  <2> QED
    BY <2>3 DEF Queue!Next
<1>4. ASSUME NEW t \in Thread, NotifyWriters(t) PROVE Queue!Next
  <2>1. Contents' = Contents
    BY <1>4 DEF NotifyWriters, Contents, ring
  <2>2. Queue!Asks(t, "force_wake_up_") /\ is_forcefully_woken_up_
    BY <1>4 DEF NotifyWriters, RequestInv, Queue!Asks, NoCall
  <2>3. Queue!Released(t)
    BY <1>4, <2>1, <2>2 DEF NotifyWriters, Queue!Released
  <2> QED
    BY <2>3 DEF Queue!Next
<1>5. CASE UNCHANGED vars
  BY <1>5, Stutter DEF vars
<1> QED
  BY <1>1, <1>2, <1>3, <1>4, <1>5, BodyRefines DEF Next, Step

\* The ring buffer of BlockingBuffer.h implements the bounded FIFO queue for every
\* Size, every set of threads and every argument: no byte is lost, duplicated or
\* reordered, and every operation is atomic to its callers.
THEOREM Refinement == Spec => ImplementsQueue
<1>1. Init => Queue!Init
  BY DEF Init, Queue!Init, Queue!Outcome, Contents
<1>2. Init => RequestInv
  BY DEF Init, RequestInv
<1> QED
  BY <1>1, <1>2, NextRequest, StepRefines, TypeCorrect, RingAgrees, PTL
     DEF Spec, ImplementsQueue, Queue!Spec
=============================================================================
