------------------------ MODULE StreamBufferProofs ------------------------
(***************************************************************************)
(* The buffer of StreamBuffer is a queue of bytes, whatever its sizes.     *)
(***************************************************************************)
EXTENDS StreamBuffer, SequenceTheorems, TLAPS

\* The first n bytes of a block that holds bytes there are a string.
LEMMA HeldFacts ==
  ASSUME NEW n \in Nat, NEW block, \A i \in 0 .. n - 1 : block[i] \in Byte
  PROVE  /\ Held(block, n) \in Seq(Byte)
         /\ Len(Held(block, n)) = n
         /\ \A i \in 1 .. n : Held(block, n)[i] = block[i - 1]
BY DEF Held

\* What appending to a block with room for it leaves in it.
LEMMA AppendFacts ==
  ASSUME IInv, NEW bytes \in Chunks, NEW size \in Nat,
         NEW block \in [0 .. size - 1 -> Byte \union {Junk}],
         \A i \in 0 .. curr_size - 1 : block[i] = head[i],
         curr_size + Len(bytes) <= size,
         AppendTo(block, curr_size, bytes)
  PROVE  /\ head' \in [0 .. size - 1 -> Byte \union {Junk}]
         /\ tail' = curr_size' /\ curr_size' \in Nat /\ curr_size' <= size
         /\ \A i \in 0 .. curr_size' - 1 : head'[i] \in Byte
         /\ Held(head', curr_size') = Held(head, curr_size) \o bytes
<1>1. /\ bytes \in Seq(Byte) /\ Len(bytes) \in Nat /\ curr_size \in Nat
      /\ \A i \in 1 .. Len(bytes) : bytes[i] \in Byte
      /\ \A i \in 0 .. curr_size - 1 : head[i] \in Byte
  BY ChunkAssumption DEF IInv, TypeOK, HoldsOnlyAdded
<1>2. /\ tail' = curr_size + Len(bytes) /\ curr_size' = curr_size + Len(bytes)
      /\ head' = Copy(block, curr_size, bytes)
  BY DEF AppendTo
<1>3. head' \in [0 .. size - 1 -> Byte \union {Junk}]
  BY <1>1, <1>2 DEF Copy
<1>4. \A i \in 0 .. curr_size' - 1 :
        head'[i] = IF i < curr_size THEN head[i] ELSE bytes[i - curr_size + 1]
  <2> SUFFICES ASSUME NEW i \in 0 .. curr_size' - 1
               PROVE  head'[i] = IF i < curr_size THEN head[i]
                                 ELSE bytes[i - curr_size + 1]
    OBVIOUS
  <2>1. i \in 0 .. size - 1 /\ DOMAIN block = 0 .. size - 1
    BY <1>1, <1>2
  <2>2. head'[i] = IF curr_size <= i /\ i < curr_size + Len(bytes)
                   THEN bytes[i - curr_size + 1] ELSE block[i]
    BY <1>2, <2>1 DEF Copy
  <2> QED
    BY <1>1, <1>2, <2>1, <2>2
<1>5. \A i \in 0 .. curr_size' - 1 : head'[i] \in Byte
  <2> SUFFICES ASSUME NEW i \in 0 .. curr_size' - 1 PROVE head'[i] \in Byte
    OBVIOUS
  <2>1. CASE i < curr_size
    BY <1>1, <1>2, <1>4, <2>1
  <2>2. CASE i >= curr_size
    <3>1. i - curr_size + 1 \in 1 .. Len(bytes)
      BY <1>1, <1>2, <2>2
    <3> QED
      BY <1>1, <1>2, <1>4, <2>2, <3>1
  <2> QED
    BY <1>1, <1>2, <2>1, <2>2
<1>6. Held(head', curr_size') = Held(head, curr_size) \o bytes
  <2> DEFINE old == Held(head, curr_size)
             new == Held(head', curr_size')
  <2>1. /\ old \in Seq(Byte) /\ Len(old) = curr_size
        /\ \A i \in 1 .. curr_size : old[i] = head[i - 1]
    BY <1>1, HeldFacts
  <2>2. /\ new \in Seq(Byte) /\ Len(new) = curr_size + Len(bytes)
        /\ \A i \in 1 .. curr_size + Len(bytes) : new[i] = head'[i - 1]
    <3>1. curr_size' \in Nat
      BY <1>1, <1>2
    <3>2. /\ new \in Seq(Byte) /\ Len(new) = curr_size'
          /\ \A i \in 1 .. curr_size' : new[i] = head'[i - 1]
      BY <1>5, <3>1, HeldFacts
    <3> QED
      BY <1>2, <3>2
  <2> HIDE DEF old, new
  <2>3. /\ old \o bytes \in Seq(Byte) /\ Len(old \o bytes) = Len(new)
        /\ \A i \in 1 .. Len(new) :
             (old \o bytes)[i] = IF i <= curr_size THEN old[i]
                                 ELSE bytes[i - curr_size]
    BY <1>1, <2>1, <2>2, ConcatProperties
  <2>4. ASSUME NEW i \in 1 .. Len(new) PROVE new[i] = (old \o bytes)[i]
    <3>1. i - 1 \in 0 .. curr_size' - 1 /\ new[i] = head'[i - 1]
      BY <1>1, <1>2, <2>2
    <3>2. head'[i - 1] = IF i - 1 < curr_size THEN head[i - 1]
                         ELSE bytes[(i - 1) - curr_size + 1]
      BY <1>4, <3>1
    <3>3. (i - 1) - curr_size + 1 = i - curr_size /\ (i - 1 < curr_size <=> i <= curr_size)
      BY <1>1, <2>2
    <3>4. CASE i <= curr_size
      BY <1>1, <2>1, <2>2, <2>3, <3>1, <3>2, <3>3, <3>4
    <3>5. CASE ~(i <= curr_size)
      BY <1>1, <2>2, <2>3, <3>1, <3>2, <3>3, <3>5
    <3> QED
      BY <3>4, <3>5
  <2>5. new = old \o bytes
    BY <2>2, <2>3, <2>4, SeqEqual
  <2> QED
    BY <2>5 DEF old, new
<1>7. tail' = curr_size' /\ curr_size' \in Nat /\ curr_size' <= size
  BY <1>1, <1>2
<1> QED
  BY <1>3, <1>5, <1>6, <1>7

-----------------------------------------------------------------------------
LEMMA InitInv == Init => IInv /\ Queue!Init
<1> SUFFICES ASSUME Init PROVE IInv /\ Queue!Init
  OBVIOUS
<1>1. TypeOK
  BY SizeAssumption DEF Init, TypeOK
<1>2. SizesAgree /\ HoldsOnlyAdded
  BY SizeAssumption DEF Init, SizesAgree, HoldsOnlyAdded
<1>3. Held(head, curr_size) = <<>> /\ sent = <<>>
  BY DEF Init, Held
<1> QED
  BY <1>1, <1>2, <1>3 DEF IInv, Queue!Init

\* stream_buffer_add, whether or not the block has to grow.
LEMMA AddStep ==
  ASSUME IInv, NEW bytes \in Chunks, Add(bytes) \/ AddGrows(bytes)
  PROVE  IInv' /\ Queue!Add
<1>1. /\ max_size \in Nat /\ tail = curr_size /\ curr_size \in Nat
      /\ head \in [0 .. max_size - 1 -> Byte \union {Junk}]
      /\ sent \in Seq(Byte) /\ curr_size <= max_size /\ Len(bytes) \in Nat
  BY ChunkAssumption DEF IInv, TypeOK, SizesAgree
<1>2. PICK size, block :
        /\ size \in Nat
        /\ block \in [0 .. size - 1 -> Byte \union {Junk}]
        /\ \A i \in 0 .. curr_size - 1 : block[i] = head[i]
        /\ curr_size + Len(bytes) <= size
        /\ AppendTo(block, curr_size, bytes)
        /\ max_size' = size /\ sent' = sent
  <2>1. CASE Add(bytes)
    BY <1>1, <2>1 DEF Add, Fits
  <2>2. CASE AddGrows(bytes)
    <3> DEFINE size == NewSize(bytes)
               block == Realloc(head, size)
    <3>1. size \in Nat /\ size >= (max_size + Len(bytes)) * 2
      BY <1>1, <2>2, GrowthAssumption, SizeAssumption
      DEF AddGrows, NewSize, Request
    <3> HIDE DEF size
    <3>2. /\ block \in [0 .. size - 1 -> Byte \union {Junk}]
          /\ \A i \in 0 .. curr_size - 1 : block[i] = head[i]
      BY <1>1, <3>1 DEF Realloc
    <3>3. /\ curr_size + Len(bytes) <= size
          /\ AppendTo(block, curr_size, bytes)
          /\ max_size' = size /\ sent' = sent
      BY <1>1, <2>2, <3>1 DEF AddGrows, size
    <3> QED
      BY <3>1, <3>2, <3>3
  <2> QED
    BY <2>1, <2>2
<1>3. /\ head' \in [0 .. size - 1 -> Byte \union {Junk}]
      /\ tail' = curr_size' /\ curr_size' \in Nat /\ curr_size' <= size
      /\ \A i \in 0 .. curr_size' - 1 : head'[i] \in Byte
      /\ Held(head', curr_size') = Held(head, curr_size) \o bytes
  BY <1>2, AppendFacts
<1>4. IInv'
  BY <1>1, <1>2, <1>3 DEF IInv, TypeOK, SizesAgree, HoldsOnlyAdded
<1>5. Queue!Add
  BY <1>2, <1>3 DEF Queue!Add
<1> QED
  BY <1>4, <1>5

LEMMA ClearStep == IInv /\ Clear => IInv' /\ Queue!Clear
<1> SUFFICES ASSUME IInv, Clear PROVE IInv' /\ Queue!Clear
  OBVIOUS
<1>1. IInv'
  BY DEF IInv, TypeOK, SizesAgree, HoldsOnlyAdded, Clear
<1>2. Held(head', curr_size') = <<>>
  BY DEF Clear, Held
<1> QED
  BY <1>1, <1>2 DEF Queue!Clear, Clear

\* What reaches the descriptor is the beginning of the queue.
LEMMA SendFacts ==
  ASSUME IInv, NEW nw \in 0 .. curr_size, Sends(nw)
  PROVE  /\ nw \in 0 .. Len(Held(head, curr_size))
         /\ Queue!Send(nw)
         /\ sent' \in Seq(Byte)
<1>1. /\ curr_size \in Nat /\ nw \in Nat /\ nw <= curr_size
      /\ sent \in Seq(Byte)
      /\ \A i \in 0 .. curr_size - 1 : head[i] \in Byte
  BY DEF IInv, TypeOK, HoldsOnlyAdded
<1> DEFINE all == Held(head, curr_size)
           first == Held(head, nw)
           part == SubSeq(all, 1, nw)
<1>2. /\ all \in Seq(Byte) /\ Len(all) = curr_size
      /\ \A i \in 1 .. curr_size : all[i] = head[i - 1]
  BY <1>1, HeldFacts
<1>3. /\ first \in Seq(Byte) /\ Len(first) = nw
      /\ \A i \in 1 .. nw : first[i] = head[i - 1]
  BY <1>1, HeldFacts
<1> HIDE DEF all, first
<1>4. /\ part \in Seq(Byte) /\ Len(part) = nw
      /\ \A i \in 1 .. nw : part[i] = all[i]
  <2>1. \A i \in 1 .. nw : all[i] \in Byte
    BY <1>1, <1>2
  <2> QED
    BY <1>1, <2>1, SubSeqProperties
<1> HIDE DEF part
<1>5. first = part
  <2>1. ASSUME NEW i \in 1 .. Len(first) PROVE first[i] = part[i]
    <3>1. i \in 1 .. nw /\ i \in 1 .. curr_size
      BY <1>1, <1>3
    <3> QED
      BY <1>2, <1>3, <1>4, <3>1
  <2> QED
    BY <1>3, <1>4, <2>1, SeqEqual
<1>6. sent' \in Seq(Byte) /\ sent' = sent \o SubSeq(all, 1, nw)
  BY <1>1, <1>3, <1>5, ConcatProperties DEF Sends, first, part
<1> QED
  BY <1>1, <1>2, <1>6 DEF Queue!Send, all

LEMMA WriteStep == IInv /\ Write => IInv' /\ Queue!Write
<1> SUFFICES ASSUME IInv, Write PROVE IInv' /\ Queue!Write
  OBVIOUS
<1>1. PICK nw \in 0 .. curr_size :
        Sends(nw) /\ tail' = 0 /\ curr_size' = 0 /\ UNCHANGED <<head, max_size>>
  BY DEF Write
<1>2. /\ nw \in 0 .. Len(Held(head, curr_size)) /\ Queue!Send(nw)
      /\ sent' \in Seq(Byte)
  BY <1>1, SendFacts
<1>3. IInv'
  BY <1>1, <1>2 DEF IInv, TypeOK, SizesAgree, HoldsOnlyAdded
<1>4. Held(head', curr_size') = <<>>
  BY <1>1 DEF Held
<1> QED
  BY <1>2, <1>3, <1>4 DEF Queue!Write

\* stream_buffer_write_to of fewer bytes than are held.
LEMMA WriteToPartStep ==
  ASSUME IInv, NEW length \in 0 .. curr_size, WriteToPart(length)
  PROVE  IInv' /\ Queue!WriteTo
<1>1. PICK nw \in 0 .. length :
        /\ Sends(nw)
        /\ tail' = tail - nw /\ curr_size' = curr_size - nw
        /\ head' = Move(head, nw, curr_size - nw)
  BY DEF WriteToPart
<1>2. /\ curr_size \in Nat /\ nw \in 0 .. curr_size /\ length < curr_size
      /\ max_size \in Nat /\ tail = curr_size /\ curr_size <= max_size
      /\ head \in [0 .. max_size - 1 -> Byte \union {Junk}]
      /\ \A i \in 0 .. curr_size - 1 : head[i] \in Byte
      /\ max_size' = max_size
  BY <1>1 DEF IInv, TypeOK, SizesAgree, HoldsOnlyAdded, WriteToPart
<1>3. /\ nw \in 0 .. Len(Held(head, curr_size)) /\ Queue!Send(nw)
      /\ sent' \in Seq(Byte)
  BY <1>1, <1>2, SendFacts
<1>4. \A i \in 0 .. curr_size' - 1 : head'[i] = head[i + nw] /\ head'[i] \in Byte
  <2> SUFFICES ASSUME NEW i \in 0 .. curr_size' - 1
               PROVE  head'[i] = head[i + nw] /\ head'[i] \in Byte
    OBVIOUS
  <2>1. i \in 0 .. max_size - 1 /\ i < curr_size - nw /\ i + nw \in 0 .. curr_size - 1
    BY <1>1, <1>2
  <2> QED
    BY <1>1, <1>2, <2>1 DEF Move
<1>5. head' \in [0 .. max_size - 1 -> Byte \union {Junk}]
  <2>1. \A i \in 0 .. max_size - 1 :
          (IF i < curr_size - nw THEN head[i + nw] ELSE head[i]) \in Byte \union {Junk}
    BY <1>2
  <2> QED
    BY <1>1, <1>2, <2>1 DEF Move
<1>6. IInv'
  BY <1>1, <1>2, <1>3, <1>4, <1>5 DEF IInv, TypeOK, SizesAgree, HoldsOnlyAdded
<1>7. Held(head', curr_size') = SubSeq(Held(head, curr_size), nw + 1, curr_size)
  <2> DEFINE all == Held(head, curr_size)
             rest == Held(head', curr_size')
             part == SubSeq(all, nw + 1, curr_size)
  <2>1. /\ all \in Seq(Byte) /\ Len(all) = curr_size
        /\ \A i \in 1 .. curr_size : all[i] = head[i - 1]
    BY <1>2, HeldFacts
  <2>2. /\ rest \in Seq(Byte) /\ Len(rest) = curr_size - nw
        /\ \A i \in 1 .. curr_size - nw : rest[i] = head'[i - 1]
    <3>1. curr_size' \in Nat /\ curr_size' = curr_size - nw
      BY <1>1, <1>2
    <3>2. /\ rest \in Seq(Byte) /\ Len(rest) = curr_size'
          /\ \A i \in 1 .. curr_size' : rest[i] = head'[i - 1]
      BY <1>4, <3>1, HeldFacts
    <3> QED
      BY <3>1, <3>2
  <2> HIDE DEF all, rest
  <2>3. /\ part \in Seq(Byte) /\ Len(part) = curr_size - nw
        /\ \A i \in 1 .. curr_size - nw : part[i] = all[nw + i]
    <3>1. \A i \in nw + 1 .. curr_size : all[i] \in Byte
      BY <1>2, <2>1
    <3>2. /\ part \in Seq(Byte)
          /\ Len(part) = IF nw + 1 <= curr_size THEN curr_size - (nw + 1) + 1 ELSE 0
          /\ \A i \in 1 .. curr_size - (nw + 1) + 1 : part[i] = all[(nw + 1) + i - 1]
      BY <1>2, <3>1, SubSeqProperties
    <3> QED
      BY <1>2, <3>2
  <2> HIDE DEF part
  <2>4. ASSUME NEW i \in 1 .. curr_size - nw PROVE rest[i] = part[i]
    <3>1. i - 1 \in 0 .. curr_size' - 1 /\ nw + i \in 1 .. curr_size
          /\ (i - 1) + nw = (nw + i) - 1
      BY <1>1, <1>2
    <3>2. rest[i] = head[(i - 1) + nw]
      BY <1>4, <2>2, <3>1
    <3> QED
      BY <2>1, <2>3, <3>1, <3>2
  <2>5. rest = part
    BY <1>2, <2>2, <2>3, <2>4, SeqEqual
  <2> QED
    BY <2>5 DEF rest, part, all
<1>8. Len(Held(head, curr_size)) = curr_size
  BY <1>2, HeldFacts
<1> QED
  BY <1>3, <1>6, <1>7, <1>8 DEF Queue!WriteTo

LEMMA Step == IInv /\ [Next]_vars => IInv' /\ [Queue!Next]_(Queue!vars)
<1> SUFFICES ASSUME IInv, [Next]_vars
             PROVE  IInv' /\ [Queue!Next]_(Queue!vars)
  OBVIOUS
<1>1. ASSUME NEW bytes \in Chunks, Add(bytes) \/ AddGrows(bytes)
      PROVE  IInv' /\ [Queue!Next]_(Queue!vars)
  BY <1>1, AddStep DEF Queue!Next
<1>2. CASE UNCHANGED vars
  BY <1>2 DEF vars, IInv, TypeOK, SizesAgree, HoldsOnlyAdded, Queue!vars, Held
<1>3. CASE Clear
  BY <1>3, ClearStep DEF Queue!Next
<1>4. CASE Write
  BY <1>4, WriteStep DEF Queue!Next
<1>5. ASSUME NEW length \in 0 .. curr_size, WriteToPart(length)
      PROVE  IInv' /\ [Queue!Next]_(Queue!vars)
  BY <1>5, WriteToPartStep DEF Queue!Next
<1> QED
  BY <1>1, <1>2, <1>3, <1>4, <1>5 DEF Next, AddFails, WriteTo

\* The sizes agree and the buffer holds nothing but bytes callers added.
THEOREM InvariantHolds == Spec => []IInv
BY InitInv, Step, PTL DEF Spec

\* Offset and sizes stay within the block, whatever is added and written.
THEOREM TypeCorrect == Spec => []TypeOK
BY InvariantHolds, PTL DEF IInv

\* The assertions of stream_buffer_add never fail.
THEOREM AssertionsHold == Spec => []SizesAgree
BY InvariantHolds, PTL DEF IInv

\* Memory nothing was written to is never among the bytes the buffer counts
\* as its own, through growth, moves and partial writes.
THEOREM HoldsAdded == Spec => []HoldsOnlyAdded
BY InvariantHolds, PTL DEF IInv

\* The buffer implements the queue of bytes.
THEOREM ImplementsQueue == Spec => IsQueue
BY InitInv, Step, InvariantHolds, PTL DEF Spec, IsQueue, Queue!Spec
=============================================================================
