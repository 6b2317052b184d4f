---------------------------- MODULE StreamBuffer ----------------------------
(***************************************************************************)
(* The growing byte buffer of stream_buffer.c: a block of memory, the      *)
(* offset of its tail, and two sizes kept beside it.  Memory that was      *)
(* never written to is Junk.                                               *)
(***************************************************************************)
EXTENDS Naturals, Sequences

CONSTANTS
  Byte,
  Junk,                \* what malloc and realloc leave in new memory
  BUFFER_MAX,          \* the size of the first allocation
  MaxMemory,           \* bound on the size of the block
  MaxSent,             \* bound on the number of bytes written out
  Chunks,              \* the byte strings callers add
  UpperPowerOfTwo(_)   \* util.c's upper_power_of_two

ASSUME ByteAssumption == Junk \notin Byte
ASSUME SizeAssumption ==
  BUFFER_MAX \in Nat \ {0} /\ MaxMemory \in Nat /\ MaxSent \in Nat
ASSUME ChunkAssumption == Chunks \subseteq Seq(Byte)
ASSUME GrowthAssumption ==
  \A size \in 0 .. MaxMemory :
    UpperPowerOfTwo(size) \in Nat /\ UpperPowerOfTwo(size) >= size

VARIABLES
  head,       \* the block buf->head points to, by offset
  tail,       \* buf->tail - buf->head
  curr_size,  \* buf->curr_size
  max_size,   \* buf->max_size
  sent        \* history: the bytes written to descriptors

vars == <<head, tail, curr_size, max_size, sent>>

-----------------------------------------------------------------------------
\* memcpy of bytes to the offset at.
Copy(block, at, bytes) ==
  [i \in DOMAIN block |->
     IF at <= i /\ i < at + Len(bytes) THEN bytes[i - at + 1] ELSE block[i]]

\* memmove of the n bytes at the offset at to the beginning of the block.
MoveNothing(block, at, n) == block
Move(block, at, n) ==
  [i \in DOMAIN block |-> IF i < n THEN block[i + at] ELSE block[i]]

\* realloc keeps what the old block held.
ReallocLoses(block, size) == [i \in 0 .. size - 1 |-> Junk]
Realloc(block, size) ==
  [i \in 0 .. size - 1 |-> IF i \in DOMAIN block THEN block[i] ELSE Junk]

\* The first n bytes of the block.
Held(block, n) == [i \in 1 .. n |-> block[i - 1]]

-----------------------------------------------------------------------------
\* stream_buffer_new.
Init ==
  /\ head = [i \in 0 .. BUFFER_MAX - 1 |-> Junk]
  /\ tail = 0
  /\ curr_size = 0
  /\ max_size = BUFFER_MAX
  /\ sent = <<>>

\* The end of stream_buffer_add: the append to a block with room for it.
AppendTo(block, at, bytes) ==
  /\ head' = Copy(block, at, bytes)
  /\ tail' = at + Len(bytes)
  /\ curr_size' = curr_size + Len(bytes)

Fits(bytes) == curr_size + Len(bytes) <= max_size

Request(bytes) == (max_size + Len(bytes)) * 2
NewSize(bytes) == UpperPowerOfTwo(Request(bytes))

Add(bytes) ==
  /\ Fits(bytes)
  /\ AppendTo(head, tail, bytes)
  /\ UNCHANGED <<max_size, sent>>

AddGrowsKeepsSize(bytes) ==
  /\ ~Fits(bytes)
  /\ Request(bytes) <= MaxMemory
  /\ AppendTo(Realloc(head, NewSize(bytes)), curr_size, bytes)
  /\ UNCHANGED <<max_size, sent>>

\* realloc can move the block: the tail is computed again.
AddGrows(bytes) ==
  /\ ~Fits(bytes)
  /\ Request(bytes) <= MaxMemory
  /\ max_size' = NewSize(bytes)
  /\ AppendTo(Realloc(head, NewSize(bytes)), curr_size, bytes)
  /\ UNCHANGED sent

\* realloc returns NULL: nothing is added.
AddFails(bytes) == ~Fits(bytes) /\ UNCHANGED vars

ClearKeepsTail ==
  /\ curr_size' = 0
  /\ UNCHANGED <<head, tail, max_size, sent>>

Clear ==
  /\ tail' = 0
  /\ curr_size' = 0
  /\ UNCHANGED <<head, max_size, sent>>

\* write_all took the first nw bytes; it stops early on an error only.
Sends(nw) == sent' = sent \o Held(head, nw)

Write ==
  \E nw \in 0 .. curr_size :
    /\ Sends(nw)
    /\ tail' = 0
    /\ curr_size' = 0
    /\ UNCHANGED <<head, max_size>>

WriteToPart(length) ==
  /\ length < curr_size
  /\ \E nw \in 0 .. length :
       /\ Sends(nw)
       /\ tail' = tail - nw
       /\ curr_size' = curr_size - nw
       /\ head' = Move(head, nw, curr_size - nw)
  /\ UNCHANGED max_size

WriteTo(length) == IF length >= curr_size THEN Write ELSE WriteToPart(length)

Next ==
  \/ \E bytes \in Chunks : Add(bytes) \/ AddGrows(bytes) \/ AddFails(bytes)
  \/ Clear
  \/ /\ Len(sent) < MaxSent
     /\ Write \/ \E length \in 0 .. curr_size : WriteTo(length)

Spec == Init /\ [][Next]_vars

-----------------------------------------------------------------------------
TypeOK ==
  /\ max_size \in Nat
  /\ head \in [0 .. max_size - 1 -> Byte \union {Junk}]
  /\ tail \in Nat
  /\ curr_size \in Nat
  /\ sent \in Seq(Byte)

\* The assertions that end stream_buffer_add hold after every call: the tail
\* pointer agrees with the size kept beside it, also when realloc has moved
\* the block, and neither is past the end of the block.
SizesAgree == tail = curr_size /\ curr_size <= max_size

\* The bytes the buffer counts as its own were all added by a caller: what a
\* growing block or a move leaves uninitialised is never among them.
HoldsOnlyAdded == \A i \in 0 .. curr_size - 1 : head[i] \in Byte

\* Through growth, partial writes and moves, the buffer is a queue of bytes.
Queue == INSTANCE ByteQueue WITH queue <- Held(head, curr_size)
IsQueue == Queue!Spec

\* Every step preserves the conjunction of the three.
IInv == TypeOK /\ SizesAgree /\ HoldsOnlyAdded
=============================================================================
