---------------------------- MODULE StreamBuffer ----------------------------
(***************************************************************************)
(* The byte buffer of sockets and filters (lib/io/StreamBuffer.cpp): a     *)
(* list of chunks, of which the first bytes of the first may be used up.   *)
(* peek joins chunks until the first holds what is asked for, pop drops    *)
(* chunks, write fills the last one.  A chunk that peek has joined may be  *)
(* larger than kChunkSize.                                                 *)
(*                                                                         *)
(* Bytes are numbered in the order in which they are written.              *)
(***************************************************************************)
EXTENDS Naturals, Sequences

CONSTANTS
  kChunkSize,
  MaxBytes     \* bound: bytes written

ASSUME ChunkAssumption == kChunkSize \in Nat \ {0} /\ MaxBytes \in Nat

VARIABLES
  m_chunks, chunkBytes,   \* chunkBytes is m_size
  m_headUsed,
  put, popped,            \* history: how many bytes were written and dropped
  peeked                  \* what the last peek has returned

chunkVars == <<m_chunks, chunkBytes, m_headUsed, put, popped, peeked>>

BufferInit ==
  /\ m_chunks = << >> /\ chunkBytes = 0 /\ m_headUsed = 0
  /\ put = 0 /\ popped = 0 /\ peeked = << >>

Numbers(m, n) == [i \in 1 .. n - m |-> m + i]         \* m + 1, ..., n
Joined(n) ==                                          \* the first n chunks
  LET joined[i \in 0 .. n] == IF i = 0 THEN << >> ELSE joined[i - 1] \o m_chunks[i]
  IN joined[n]
All == Joined(Len(m_chunks))
Dropped(s, n) == SubSeq(s, n + 1, Len(s))

-----------------------------------------------------------------------------
\* mutant: the part of the first chunk that is used up is forgotten
EnoughIn(n, j) == Len(Joined(j)) >= n
Enough(n, j) == Len(Joined(j)) - m_headUsed >= n

\* peek
PeekBytes(n) ==
  /\ n \in 1 .. chunkBytes
  /\ LET j == CHOOSE k \in 1 .. Len(m_chunks) :
                Enough(n, k) /\ \A i \in 1 .. k - 1 : ~Enough(n, i)
     IN /\ m_chunks' = <<Joined(j)>> \o Dropped(m_chunks, j)
        /\ peeked' = IF Len(Joined(j)) >= m_headUsed + n
                     THEN SubSeq(Joined(j), m_headUsed + 1, m_headUsed + n)
                     ELSE << >>                       \* past the chunk's end
  /\ UNCHANGED <<chunkBytes, m_headUsed, put, popped>>

\* mutant: a chunk of which all is dropped stays
KeepsUsedUp(n, j) == j > 0 /\ Len(Joined(j)) - m_headUsed < n
GoesBy(n, j) == j > 0 /\ Len(Joined(j)) - m_headUsed <= n

HeadUsed(n, j) ==
  IF j = 0 THEN m_headUsed + n ELSE n - (Len(Joined(j)) - m_headUsed)

\* pop
PopBytes(n) ==
  /\ n \in 1 .. chunkBytes + 1
  /\ IF n >= chunkBytes
     THEN m_chunks' = << >> /\ m_headUsed' = 0 /\ chunkBytes' = 0
     ELSE LET j == CHOOSE k \in 0 .. Len(m_chunks) :
                     /\ k = 0 \/ GoesBy(n, k)
                     /\ \A i \in k + 1 .. Len(m_chunks) : ~GoesBy(n, i)
          IN /\ m_chunks' = Dropped(m_chunks, j)
             /\ m_headUsed' = HeadUsed(n, j)
             /\ chunkBytes' = chunkBytes - n
  /\ popped' = IF n >= chunkBytes THEN put ELSE popped + n
  /\ UNCHANGED <<put, peeked>>

LastHasSpace == m_chunks # << >> /\ Len(m_chunks[Len(m_chunks)]) < kChunkSize

\* Bytes in chunks of kChunkSize.
Chunked(s) ==
  [i \in 1 .. (Len(s) + kChunkSize - 1) \div kChunkSize |->
     SubSeq(s, (i - 1) * kChunkSize + 1,
            IF i * kChunkSize <= Len(s) THEN i * kChunkSize ELSE Len(s))]

\* write
WriteBytes(n) ==
  LET data == Numbers(put, put + n)
      last == Len(m_chunks)
  IN /\ put + n <= MaxBytes
     /\ put' = put + n /\ chunkBytes' = chunkBytes + n
     /\ m_chunks' =
          IF LastHasSpace
          THEN LET space == kChunkSize - Len(m_chunks[last])
                   count == IF n <= space THEN n ELSE space
               IN SubSeq(m_chunks, 1, last - 1)
                    \o <<m_chunks[last] \o SubSeq(data, 1, count)>>
                    \o Chunked(Dropped(data, count))
          ELSE m_chunks \o Chunked(data)
     /\ UNCHANGED <<m_headUsed, popped, peeked>>

BufferNext ==
  \E n \in 1 .. MaxBytes + 1 : PeekBytes(n) \/ PopBytes(n) \/ WriteBytes(n)

BufferSpec == BufferInit /\ [][BufferNext]_chunkVars

-----------------------------------------------------------------------------
(* Properties.                                                             *)

\* The chunks hold the bytes that were written and not dropped, in order, and
\* m_size is their number; the first chunk has a byte that is not used up, so
\* that pop and peek find one there.
BufferHoldsBytes ==
  /\ Dropped(All, m_headUsed) = Numbers(popped, put)
  /\ chunkBytes = put - popped
  /\ m_chunks # << >> => m_headUsed < Len(m_chunks[1])

\* A peek returns the bytes asked for, in one piece (StreamBuffer.h: "Return a
\* pointer to memory with the next n bytes in the buffer"), whatever was written
\* and dropped before, in which chunks.
PeekIsWhole ==
  [][/\ BufferHoldsBytes'
     /\ \A n \in 1 .. MaxBytes :
          PeekBytes(n) => peeked' = Numbers(popped, popped + n)]_chunkVars
=============================================================================
