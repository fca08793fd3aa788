------------------------------- MODULE Digest -------------------------------
(***************************************************************************)
(* core::check_digest() (usbprog-core/digest.cc) and the MD5 code it runs  *)
(* on (md5/md5.c): a file is read in pieces, md5_process() cuts the pieces *)
(* into blocks, md5_finish() pads what is left and appends the length.     *)
(*                                                                         *)
(* A byte of the file is its position, so that a lost, doubled or          *)
(* exchanged byte shows.  The four words md_A to md_D are a function of    *)
(* the blocks they were computed from, and `consumed' stands for them:     *)
(* rounds and constants of MD5 are left out.                               *)
(***************************************************************************)
EXTENDS Integers, Sequences

CONSTANTS
  BlockSize,     \* MD5_BLOCK_SIZE
  WordSize,      \* sizeof(md5_uint32)
  Word,          \* 2^32, the number of values of a word
  Sizes,         \* sizes of files
  BufferSizes    \* BUFFERSIZE of check_digest(); the code has 32 blocks

ASSUME SizesAssumption ==
  /\ WordSize \in Nat \ {0}
  /\ BlockSize \in Nat /\ BlockSize > 2 * WordSize
  /\ Word \in Nat /\ Word % 8 = 0 /\ Word > 2 * BlockSize
  /\ Sizes \subseteq Nat
  /\ BufferSizes \subseteq 1 .. Word - 1

VARIABLES
  size,          \* of the file
  reference,     \* the size of the file the reference was computed from
  bufferSize,
  at,            \* check_digest()
  fed,           \* bytes read of the file
  md             \* md5_t

digest == <<size, reference, bufferSize, at, fed, md>>

First(s, n) == SubSeq(s, 1, n)
Rest(s, n) == SubSeq(s, n + 1, Len(s))

\* The bytes m+1 to n of the file.
Bytes(m, n) == [i \in 1 .. n - m |-> <<"file", m + i>>]

Padding(n) == [i \in 1 .. n |-> IF i = 1 THEN <<"0x80", 0>> ELSE <<"0", 0>>]
WordBytes(name, value) == [i \in 1 .. WordSize |-> <<name, value, i>>]

-----------------------------------------------------------------------------
\* md5_t

MD5Init == [total |-> <<0, 0>>, buffer |-> <<>>, consumed |-> <<>>]

\* n & ~BLOCK_SIZE_MASK
Whole(n) == n - (n % BlockSize)

\* md_total, least significant word first.
Counted(total, n) ==
  IF total[1] > Word - 1 - n
    THEN <<total[1] - (Word - 1 - n), (total[2] + 1) % Word>>
    ELSE <<total[1] + n, total[2]>>

ProcessBlock(m, bytes) ==
  [total |-> Counted(m.total, Len(bytes)), buffer |-> m.buffer,
   consumed |-> m.consumed \o bytes]

\* The blocks of a buffer that holds more than one; the rest moves to its front.
Flushed(m) ==
  LET n == Whole(Len(m.buffer)) IN
  IF Len(m.buffer) > BlockSize
    THEN [ProcessBlock(m, First(m.buffer, n)) EXCEPT !.buffer = Rest(@, n)]
    ELSE m

\* What md5_process() adds to a buffer that is not empty.
Added(m, bytes) ==
  CASE m.buffer = <<>> -> 0
    [] Len(m.buffer) + Len(bytes) > 2 * BlockSize -> 2 * BlockSize - Len(m.buffer)
    [] OTHER -> Len(bytes)

MD5Process(m, bytes) ==
  LET add    == Added(m, bytes)
      filled == Flushed([m EXCEPT !.buffer = @ \o First(bytes, add)])
      rest   == Rest(bytes, add)
      direct == IF Len(rest) > BlockSize THEN Whole(Len(rest)) ELSE 0
      done   == IF direct > 0 THEN ProcessBlock(filled, First(rest, direct)) ELSE filled
      left   == Rest(rest, direct)
  IN IF left = <<>> THEN done ELSE [done EXCEPT !.buffer = left]

\* Wrong: a buffer that ends where the length begins gets no padding.
PadNothing(n) ==
  LET pad == BlockSize - 2 * WordSize - n IN
  IF pad < 0 THEN pad + BlockSize ELSE pad

\* The padding in front of the two words of the length.
Pad(n) ==
  LET pad == BlockSize - 2 * WordSize - n IN
  IF pad <= 0 THEN pad + BlockSize ELSE pad

\* The length in bits, in two words.
LengthBytes(total) ==
  WordBytes("low", (total[1] * 8) % Word)
    \o WordBytes("high", ((total[2] * 8) % Word) + total[1] \div (Word \div 8))

MD5Finish(m) ==
  LET total == Counted(m.total, Len(m.buffer))
      full  == m.buffer \o Padding(Pad(Len(m.buffer))) \o LengthBytes(total)
  IN ProcessBlock([total |-> total, buffer |-> full, consumed |-> m.consumed], full)

-----------------------------------------------------------------------------
\* check_digest()

SameFile == UNCHANGED <<size, reference, bufferSize>>

\* One turn of the loop; a read of fewer bytes than the buffer has is the last.
ReadFile ==
  LET n == IF size - fed < bufferSize THEN size - fed ELSE bufferSize IN
  /\ at = "read"
  /\ fed' = fed + n
  /\ md' = MD5Process(md, Bytes(fed, fed + n))
  /\ at' = IF n < bufferSize THEN "end" ELSE "read"
  /\ SameFile

\* A std::string is thrown, which nothing in the programs catches.
ReadFails ==
  /\ at = "read"
  /\ at' = "terminated"
  /\ UNCHANGED <<fed, md>>
  /\ SameFile

CannotOpen ==
  /\ at = "open"
  /\ at' = "IOError"
  /\ UNCHANGED <<fed, md>>
  /\ SameFile

OpenFile ==
  /\ at = "open"
  /\ at' = "read"
  /\ md' = MD5Init
  /\ UNCHANGED fed
  /\ SameFile

\* What is computed of n bytes: RFC 1321, 3.1 to 3.4.
Padded(n) ==
  LET pad == CHOOSE p \in 1 .. BlockSize : (n + p + 2 * WordSize) % BlockSize = 0 IN
  Bytes(0, n) \o Padding(pad)
    \o WordBytes("low", (8 * n) % Word) \o WordBytes("high", (8 * n) \div Word)

\* md5_finish() and the comparison with the reference.
EndDigest ==
  /\ at = "end"
  /\ md' = MD5Finish(md)
  /\ at' = IF md'.consumed = Padded(reference) THEN "right" ELSE "wrong"
  /\ UNCHANGED fed
  /\ SameFile

DigestInit ==
  /\ size \in Sizes
  /\ reference \in Sizes
  /\ bufferSize \in BufferSizes
  /\ at = "open"
  /\ fed = 0
  /\ md = MD5Init

DigestNext == OpenFile \/ CannotOpen \/ ReadFile \/ ReadFails \/ EndDigest

DigestSpec == DigestInit /\ [][DigestNext]_digest

-----------------------------------------------------------------------------
\* md_buffer has room for two blocks: neither a call of md5_process() nor md5_finish()
\* writes behind it, as one block at most is left between two calls.
BufferHolds ==
  /\ Len(md.buffer) <= IF at \in {"right", "wrong"} THEN 2 * BlockSize ELSE BlockSize
  /\ Len(md.consumed) % BlockSize = 0
  /\ md.total \in (0 .. Word - 1) \X (0 .. Word - 1)

\* However the file is cut into pieces, the buffer holds, and MD5 is computed of the
\* file's bytes, each once and in order, with the padding and the length of RFC 1321
\* behind them; so a file is right exactly if it is the one the reference is of.  Files
\* of 2^32 bytes and more are excluded: the carry of md_total is one too high.
DigestRight ==
  /\ BufferHolds
  /\ size < Word /\ reference < Word =>
       /\ at \notin {"right", "wrong"} => md.consumed \o md.buffer = Bytes(0, fed)
       /\ at \in {"right", "wrong"} =>
            md.consumed = Padded(size) /\ (at = "right" <=> size = reference)
=============================================================================
