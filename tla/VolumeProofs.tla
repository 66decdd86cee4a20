---------------------------- MODULE VolumeProofs ----------------------------
(***************************************************************************)
(* What the format of sealed files and the conversion of a tree guarantee, *)
(* for every chunk and tag size, any files and any number of runs: an      *)
(* interrupted conversion can be finished, and no damage goes unnoticed.   *)
(* A byte that is sealed says from what; the invariant is that it is true. *)
(***************************************************************************)
EXTENDS Volume, SequenceTheorems, RetentionProofs

LEMMA Sizes ==
  /\ ChunkSize \in Nat \ {0} /\ TagSize \in Nat \ {0} /\ SealedSize \in Nat \ {0}
  /\ SealedSize = ChunkSize + TagSize /\ HeaderSize = 1
  /\ MaxLength \in Nat /\ MaxRuns \in Nat /\ MaxDamage \in Nat
BY VolumeAssumption DEF SealedSize, HeaderSize

\* Places in rows of b each.
LEMMA Rows ==
  ASSUME NEW b \in Nat, NEW i \in Nat, NEW j \in Nat
  PROVE  /\ i * b \in Nat /\ (i + 1) * b = i * b + b /\ 0 * b = 0
         /\ i < j => i * b + b <= j * b
OBVIOUS

LEMMA DivModFacts ==
  ASSUME NEW b \in Nat \ {0}, NEW a \in Nat
  PROVE  /\ a \div b \in Nat /\ (a % b) \in 0 .. b - 1
         /\ a = (a \div b) * b + (a % b)
OBVIOUS

LEMMA DivModIs ==
  ASSUME NEW b \in Nat \ {0}, NEW q \in Nat, NEW r \in 0 .. b - 1
  PROVE  (q * b + r) \div b = q /\ (q * b + r) % b = r
OBVIOUS

----------------------------------------------------------------------------
(***************************************************************************)
(* The format.                                                             *)
(***************************************************************************)
Salts == Files \X Nat

PlainBytes == [kind : {"plain"}, file : Files, at : Nat]

Bytes ==
  PlainBytes \cup [kind : {"header"}, salt : Salts]
  \cup [kind : {"sealed"}, key : Keys, salt : Salts, index : Nat, final : BOOLEAN,
        plain : Seq(PlainBytes), at : Nat]

LEMMA SeqOf ==
  ASSUME NEW S, NEW n \in Nat, NEW s \in [1 .. n -> S]
  PROVE  s \in Seq(S) /\ Len(s) = n
OBVIOUS

\* The plaintext of chunk i of a content.
Piece(content, i, final, plain) ==
  /\ i \in Nat /\ Len(plain) \in 0 .. ChunkSize
  /\ i * ChunkSize + Len(plain) <= Len(content)
  /\ plain = SubSeq(content, i * ChunkSize + 1, i * ChunkSize + Len(plain))
  /\ final => i * ChunkSize + Len(plain) = Len(content) /\ Len(plain) < ChunkSize
  /\ ~final => Len(plain) = ChunkSize

TrueByte(b) == Piece(Content(b.salt[1]), b.index, b.final, b.plain)

\* Sealed from f, though perhaps cut off or mixed up.
Sealed(f, bytes) ==
  /\ bytes \in Seq(Bytes) /\ Len(bytes) >= 1
  /\ \E n \in Nat : bytes[1] = Header(<<f, n>>)
  /\ \A k \in 2 .. Len(bytes) : bytes[k].kind = "sealed" /\ TrueByte(bytes[k])

\* Chunk i of a content, with n bytes of it, is in its place.
InPlace(bytes, key, content, i, final, n) ==
  \A k \in 1 .. n + TagSize :
    bytes[HeaderSize + i * SealedSize + k] =
      Seal(key, bytes[1].salt, i, final, SubSeq(content, i * ChunkSize + 1, i * ChunkSize + n))[k]

\* The parts of Whole, for a given key and number of chunks.
WholeBy(f, bytes, key, last, rest) ==
  /\ length[f] = last * ChunkSize + rest
  /\ Len(bytes) = HeaderSize + last * SealedSize + rest + TagSize
  /\ \A i \in 0 .. last - 1 : InPlace(bytes, key, Content(f), i, FALSE, ChunkSize)
  /\ InPlace(bytes, key, Content(f), last, TRUE, rest)

\* As the command leaves it: every chunk is there, and the last one final.
Whole(f, bytes) ==
  \E key \in Keys, last \in Nat, rest \in 0 .. ChunkSize - 1 : WholeBy(f, bytes, key, last, rest)

Lengths == length \in [Files -> 0 .. MaxLength]

LEMMA ContentIs ==
  ASSUME Lengths, NEW f \in Files
  PROVE  /\ Content(f) \in Seq(PlainBytes) /\ Content(f) \in Seq(Bytes)
         /\ Len(Content(f)) = length[f] /\ length[f] \in 0 .. MaxLength /\ length[f] \in Nat
         /\ ~IsEncrypted(Content(f))
<1>1. length[f] \in 0 .. MaxLength /\ length[f] \in Nat
  BY Sizes DEF Lengths
<1>2. Content(f) \in [1 .. length[f] -> PlainBytes]
  BY <1>1 DEF Content, PlainByte, PlainBytes
<1>3. Content(f) \in [1 .. length[f] -> Bytes]
  BY <1>2 DEF Bytes
<1>4. Content(f) \in Seq(PlainBytes) /\ Content(f) \in Seq(Bytes) /\ Len(Content(f)) = length[f]
  BY <1>1, <1>2, <1>3, SeqOf
<1>5. ~IsEncrypted(Content(f))
  <2>1. SUFFICES ASSUME Content(f) # <<>> PROVE Content(f)[1].kind # "header"
    BY DEF IsEncrypted
  <2>2. 1 \in 1 .. length[f]
    BY <1>1, <1>4, <2>1, EmptySeq
  <2>3. QED
    BY <1>2, <2>2 DEF PlainBytes
<1>6. QED
  BY <1>1, <1>4, <1>5

LEMMA SealedIs ==
  ASSUME NEW f \in Files, NEW bytes, Sealed(f, bytes)
  PROVE  /\ Len(bytes) \in Nat \ {0} /\ bytes # <<>> /\ IsEncrypted(bytes)
         /\ bytes[1].salt \in Salts /\ bytes[1].salt[1] = f
<1>1. Len(bytes) \in Nat \ {0} /\ bytes # <<>>
  BY EmptySeq, LenProperties DEF Sealed
<1>2. QED
  BY <1>1 DEF Sealed, IsEncrypted, Header, Salts

LEMMA SealIs ==
  ASSUME NEW key \in Keys, NEW salt \in Salts, NEW i \in Nat, NEW final \in BOOLEAN,
         NEW plain \in Seq(PlainBytes)
  PROVE  /\ Seal(key, salt, i, final, plain) \in Seq(Bytes)
         /\ Len(Seal(key, salt, i, final, plain)) = Len(plain) + TagSize
         /\ Len(plain) \in Nat /\ Len(plain) + TagSize \in Nat \ {0}
         /\ \A k \in 1 .. Len(plain) + TagSize :
              Seal(key, salt, i, final, plain)[k] =
                [kind |-> "sealed", key |-> key, salt |-> salt, index |-> i,
                 final |-> final, plain |-> plain, at |-> k]
<1>1. Len(plain) \in Nat /\ Len(plain) + TagSize \in Nat \ {0}
  BY Sizes
<1>2. Seal(key, salt, i, final, plain) \in [1 .. Len(plain) + TagSize -> Bytes]
  BY <1>1 DEF Seal, Bytes
<1>3. QED
  BY <1>1, <1>2, SeqOf DEF Seal

LEMMA SealChunk ==
  \A key \in Keys, salt \in Salts, i \in Nat, final \in BOOLEAN, plain \in Seq(PlainBytes) :
    /\ Seal(key, salt, i, final, plain) \in Seq(Bytes)
    /\ Len(Seal(key, salt, i, final, plain)) = Len(plain) + TagSize
    /\ \A k \in 1 .. Len(plain) + TagSize :
         Seal(key, salt, i, final, plain)[k] =
           [kind |-> "sealed", key |-> key, salt |-> salt, index |-> i,
            final |-> final, plain |-> plain, at |-> k]
<1>1. TAKE key \in Keys, salt \in Salts, i \in Nat, final \in BOOLEAN, plain \in Seq(PlainBytes)
<1>2. PICK n, chunk : n = Len(plain) + TagSize /\ chunk = Seal(key, salt, i, final, plain)
  OBVIOUS
<1>3. n \in Nat
  BY <1>2, SealIs
<1>4. chunk \in [1 .. n -> Bytes]
  BY <1>2, <1>3 DEF Seal, Bytes
<1>5. chunk \in Seq(Bytes) /\ Len(chunk) = n
  BY <1>3, <1>4, SeqOf
<1>6. \A k \in 1 .. n : chunk[k] = [kind |-> "sealed", key |-> key, salt |-> salt, index |-> i,
                                   final |-> final, plain |-> plain, at |-> k]
  BY <1>2 DEF Seal
<1>7. QED
  BY <1>2, <1>5, <1>6, Zenon

----------------------------------------------------------------------------
(***************************************************************************)
(* Sizes.  Whatever the length of a sealed file, the number of chunks it   *)
(* is taken for and the length of the last one make it up.                 *)
(***************************************************************************)
LEMMA PlainSizeIs ==
  ASSUME NEW n \in Nat, PlainSize(n).ok
  PROVE  \E last \in Nat, want \in TagSize .. SealedSize :
           /\ n = HeaderSize + last * SealedSize + want
           /\ PlainSize(n).chunks = last + 1
           /\ PlainSize(n).size = last * ChunkSize + (want - TagSize)
<1> DEFINE body == n - HeaderSize
           full == body \div SealedSize
           rem  == body % SealedSize
<1>1. body \in Nat /\ body >= TagSize /\ rem \notin 1 .. TagSize - 1
  BY Sizes DEF PlainSize
<1>2. full \in Nat /\ rem \in 0 .. SealedSize - 1 /\ body = full * SealedSize + rem
  BY <1>1, Sizes, DivModFacts
<1>3. PlainSize(n) = IF rem = 0 THEN [ok |-> TRUE, size |-> full * ChunkSize, chunks |-> full]
                     ELSE [ok |-> TRUE, size |-> full * ChunkSize + rem - TagSize, chunks |-> full + 1]
  BY <1>1 DEF PlainSize
<1>4. n = HeaderSize + full * SealedSize + rem
  <2>1. body = n - HeaderSize
    OBVIOUS
  <2> HIDE DEF body, full, rem
  <2>2. full * SealedSize \in Nat
    BY <1>2, Rows, Sizes
  <2>3. QED
    BY <1>2, <2>1, <2>2, Sizes
<1> HIDE DEF body, full, rem
<1>5. CASE rem = 0
  <2>1. full # 0
    BY <1>1, <1>2, <1>5, Sizes
  <2>2. PICK last \in Nat : full = last + 1
    BY <1>2, <2>1
  <2>3. /\ last * SealedSize \in Nat /\ full * SealedSize = last * SealedSize + SealedSize
        /\ last * ChunkSize \in Nat /\ full * ChunkSize = last * ChunkSize + ChunkSize
    BY <2>2, Rows, Sizes
  <2>4. SealedSize \in TagSize .. SealedSize
    BY Sizes
  <2>5. n = HeaderSize + last * SealedSize + SealedSize
    BY <1>4, <1>5, <2>3, Sizes
  <2>6. PlainSize(n).chunks = last + 1 /\ PlainSize(n).size = last * ChunkSize + (SealedSize - TagSize)
    BY <1>3, <1>5, <2>2, <2>3, Sizes
  <2>7. QED
    BY <2>4, <2>5, <2>6
<1>6. CASE rem # 0
  <2>1. rem \in TagSize .. SealedSize
    BY <1>1, <1>2, <1>6, Sizes
  <2>2. full * ChunkSize \in Nat
    BY <1>2, Rows, Sizes
  <2>3. PlainSize(n).chunks = full + 1 /\ PlainSize(n).size = full * ChunkSize + (rem - TagSize)
    BY <1>2, <1>3, <1>6, <2>2, Sizes
  <2>4. QED
    BY <1>2, <1>4, <2>1, <2>3
<1>7. QED
  BY <1>5, <1>6

\* What is as long as the command makes it is taken for that.
LEMMA PlainSizeOfWhole ==
  ASSUME NEW last \in Nat, NEW rest \in 0 .. ChunkSize - 1
  PROVE  PlainSize(HeaderSize + last * SealedSize + rest + TagSize) =
           [ok |-> TRUE, size |-> last * ChunkSize + rest, chunks |-> last + 1]
<1>1. /\ last * SealedSize \in Nat /\ last * ChunkSize \in Nat
      /\ rest + TagSize \in 0 .. SealedSize - 1 /\ rest + TagSize \notin 0 .. TagSize - 1
  BY Rows, Sizes
<1>2. PICK n : n = HeaderSize + last * SealedSize + rest + TagSize
  OBVIOUS
<1>3. n - HeaderSize = last * SealedSize + (rest + TagSize) /\ n - HeaderSize >= TagSize
  BY <1>1, <1>2, Sizes
<1>4. (n - HeaderSize) \div SealedSize = last /\ (n - HeaderSize) % SealedSize = rest + TagSize
  <2>1. PICK r \in 0 .. SealedSize - 1 : r = rest + TagSize
    BY <1>1
  <2>2. (last * SealedSize + r) \div SealedSize = last /\ (last * SealedSize + r) % SealedSize = r
    BY DivModIs, Sizes
  <2>3. QED
    BY <1>3, <2>1, <2>2
<1>5. rest + TagSize # 0 /\ last * ChunkSize + (rest + TagSize) - TagSize = last * ChunkSize + rest
  BY <1>1, Sizes
<1>6. PlainSize(n) = [ok |-> TRUE, size |-> last * ChunkSize + rest, chunks |-> last + 1]
  <2>1. PICK body : body = n - HeaderSize
    OBVIOUS
  <2>2. body >= TagSize /\ body \div SealedSize = last /\ body % SealedSize = rest + TagSize
    BY <1>3, <1>4, <2>1
  <2>3. ~(body < TagSize) /\ (body % SealedSize) \notin 1 .. TagSize - 1
    BY <1>1, <1>3, <2>1, <2>2, Sizes
  <2>4. QED
    BY <1>5, <2>1, <2>2, <2>3, Zenon DEF PlainSize
<1>7. QED
  BY <1>2, <1>6

----------------------------------------------------------------------------
(***************************************************************************)
(* Reading.  A chunk that opens is the plaintext of its place, and one     *)
(* that opens as the last is where the content ends.                       *)
(***************************************************************************)
LEMMA ChunkTrue ==
  ASSUME Lengths, NEW f \in Files, NEW bytes, Sealed(f, bytes), NEW key \in Keys,
         NEW index \in Nat, NEW chunks, PlainSize(Len(bytes)).chunks = chunks,
         LoadChunk(bytes, key, index).ok
  PROVE  \E plain \in Seq(PlainBytes) :
           /\ LoadChunk(bytes, key, index) = [ok |-> TRUE, plain |-> plain]
           /\ Piece(Content(f), index, index = chunks - 1, plain)
           /\ index = chunks - 1 =>
                Len(bytes) = HeaderSize + index * SealedSize + Len(plain) + TagSize
<1>0. /\ Len(bytes) \in Nat \ {0} /\ index * SealedSize \in Nat
      /\ bytes[1].salt \in Salts /\ bytes[1].salt[1] = f
  BY SealedIs, Rows, Sizes
<1>1. PICK at, final, want :
        /\ at = HeaderSize + index * SealedSize
        /\ final = (index = chunks - 1)
        /\ want = IF final THEN Len(bytes) - at ELSE SealedSize
  OBVIOUS
<1>2. final \in BOOLEAN /\ at \in Nat \ {0} /\ want \in Int
  BY <1>0, <1>1, Sizes
<1>3. PICK sub : sub = SubSeq(bytes, at + 1, at + want)
  OBVIOUS
<1>4. LoadChunk(bytes, key, index) =
        IF index \notin 0 .. chunks - 1 \/ want \notin TagSize .. SealedSize
           \/ at + want > Len(bytes)
        THEN Refused ELSE Unseal(key, bytes[1].salt, index, final, sub)
  BY <1>1, <1>3 DEF LoadChunk
<1>5. /\ want \in TagSize .. SealedSize /\ at + want <= Len(bytes)
      /\ LoadChunk(bytes, key, index) = Unseal(key, bytes[1].salt, index, final, sub)
      /\ Unseal(key, bytes[1].salt, index, final, sub).ok
  BY <1>0, <1>2, <1>4, Sizes DEF Refused
<1>6. PICK b : b = sub[1]
  OBVIOUS
<1>7. /\ b.kind = "sealed" /\ sub = Seal(key, bytes[1].salt, index, final, b.plain)
      /\ LoadChunk(bytes, key, index) = [ok |-> TRUE, plain |-> b.plain]
  BY <1>5, <1>6 DEF Unseal, Refused
<1>8. /\ Len(sub) = want /\ b = bytes[at + 1] /\ at + 1 \in 2 .. Len(bytes)
  <2>1. want \in Nat \ {0} /\ at + 1 \in 2 .. Len(bytes)
    BY <1>0, <1>2, <1>5, Sizes, SMTT(30)
  <2>2. \A i \in at + 1 .. at + want : bytes[i] \in Bytes
    BY <1>0, <1>2, <1>5, <2>1, ElementOfSeq DEF Sealed
  <2>3. Len(sub) = want /\ \A i \in 1 .. want : sub[i] = bytes[at + i]
    BY <1>2, <1>3, <2>1, <2>2, SubSeqProperties
  <2>4. QED
    BY <1>6, <2>1, <2>3
<1>9. TrueByte(b) /\ b \in Bytes
  BY <1>8, ElementOfSeq DEF Sealed
<1>10. b.plain \in Seq(PlainBytes)
  BY <1>7, <1>9 DEF Bytes, PlainBytes
<1>11. /\ b = [kind |-> "sealed", key |-> key, salt |-> bytes[1].salt, index |-> index,
               final |-> final, plain |-> b.plain, at |-> 1]
       /\ Len(b.plain) + TagSize = want /\ Len(b.plain) \in Nat
  <2>1. PICK plain \in Seq(PlainBytes) : plain = b.plain
    BY <1>10
  <2>2. 1 \in 1 .. Len(plain) + TagSize
    <3>1. Len(plain) \in Nat /\ TagSize \in Nat \ {0}
      BY Sizes, LenProperties
    <3>2. QED
      BY <3>1
  <2>3. /\ sub[1] = [kind |-> "sealed", key |-> key, salt |-> bytes[1].salt, index |-> index,
                     final |-> final, plain |-> plain, at |-> 1]
        /\ Len(plain) + TagSize = Len(sub) /\ Len(plain) \in Nat
    <3>1. PICK salt \in Salts : salt = bytes[1].salt
      BY <1>0
    <3>2. sub = Seal(key, salt, index, final, plain)
      BY <1>7, <2>1, <3>1, Zenon
    <3>3. QED
      <4>1. /\ Len(sub) = Len(plain) + TagSize /\ Len(plain) \in Nat
            /\ \A k \in 1 .. Len(plain) + TagSize :
                 sub[k] = [kind |-> "sealed", key |-> key, salt |-> salt, index |-> index,
                           final |-> final, plain |-> plain, at |-> k]
        BY <1>2, <3>2, SealIs
      <4>2. QED
        BY <2>2, <3>1, <4>1, Zenon
  <2>4. QED
    BY <1>6, <1>8, <2>1, <2>3
<1>12. Piece(Content(f), index, final, b.plain)
  <2>1. b.salt[1] = f /\ b.index = index /\ b.final = final
    BY <1>0, <1>11
  <2>2. QED
    BY <1>9, <2>1 DEF TrueByte
<1>13. final => Len(bytes) = HeaderSize + index * SealedSize + Len(b.plain) + TagSize
  <2>1. PICK p \in Nat, n \in Nat : p = index * SealedSize /\ n = Len(b.plain)
    BY <1>0, <1>11
  <2>2. final => n + TagSize = Len(bytes) - (HeaderSize + p)
    BY <1>1, <1>11, <2>1, Zenon
  <2>3. final => Len(bytes) = HeaderSize + p + n + TagSize
    <3>1. PICK l \in Nat : l = Len(bytes)
      BY <1>0
    <3>2. n + TagSize = l - (HeaderSize + p) => l = HeaderSize + p + n + TagSize
      BY Sizes
    <3>3. QED
      BY <2>2, <3>1, <3>2, Zenon
  <2>4. QED
    BY <2>1, <2>3
<1>14. QED
  BY <1>1, <1>7, <1>10, <1>12, <1>13

\* What can be opened is as long as it says.
LEMMA OpensTrue ==
  ASSUME Lengths, NEW f \in Files, NEW bytes, Sealed(f, bytes), NEW key \in Keys,
         Opens(bytes, key)
  PROVE  SizeOf(bytes) = length[f]
<1>1. IsEncrypted(bytes) /\ Len(bytes) \in Nat
  BY SealedIs
<1>2. PICK size : size = PlainSize(Len(bytes))
  OBVIOUS
<1>3. size.ok /\ LoadChunk(bytes, key, size.chunks - 1).ok /\ SizeOf(bytes) = size.size
  BY <1>1, <1>2 DEF Opens, SizeOf
<1>4. PICK last \in Nat, want \in TagSize .. SealedSize :
        /\ Len(bytes) = HeaderSize + last * SealedSize + want
        /\ size.chunks = last + 1
        /\ size.size = last * ChunkSize + (want - TagSize)
  BY <1>1, <1>2, <1>3, PlainSizeIs
<1>5. size.chunks - 1 = last
  BY <1>4
<1>6. PICK plain \in Seq(PlainBytes) :
        /\ Piece(Content(f), last, TRUE, plain)
        /\ Len(bytes) = HeaderSize + last * SealedSize + Len(plain) + TagSize
  <2>1. LoadChunk(bytes, key, last).ok
    BY <1>3, <1>5
  <2>2. PICK chunks : chunks = PlainSize(Len(bytes)).chunks
    OBVIOUS
  <2>3. (last = chunks - 1) = TRUE
    BY <1>2, <1>5, <2>2
  <2>4. QED
    <3>1. PICK q \in Seq(PlainBytes) :
            /\ Piece(Content(f), last, last = chunks - 1, q)
            /\ last = chunks - 1 =>
                 Len(bytes) = HeaderSize + last * SealedSize + Len(q) + TagSize
      BY <2>1, <2>2, ChunkTrue
    <3>2. QED
      BY <2>3, <3>1, Zenon
<1>7. last * SealedSize \in Nat /\ last * ChunkSize \in Nat /\ Len(plain) \in Nat
  BY Rows, Sizes, LenProperties
<1>8. Len(plain) = want - TagSize
  BY <1>4, <1>6, <1>7, Sizes
<1>9. last * ChunkSize + Len(plain) = length[f]
  BY <1>6, ContentIs DEF Piece
<1>10. QED
  BY <1>3, <1>4, <1>8, <1>9

\* What a read from an offset on gives, if it gives anything.
Continues(f, at, r) ==
  \E n \in Nat : at + n <= length[f] /\ r = [ok |-> TRUE, plain |-> SubSeq(Content(f), at + 1, at + n)]

\* One read gives what follows in the content, up to the end of a chunk.
LEMMA ReadTrue ==
  ASSUME Lengths, NEW f \in Files, NEW bytes, Sealed(f, bytes), NEW key \in Keys,
         NEW at \in Nat, ReadAt(bytes, key, at).ok
  PROVE  Continues(f, at, ReadAt(bytes, key, at))
<1>1. PICK index, within :
        /\ index = at \div ChunkSize /\ within = at - index * ChunkSize
        /\ index \in Nat /\ within \in 0 .. ChunkSize - 1 /\ index * ChunkSize \in Nat
        /\ at = index * ChunkSize + within
  <2>1. PICK index, within, start :
          index = at \div ChunkSize /\ within = at % ChunkSize /\ start = index * ChunkSize
    OBVIOUS
  <2>2. index \in Nat /\ within \in 0 .. ChunkSize - 1 /\ at = start + within
    BY <2>1, Sizes, DivModFacts
  <2>3. start \in Nat
    BY <2>1, <2>2, Rows, Sizes
  <2>4. at - start = within
    BY <2>2, <2>3, Sizes
  <2>5. QED
    BY <2>1, <2>2, <2>3, <2>4
<1>2. PICK chunk : chunk = LoadChunk(bytes, key, index)
  OBVIOUS
<1>3. ReadAt(bytes, key, at) =
        IF ~chunk.ok \/ within > Len(chunk.plain) THEN Refused
        ELSE [ok |-> TRUE, plain |-> SubSeq(chunk.plain, within + 1, Len(chunk.plain))]
  BY <1>1, <1>2, SealedIs DEF ReadAt
<1>4. chunk.ok /\ ~(within > Len(chunk.plain))
  BY <1>3 DEF Refused
<1>5. PICK plain \in Seq(PlainBytes), final \in BOOLEAN :
        chunk.plain = plain /\ Piece(Content(f), index, final, plain)
  <2>1. PICK chunks : chunks = PlainSize(Len(bytes)).chunks
    OBVIOUS
  <2>2. QED
    <3>1. PICK q \in Seq(PlainBytes) :
            /\ LoadChunk(bytes, key, index) = [ok |-> TRUE, plain |-> q]
            /\ Piece(Content(f), index, index = chunks - 1, q)
      <4>1. index \in Nat /\ LoadChunk(bytes, key, index).ok
        BY <1>1, <1>2, <1>4
      <4>2. QED
        BY <2>1, <4>1, ChunkTrue
    <3>2. PICK final \in BOOLEAN : final = (index = chunks - 1)
      OBVIOUS
    <3>3. chunk.plain = q
      BY <1>2, <3>1
    <3>4. QED
      BY <3>1, <3>2, <3>3, Zenon
<1>6. PICK start, n : start = index * ChunkSize /\ n = Len(plain)
  OBVIOUS
<1>7. /\ start \in Nat /\ n \in Nat /\ within \in Nat /\ within <= n /\ start + n <= length[f]
      /\ plain = SubSeq(Content(f), start + 1, start + n) /\ at = start + within
      /\ length[f] \in Nat
  <2>1. start \in Nat /\ at = start + within /\ within \in Nat
    BY <1>1, <1>6, Sizes
  <2>2. n \in Nat /\ within <= n
    BY <1>4, <1>5, <1>6, <2>1, LenProperties
  <2>3. start + n <= length[f] /\ plain = SubSeq(Content(f), start + 1, start + n)
    BY <1>5, <1>6, ContentIs DEF Piece
  <2>4. QED
    BY <2>1, <2>2, <2>3, ContentIs
<1>8. SubSeq(plain, within + 1, n) = SubSeq(Content(f), at + 1, at + (n - within))
  <2>1. CASE within = n
    <3>1. SubSeq(plain, within + 1, n) = <<>>
      BY <1>7, <2>1, SubSeqEmpty
    <3>2. SubSeq(Content(f), at + 1, at + (n - within)) = <<>>
      BY <1>7, <2>1, SubSeqEmpty
    <3>3. QED
      BY <3>1, <3>2
  <2>2. CASE within # n
    <3>1. /\ within < n /\ start + 1 \in 1 .. length[f] /\ start + n \in 1 .. length[f]
          /\ within + 1 \in 1 .. n /\ n \in 1 .. n
      BY <1>7, <2>2
    <3>2. Content(f) \in Seq(PlainBytes) /\ Len(Content(f)) = length[f]
      BY ContentIs
    <3>3. /\ within + 1 \in 1 .. (start + n) - (start + 1) + 1
          /\ n \in 1 .. (start + n) - (start + 1) + 1
      BY <1>7, <3>1
    <3>4. SubSeq(SubSeq(Content(f), start + 1, start + n), within + 1, n)
            = SubSeq(Content(f), (start + 1) + (within + 1) - 1, (start + 1) + n - 1)
      <4>1. PICK i \in 1 .. Len(Content(f)), j \in 1 .. Len(Content(f)) :
              i = start + 1 /\ j = start + n
        BY <3>1, <3>2
      <4>2. within + 1 \in 1 .. j - i + 1 /\ n \in 1 .. j - i + 1
        BY <3>3, <4>1
      <4>3. PICK a \in 1 .. j - i + 1, b \in 1 .. j - i + 1 : a = within + 1 /\ b = n
        BY <4>2
      <4>4. PICK s \in Seq(PlainBytes) : s = Content(f)
        BY <3>2
      <4>5. SubSeq(SubSeq(s, i, j), a, b) = SubSeq(s, i + a - 1, i + b - 1)
        BY <4>4, SubSeqOfSubSeq
      <4>6. QED
        BY <4>1, <4>3, <4>4, <4>5, Zenon
    <3>5. (start + 1) + (within + 1) - 1 = at + 1 /\ (start + 1) + n - 1 = at + (n - within)
      BY <1>7
    <3>6. QED
      BY <1>7, <3>4, <3>5
  <2>3. QED
    BY <2>1, <2>2
<1>9. n - within \in Nat /\ at + (n - within) <= length[f]
  BY <1>7
<1>10. ReadAt(bytes, key, at) = [ok |-> TRUE, plain |-> SubSeq(plain, within + 1, n)]
  BY <1>3, <1>4, <1>5, <1>6
<1>11. QED
  BY <1>8, <1>9, <1>10 DEF Continues

\* What opens, or was never sealed.
Readable(f, bytes, key) ==
  \/ bytes = Content(f)
  \/ Sealed(f, bytes) /\ Opens(bytes, key)

LEMMA ReadableIs ==
  ASSUME Lengths, NEW f \in Files, NEW bytes, NEW key \in Keys, Readable(f, bytes, key)
  PROVE  Opens(bytes, key) /\ SizeOf(bytes) = length[f] /\ length[f] \in Nat
<1>1. CASE bytes = Content(f)
  BY <1>1, ContentIs DEF Opens, SizeOf
<1>2. CASE Sealed(f, bytes) /\ Opens(bytes, key)
  BY <1>2, OpensTrue, ContentIs
<1>3. QED
  BY <1>1, <1>2 DEF Readable

LEMMA ReadStep ==
  ASSUME Lengths, NEW f \in Files, NEW bytes, NEW key \in Keys, Readable(f, bytes, key),
         NEW at \in Nat, at < length[f], ReadAt(bytes, key, at).ok
  PROVE  \E n \in Nat, part \in Seq(PlainBytes) :
           /\ at + n <= length[f] /\ Len(part) = n
           /\ ReadAt(bytes, key, at) = [ok |-> TRUE, plain |-> part]
           /\ part = SubSeq(Content(f), at + 1, at + n)
<1>1. /\ Content(f) \in Seq(PlainBytes) /\ Len(Content(f)) = length[f] /\ length[f] \in Nat
      /\ ~IsEncrypted(Content(f))
  BY ContentIs
<1>2. PICK n \in Nat :
        /\ at + n <= length[f]
        /\ ReadAt(bytes, key, at) = [ok |-> TRUE, plain |-> SubSeq(Content(f), at + 1, at + n)]
  <2>1. CASE bytes = Content(f)
    <3>1. PICK n \in Nat : at + n = length[f]
      <4>1. length[f] - at \in Nat /\ at + (length[f] - at) = length[f]
        BY <1>1
      <4>2. QED
        BY <4>1, Zenon
    <3>2. ReadAt(bytes, key, at) = [ok |-> TRUE, plain |-> SubSeq(Content(f), at + 1, at + n)]
      BY <1>1, <2>1, <3>1 DEF ReadAt
    <3>3. at + n <= length[f]
      BY <1>1, <3>1
    <3>4. QED
      BY <3>2, <3>3, Zenon
  <2>2. CASE Sealed(f, bytes)
    BY <2>2, ReadTrue DEF Continues
  <2>3. QED
    BY <2>1, <2>2 DEF Readable
<1>3. PICK part : part = SubSeq(Content(f), at + 1, at + n)
  OBVIOUS
<1>4. \A i \in at + 1 .. at + n : Content(f)[i] \in PlainBytes
  BY <1>1, <1>2, ElementOfSeq
<1>5. part \in Seq(PlainBytes) /\ Len(part) = n
  BY <1>2, <1>3, <1>4, SubSeqProperties
<1>6. QED
  BY <1>2, <1>3, <1>5

(***************************************************************************)
(* Reading on to the end.  The recursion of ReadFrom goes up in the file,  *)
(* so that its function is built from the end downwards.                   *)
(***************************************************************************)
Onward(g, bytes, key, size, at) ==
  IF at >= size THEN [ok |-> TRUE, plain |-> <<>>]
  ELSE LET part == ReadAt(bytes, key, at) IN
       IF ~part.ok \/ part.plain = <<>> THEN Refused
       ELSE LET more == g[at + Len(part.plain)] IN
            [ok |-> more.ok, plain |-> part.plain \o more.plain]

ReadsOn(g, n, bytes, key, size) ==
  g = [at \in n .. size + MaxLength |-> Onward(g, bytes, key, size, at)]

LEMMA OnwardLooksAhead ==
  ASSUME Lengths, NEW f \in Files, NEW bytes, NEW key \in Keys, Readable(f, bytes, key),
         NEW at \in Nat, NEW g, NEW h, NEW size, size = length[f],
         \A j \in at + 1 .. size : g[j] = h[j]
  PROVE  Onward(g, bytes, key, size, at) = Onward(h, bytes, key, size, at)
<1>1. CASE at >= size
  BY <1>1 DEF Onward
<1>2. PICK part : part = ReadAt(bytes, key, at)
  OBVIOUS
<1>3. CASE ~(at >= size) /\ (~part.ok \/ part.plain = <<>>)
  BY <1>2, <1>3 DEF Onward
<1>4. CASE ~(at >= size) /\ part.ok /\ part.plain # <<>>
  <2>1. size \in Nat /\ at < size
    BY <1>4, ContentIs
  <2>2. PICK n \in Nat, plain \in Seq(PlainBytes) :
          at + n <= size /\ Len(plain) = n /\ part = [ok |-> TRUE, plain |-> plain]
    BY <1>2, <1>4, <2>1, ReadStep
  <2>3. n # 0
    BY <1>4, <2>2, EmptySeq
  <2>4. PICK j \in at + 1 .. size : j = at + Len(part.plain)
    BY <2>1, <2>2, <2>3
  <2>5. g[j] = h[j]
    OBVIOUS
  <2>6. QED
    BY <1>2, <2>4, <2>5, Zenon DEF Onward
<1>5. QED
  BY <1>1, <1>3, <1>4

LEMMA ReadsOnExists ==
  ASSUME Lengths, NEW f \in Files, NEW bytes, NEW key \in Keys, Readable(f, bytes, key),
         NEW size, size = length[f]
  PROVE  \E g : ReadsOn(g, 0, bytes, key, size)
<1> DEFINE hi == size + MaxLength
           T == {n \in 0 .. hi : \E g : ReadsOn(g, n, bytes, key, size)}
<1>0. size \in Nat /\ hi \in Nat /\ size <= hi /\ MaxLength \in Nat
  BY ContentIs, Sizes
<1>1. hi \in T
  <2> DEFINE g == [at \in hi .. hi |-> [ok |-> TRUE, plain |-> <<>>]]
  <2>1. \A at \in hi .. hi : Onward(g, bytes, key, size, at) = [ok |-> TRUE, plain |-> <<>>]
    BY <1>0 DEF Onward
  <2>2. ReadsOn(g, hi, bytes, key, size)
    <3>1. g = [at \in hi .. hi |-> [ok |-> TRUE, plain |-> <<>>]]
      OBVIOUS
    <3> HIDE DEF g
    <3>2. QED
      BY <2>1, <3>1 DEF ReadsOn
  <2>3. hi \in 0 .. hi
    BY <1>0
  <2> HIDE DEF g, hi
  <2>4. QED
    BY <2>2, <2>3, Zenon
<1>2. ASSUME NEW n \in 0 .. hi - 1, n + 1 \in T
      PROVE  n \in T
  <2>1. PICK h : ReadsOn(h, n + 1, bytes, key, size)
    BY <1>2
  <2> DEFINE g == [at \in n .. hi |-> IF at = n THEN Onward(h, bytes, key, size, n) ELSE h[at]]
  <2>2. n \in Nat /\ n < hi /\ n + 1 .. hi \subseteq n .. hi
    BY <1>0
  <2>3. \A at \in n + 1 .. hi : h[at] = Onward(h, bytes, key, size, at) /\ g[at] = h[at]
    BY <2>1, <2>2 DEF ReadsOn
  <2>4. ASSUME NEW at \in n .. hi
        PROVE  g[at] = Onward(g, bytes, key, size, at)
    <3>1. /\ at \in Nat /\ at + 1 .. size \subseteq n + 1 .. hi
          /\ at # n => at \in n + 1 .. hi
      BY <1>0, <2>2
    <3>2. \A j \in at + 1 .. size : g[j] = h[j]
      BY <2>3, <3>1
    <3>3. g[at] = Onward(h, bytes, key, size, at)
      BY <2>3, <3>1
    <3> HIDE DEF g
    <3>4. QED
      BY <3>1, <3>2, <3>3, OnwardLooksAhead
  <2>5. ReadsOn(g, n, bytes, key, size)
    <3>1. g = [at \in n .. hi |-> g[at]]
      OBVIOUS
    <3> HIDE DEF g
    <3>2. QED
      BY <2>4, <3>1 DEF ReadsOn
  <2>6. n \in 0 .. hi
    BY <1>0, <2>2
  <2> HIDE DEF g, hi
  <2>7. QED
    BY <2>5, <2>6, Zenon
<1>3. 0 .. hi \subseteq T
  <2> HIDE DEF T, hi
  <2>1. QED
    BY <1>0, <1>1, <1>2, Countdown
<1>4. QED
  BY <1>0, <1>3

LEMMA ReadFromIs ==
  ASSUME Lengths, NEW f \in Files, NEW bytes, NEW key \in Keys, Readable(f, bytes, key),
         NEW size, size = length[f], NEW offset
  PROVE  \E g : ReadsOn(g, 0, bytes, key, size) /\ ReadFrom(bytes, key, offset) = g[offset]
<1> DEFINE g == CHOOSE h : ReadsOn(h, 0, bytes, key, size)
<1>1. Opens(bytes, key) /\ SizeOf(bytes) = size
  BY ReadableIs
<1>2. ReadFrom(bytes, key, offset) = g[offset]
  BY <1>1, ZenonT(60) DEF ReadFrom, ReadsOn, Onward
<1>3. ReadsOn(g, 0, bytes, key, size)
  BY ReadsOnExists, Zenon
<1>4. QED
  BY <1>2, <1>3, Zenon

\* Whatever is read is the content, from where the reading starts.
LEMMA ReadFromTrue ==
  ASSUME Lengths, NEW f \in Files, NEW bytes, NEW key \in Keys,
         bytes = Content(f) \/ Sealed(f, bytes),
         NEW offset \in 0 .. MaxLength, ReadFrom(bytes, key, offset).ok
  PROVE  ReadFrom(bytes, key, offset).plain = SubSeq(Content(f), offset + 1, length[f])
<1>0. PICK size \in Nat, c \in Seq(PlainBytes) : size = length[f] /\ c = Content(f) /\ Len(c) = size
  BY ContentIs
<1>1. Readable(f, bytes, key)
  <2>1. CASE bytes = Content(f)
    BY <2>1 DEF Readable
  <2>2. CASE ~Opens(bytes, key)
    BY <2>2 DEF ReadFrom, Refused
  <2>3. QED
    BY <2>1, <2>2 DEF Readable
<1>2. PICK g : ReadsOn(g, 0, bytes, key, size) /\ ReadFrom(bytes, key, offset) = g[offset]
  BY <1>0, <1>1, ReadFromIs
<1> DEFINE hi == size + MaxLength
           Good(at) == g[at].ok => g[at].plain = SubSeq(c, at + 1, size)
           T == {n \in 0 .. hi : Good(n)}
<1>3. hi \in Nat /\ MaxLength \in Nat /\ size <= hi /\ offset \in 0 .. hi
  BY <1>0, Sizes
<1>10. g = [at \in 0 .. hi |-> Onward(g, bytes, key, size, at)]
  BY <1>2 DEF ReadsOn
<1>4. ASSUME NEW at \in 0 .. hi, \A j \in at + 1 .. hi : j \in T
      PROVE  at \in T
  <2>1. at \in Nat /\ g[at] = Onward(g, bytes, key, size, at)
    <3> HIDE DEF hi
    <3>1. QED
      BY <1>3, <1>10, SMTT(30)
  <2>2. CASE at >= size
    <3>1. g[at].plain = <<>>
      BY <2>1, <2>2 DEF Onward
    <3>2. SubSeq(c, at + 1, size) = <<>>
      BY <1>0, <2>1, <2>2, SubSeqEmpty
    <3>3. QED
      BY <3>1, <3>2
  <2>3. CASE ~(at >= size)
    <3>1. SUFFICES ASSUME g[at].ok PROVE g[at].plain = SubSeq(c, at + 1, size)
      OBVIOUS
    <3>2. PICK part : part = ReadAt(bytes, key, at)
      OBVIOUS
    <3>3. /\ part.ok /\ part.plain # <<>> /\ g[at + Len(part.plain)].ok
          /\ g[at].plain = part.plain \o g[at + Len(part.plain)].plain
      <4>1. g[at] = IF ~part.ok \/ part.plain = <<>> THEN Refused
                    ELSE [ok |-> g[at + Len(part.plain)].ok,
                          plain |-> part.plain \o g[at + Len(part.plain)].plain]
        BY <2>1, <2>3, <3>2 DEF Onward
      <4>2. ~Refused.ok
        BY DEF Refused
      <4>3. part.ok /\ part.plain # <<>>
        BY <3>1, <4>1, <4>2, Zenon
      <4>4. g[at] = [ok |-> g[at + Len(part.plain)].ok,
                     plain |-> part.plain \o g[at + Len(part.plain)].plain]
        BY <4>1, <4>3, Zenon
      <4>5. PICK more : more = g[at + Len(part.plain)]
        OBVIOUS
      <4>6. PICK r : r = g[at]
        OBVIOUS
      <4>7. r.ok /\ r = [ok |-> more.ok, plain |-> part.plain \o more.plain]
        BY <3>1, <4>4, <4>5, <4>6, Zenon
      <4>8. r.ok = more.ok /\ r.plain = part.plain \o more.plain
        BY <4>7
      <4>9. QED
        BY <4>3, <4>5, <4>6, <4>7, <4>8
    <3>4. at < length[f]
      BY <1>0, <2>1, <2>3
    <3>5. PICK n \in Nat, plain \in Seq(PlainBytes) :
            /\ at + n <= length[f] /\ Len(plain) = n /\ part = [ok |-> TRUE, plain |-> plain]
            /\ plain = SubSeq(Content(f), at + 1, at + n)
      BY <1>1, <2>1, <3>2, <3>3, <3>4, ReadStep
    <3>6. n # 0
      BY <3>3, <3>5, EmptySeq
    <3>7. PICK j \in at + 1 .. hi : j = at + n
      BY <1>0, <1>3, <2>1, <3>5, <3>6
    <3>8. j \in T
      BY <1>4
    <3>9. g[j].plain = SubSeq(c, j + 1, size) /\ g[at].plain = plain \o g[j].plain
      BY <3>3, <3>5, <3>7, <3>8
    <3>10. SubSeq(c, at + 1, j) \o SubSeq(c, j + 1, size) = SubSeq(c, at + 1, size)
      <4>1. at + 1 \in 1 .. Len(c) + 1 /\ j \in (at + 1) - 1 .. Len(c) /\ size \in j .. Len(c)
        BY <1>0, <2>1, <3>4, <3>5, <3>7
      <4>2. QED
        BY <4>1, ConcatAdjacentSubSeq
    <3>11. QED
      BY <1>0, <3>5, <3>7, <3>9, <3>10
  <2>4. QED
    BY <2>2, <2>3
<1> DEFINE U == {n \in 0 .. hi : \A j \in n .. hi : j \in T}
<1>5. hi \in U
  <2>1. \A j \in hi + 1 .. hi : j \in T
    BY <1>3
  <2>2. hi \in 0 .. hi /\ \A j \in hi .. hi : j = hi
    BY <1>3
  <2> HIDE DEF T
  <2>3. hi \in T
    BY <1>4, <2>1, <2>2
  <2>4. QED
    BY <2>2, <2>3
<1>6. ASSUME NEW n \in 0 .. hi - 1, n + 1 \in U
      PROVE  n \in U
  <2>1. n \in 0 .. hi /\ \A j \in n .. hi : j = n \/ j \in n + 1 .. hi
    BY <1>3
  <2> HIDE DEF T
  <2>2. \A j \in n + 1 .. hi : j \in T
    BY <1>6
  <2>3. n \in T
    BY <1>4, <2>1, <2>2
  <2>4. QED
    BY <2>1, <2>2, <2>3
<1>7. 0 .. hi \subseteq U
  <2> HIDE DEF U, hi
  <2>1. QED
    BY <1>3, <1>5, <1>6, Countdown
<1>8. offset \in T
  <2> HIDE DEF T
  <2>1. 0 \in U /\ offset \in 0 .. hi
    BY <1>3, <1>7
  <2>2. QED
    BY <2>1
<1>9. QED
  BY <1>0, <1>2, <1>8

----------------------------------------------------------------------------
(***************************************************************************)
(* What the command has sealed whole opens with the key it used.           *)
(***************************************************************************)
LEMMA SliceIs ==
  ASSUME NEW c \in Seq(PlainBytes), NEW start \in Nat, NEW n \in Nat, start + n <= Len(c)
  PROVE  SubSeq(c, start + 1, start + n) \in Seq(PlainBytes) /\ Len(SubSeq(c, start + 1, start + n)) = n
<1>1. \A i \in start + 1 .. start + n : c[i] \in PlainBytes
  BY ElementOfSeq, LenProperties
<1>2. QED
  BY <1>1, SubSeqProperties

LEMMA ChunkOpens ==
  ASSUME Lengths, NEW f \in Files, NEW bytes, Sealed(f, bytes), NEW key \in Keys,
         NEW last \in Nat, NEW rest \in 0 .. ChunkSize - 1, WholeBy(f, bytes, key, last, rest),
         NEW i \in 0 .. last, NEW n, n = IF i = last THEN rest ELSE ChunkSize
  PROVE  \E plain \in Seq(PlainBytes) :
           /\ LoadChunk(bytes, key, i) = [ok |-> TRUE, plain |-> plain]
           /\ Len(plain) = n
<1>0. PICK c \in Seq(PlainBytes), l \in Nat : c = Content(f) /\ l = length[f] /\ Len(c) = l
  BY ContentIs
<1>1. PICK start \in Nat, at \in Nat, lastStart \in Nat, lastAt \in Nat :
        /\ start = i * ChunkSize /\ at = HeaderSize + i * SealedSize
        /\ lastStart = last * ChunkSize /\ lastAt = last * SealedSize
  BY Rows, Sizes
<1>2. /\ n \in Nat /\ l = lastStart + rest /\ Len(bytes) = HeaderSize + lastAt + rest + TagSize
  BY <1>0, <1>1, Sizes DEF WholeBy
<1>3. start + n <= l /\ at + n + TagSize <= Len(bytes)
  <2>1. CASE i = last
    BY <1>1, <1>2, <2>1, Sizes
  <2>2. CASE i # last
    <3>1. i \in Nat /\ i < last
      BY <2>2
    <3>2. start + ChunkSize <= lastStart /\ i * SealedSize + SealedSize <= lastAt
      BY <1>1, <3>1, Rows, Sizes
    <3>3. PICK row \in Nat : row = i * SealedSize /\ at = HeaderSize + row
      BY <1>1, <3>1, Rows, Sizes
    <3>4. n = ChunkSize
      BY <2>2
    <3>5. row + SealedSize <= lastAt
      BY <3>2, <3>3
    <3>6. start + ChunkSize <= lastStart
      BY <3>2
    <3> HIDE <1>0, <1>1
    <3>7. QED
      BY <1>2, <3>3, <3>4, <3>5, <3>6, Sizes
  <2>3. QED
    BY <2>1, <2>2
<1>4. PICK plain \in Seq(PlainBytes) : plain = SubSeq(c, start + 1, start + n) /\ Len(plain) = n
  <2>1. start + n <= Len(c)
    BY <1>0, <1>3
  <2>2. SubSeq(c, start + 1, start + n) \in Seq(PlainBytes) /\ Len(SubSeq(c, start + 1, start + n)) = n
    BY <1>2, <2>1, SliceIs
  <2>3. QED
    BY <2>2, Zenon
<1>5. PICK final \in BOOLEAN, salt \in Salts : final = (i = last) /\ salt = bytes[1].salt
  BY SealedIs
<1>6. \A k \in 1 .. n + TagSize : bytes[at + k] = Seal(key, salt, i, final, plain)[k]
  <2>1. InPlace(bytes, key, c, i, final, n)
    <3>1. CASE i = last
      <4>1. final = TRUE /\ n = rest
        BY <1>5, <3>1
      <4>2. QED
        BY <1>0, <3>1, <4>1, Zenon DEF WholeBy
    <3>2. CASE i # last
      <4>1. final = FALSE /\ n = ChunkSize
        BY <1>5, <3>2
      <4>2. i \in 0 .. last - 1
        <5>1. i \in Nat /\ i < last
          BY <3>2
        <5>2. QED
          BY <5>1
      <4>3. QED
        BY <1>0, <4>1, <4>2, Zenon DEF WholeBy
    <3>3. QED
      BY <3>1, <3>2
  <2>2. QED
    BY <1>1, <1>4, <1>5, <2>1, Zenon DEF InPlace
<1>7. PICK sub : sub = SubSeq(bytes, at + 1, at + (n + TagSize))
  OBVIOUS
<1>8. n + TagSize \in Nat \ {0} /\ Len(bytes) \in Nat /\ at \in Nat \ {0}
  <2>1. PICK row \in Nat : at = HeaderSize + row
    <3>1. i * SealedSize \in Nat
      BY Rows, Sizes
    <3>2. QED
      BY <1>1, <3>1, Zenon
  <2>2. at \in Nat \ {0}
    BY <2>1, Sizes
  <2>3. Len(bytes) \in Nat
    BY SealedIs
  <2>4. n + TagSize \in Nat \ {0}
    BY <1>2, Sizes
  <2>5. QED
    BY <2>2, <2>3, <2>4
<1>9. sub = Seal(key, salt, i, final, plain)
  <2>1. \A k \in at + 1 .. at + (n + TagSize) : bytes[k] \in Bytes
    BY <1>3, <1>8, ElementOfSeq, Sizes DEF Sealed
  <2>2. /\ sub \in Seq(Bytes) /\ Len(sub) = n + TagSize
        /\ \A k \in 1 .. n + TagSize : sub[k] = bytes[at + k]
    <3>1. at + 1 \in Int /\ at + (n + TagSize) \in Int
          /\ at + 1 <= at + (n + TagSize)
          /\ at + (n + TagSize) - (at + 1) + 1 = n + TagSize
          /\ \A k \in 1 .. n + TagSize : at + 1 + k - 1 = at + k
      BY <1>8
    <3>2. PICK lo \in Int, hi \in Int : lo = at + 1 /\ hi = at + (n + TagSize)
      BY <3>1
    <3>3. \A k \in lo .. hi : bytes[k] \in Bytes
      BY <2>1, <3>2
    <3>4. /\ SubSeq(bytes, lo, hi) \in Seq(Bytes) /\ Len(SubSeq(bytes, lo, hi)) = n + TagSize
          /\ \A k \in 1 .. n + TagSize : SubSeq(bytes, lo, hi)[k] = bytes[lo + k - 1]
      <4>1. lo <= hi /\ hi - lo + 1 = n + TagSize
        BY <1>8, <3>1, <3>2
      <4>2. QED
        BY <3>3, <4>1, SubSeqProperties
    <3>5. sub = SubSeq(bytes, lo, hi)
      BY <1>7, <3>2
    <3>6. \A k \in 1 .. n + TagSize : lo + k - 1 = at + k
      BY <3>1, <3>2
    <3>7. QED
      BY <3>4, <3>5, <3>6
  <2>3. Seal(key, salt, i, final, plain) \in Seq(Bytes) /\ Len(Seal(key, salt, i, final, plain)) = n + TagSize
    <3>1. i \in Nat
      OBVIOUS
    <3>2. QED
      <4>1. /\ Seal(key, salt, i, final, plain) \in Seq(Bytes)
            /\ Len(Seal(key, salt, i, final, plain)) = Len(plain) + TagSize
        BY <3>1, SealChunk, ZenonT(60)
      <4>2. QED
        BY <1>4, <4>1, Zenon
  <2>4. QED
    BY <1>6, <2>2, <2>3, SeqEqual
<1>10. sub[1].kind = "sealed" /\ sub[1].plain = plain
  <2>1. i \in Nat /\ 1 \in 1 .. Len(plain) + TagSize
    BY <1>4, <1>8
  <2>2. Seal(key, salt, i, final, plain)[1] =
          [kind |-> "sealed", key |-> key, salt |-> salt, index |-> i,
           final |-> final, plain |-> plain, at |-> 1]
    BY <2>1, SealIs, SMTT(30)
  <2>3. QED
    BY <1>9, <2>2
<1>11. Unseal(key, salt, i, final, sub) = [ok |-> TRUE, plain |-> plain]
  BY <1>9, <1>10 DEF Unseal
<1>12. PlainSize(Len(bytes)).chunks = last + 1
  <2>1. Len(bytes) = HeaderSize + last * SealedSize + rest + TagSize
    BY DEF WholeBy
  <2>2. PlainSize(HeaderSize + last * SealedSize + rest + TagSize) =
          [ok |-> TRUE, size |-> last * ChunkSize + rest, chunks |-> last + 1]
    BY PlainSizeOfWhole
  <2>3. PlainSize(Len(bytes)) = [ok |-> TRUE, size |-> last * ChunkSize + rest, chunks |-> last + 1]
    BY <2>1, <2>2, Zenon
  <2>4. QED
    BY <2>3
<1>13. LoadChunk(bytes, key, i) = Unseal(key, salt, i, final, sub)
  <2>1. PICK want : want = n + TagSize
    OBVIOUS
  <2>2. /\ want \in TagSize .. SealedSize /\ at + want <= Len(bytes)
        /\ i \in 0 .. last /\ (last + 1) - 1 = last
    BY <1>2, <1>3, <1>8, <2>1, Sizes
  <2>3. want = IF i = last THEN Len(bytes) - at ELSE SealedSize
    <3>1. CASE i = last
      BY <1>1, <1>2, <1>8, <2>1, <3>1, Sizes
    <3>2. CASE i # last
      BY <2>1, <3>2, Sizes
    <3>3. QED
      BY <3>1, <3>2
  <2>4. sub = SubSeq(bytes, at + 1, at + want)
    BY <1>7, <2>1
  <2>5. ~(i \notin 0 .. (last + 1) - 1 \/ want \notin TagSize .. SealedSize \/ at + want > Len(bytes))
    BY <1>8, <2>2
  <2>6. QED
    BY <1>1, <1>5, <1>12, <2>2, <2>3, <2>4, <2>5, Zenon DEF LoadChunk
<1>14. QED
  BY <1>4, <1>11, <1>13

LEMMA WholeReads ==
  ASSUME Lengths, NEW f \in Files, NEW bytes, Sealed(f, bytes), NEW key \in Keys,
         NEW last \in Nat, NEW rest \in 0 .. ChunkSize - 1, WholeBy(f, bytes, key, last, rest)
  PROVE  /\ Opens(bytes, key) /\ SizeOf(bytes) = length[f]
         /\ \A at \in 0 .. length[f] - 1 :
              ReadAt(bytes, key, at).ok /\ ReadAt(bytes, key, at).plain # <<>>
<1>1. PICK l \in Nat, lastStart \in Nat :
        /\ l = length[f] /\ lastStart = last * ChunkSize /\ l = lastStart + rest
  BY ContentIs, Rows, Sizes DEF WholeBy
<1>2. PICK size : size = PlainSize(Len(bytes))
  OBVIOUS
<1>3. size = [ok |-> TRUE, size |-> l, chunks |-> last + 1]
  <2>1. Len(bytes) = HeaderSize + last * SealedSize + rest + TagSize
    BY DEF WholeBy
  <2>2. PlainSize(HeaderSize + last * SealedSize + rest + TagSize) =
          [ok |-> TRUE, size |-> last * ChunkSize + rest, chunks |-> last + 1]
    BY PlainSizeOfWhole
  <2>3. QED
    BY <1>1, <1>2, <2>1, <2>2, Zenon
<1>4. IsEncrypted(bytes)
  BY SealedIs
<1>5. SizeOf(bytes) = length[f]
  BY <1>1, <1>2, <1>3, <1>4 DEF SizeOf
<1>6. Opens(bytes, key)
  <2>1. last \in 0 .. last /\ size.chunks - 1 = last /\ size.ok
    BY <1>3
  <2>2. PICK n : n = IF last = last THEN rest ELSE ChunkSize
    OBVIOUS
  <2>3. LoadChunk(bytes, key, last).ok
    BY <2>1, <2>2, ChunkOpens
  <2>4. QED
    BY <1>2, <2>1, <2>3 DEF Opens
<1>7. ASSUME NEW at \in 0 .. length[f] - 1
      PROVE  ReadAt(bytes, key, at).ok /\ ReadAt(bytes, key, at).plain # <<>>
  <2>1. at \in Nat /\ at < l
    BY <1>1
  <2>2. PICK index, within, start :
          index = at \div ChunkSize /\ within = at % ChunkSize /\ start = index * ChunkSize
    OBVIOUS
  <2>3. index \in Nat /\ within \in 0 .. ChunkSize - 1 /\ at = start + within /\ start \in Nat
    <3>1. index \in Nat /\ within \in 0 .. ChunkSize - 1 /\ at = start + within
      BY <2>1, <2>2, Sizes, DivModFacts
    <3>2. start \in Nat
      BY <2>2, <3>1, Rows, Sizes
    <3>3. QED
      BY <3>1, <3>2
  <2>4. PICK n : n = IF index = last THEN rest ELSE ChunkSize
    OBVIOUS
  <2>5. index \in 0 .. last /\ within < n /\ n \in Nat
    <3>1. index <= last
      <4>1. SUFFICES ASSUME last < index PROVE FALSE
        BY <2>3
      <4>2. lastStart + ChunkSize <= start
        BY <1>1, <2>2, <2>3, <4>1, Rows, Sizes
      <4>3. QED
        BY <1>1, <2>1, <2>3, <4>2, Sizes
    <3>2. index = last => within < rest
      <4>1. index = last => start = lastStart
        BY <1>1, <2>2
      <4>2. QED
        BY <1>1, <2>1, <2>3, <4>1
    <3>3. QED
      BY <2>3, <2>4, <3>1, <3>2, Sizes
  <2>6. PICK plain \in Seq(PlainBytes) :
          LoadChunk(bytes, key, index) = [ok |-> TRUE, plain |-> plain] /\ Len(plain) = n
    BY <2>4, <2>5, ChunkOpens
  <2>7. at - index * ChunkSize = within
    <3>1. at - start = within
      BY <2>3, Sizes
    <3>2. QED
      BY <2>2, <3>1, Zenon
  <2>8. ReadAt(bytes, key, at) = [ok |-> TRUE, plain |-> SubSeq(plain, within + 1, Len(plain))]
    <3>1. PICK chunk : chunk = LoadChunk(bytes, key, index)
      OBVIOUS
    <3>2. ReadAt(bytes, key, at) =
            IF ~chunk.ok \/ within > Len(chunk.plain) THEN Refused
            ELSE [ok |-> TRUE, plain |-> SubSeq(chunk.plain, within + 1, Len(chunk.plain))]
      BY <1>4, <2>2, <2>7, <3>1, Zenon DEF ReadAt
    <3>3. chunk.ok /\ chunk.plain = plain
      BY <2>6, <3>1
    <3>4. ~(within > Len(plain))
      BY <2>3, <2>5, <2>6
    <3>5. QED
      BY <3>2, <3>3, <3>4, Zenon
  <2>9. SubSeq(plain, within + 1, n) # <<>>
    <3>1. within + 1 \in Int /\ within + 1 <= n /\ n - (within + 1) + 1 # 0
      BY <2>3, <2>5
    <3>2. \A i \in within + 1 .. n : plain[i] \in PlainBytes
      BY <2>3, <2>5, <2>6, ElementOfSeq
    <3>3. Len(SubSeq(plain, within + 1, n)) = n - (within + 1) + 1
      BY <2>5, <3>1, <3>2, SubSeqProperties
    <3>4. Len(<<>>) = 0
      BY EmptySeq
    <3>5. QED
      BY <3>1, <3>3, <3>4
  <2>10. QED
    BY <2>6, <2>8, <2>9
<1>8. QED
  BY <1>5, <1>6, <1>7

\* So a file the command left whole is read to its end.
LEMMA WholeIsRead ==
  ASSUME Lengths, NEW f \in Files, NEW bytes,
         bytes = Content(f) \/ (Sealed(f, bytes) /\ Whole(f, bytes))
  PROVE  \E key \in Keys : Readable(f, bytes, key) /\ ReadFrom(bytes, key, 0).ok
<1>0. PICK size \in Nat : size = length[f]
  BY ContentIs
<1>1. PICK key \in Keys :
        /\ Readable(f, bytes, key)
        /\ \A at \in 0 .. size - 1 :
             ReadAt(bytes, key, at).ok /\ ReadAt(bytes, key, at).plain # <<>>
  <2>1. CASE bytes = Content(f)
    <3>1. PICK key \in Keys : TRUE
      BY VolumeAssumption
    <3>2. ASSUME NEW at \in 0 .. size - 1
          PROVE  ReadAt(bytes, key, at).ok /\ ReadAt(bytes, key, at).plain # <<>>
      <4>1. PICK c \in Seq(PlainBytes) : c = Content(f) /\ Len(c) = size /\ ~IsEncrypted(c)
        BY <1>0, ContentIs
      <4>2. ReadAt(bytes, key, at) = [ok |-> TRUE, plain |-> SubSeq(c, at + 1, size)]
        BY <2>1, <4>1 DEF ReadAt
      <4>3. at + 1 \in Int /\ at + 1 <= size /\ size - (at + 1) + 1 # 0
            /\ \A i \in at + 1 .. size : c[i] \in PlainBytes
        BY <4>1, ElementOfSeq
      <4>4. Len(SubSeq(c, at + 1, size)) = size - (at + 1) + 1
        BY <4>3, SubSeqProperties
      <4>5. SubSeq(c, at + 1, size) # <<>>
        BY <4>3, <4>4, EmptySeq
      <4>6. QED
        BY <4>2, <4>5
    <3>3. QED
      BY <2>1, <3>2 DEF Readable
  <2>2. CASE Sealed(f, bytes) /\ Whole(f, bytes)
    <3>1. PICK key \in Keys, last \in Nat, rest \in 0 .. ChunkSize - 1 :
            WholeBy(f, bytes, key, last, rest)
      BY <2>2 DEF Whole
    <3>2. /\ Opens(bytes, key)
          /\ \A at \in 0 .. length[f] - 1 :
               ReadAt(bytes, key, at).ok /\ ReadAt(bytes, key, at).plain # <<>>
      BY <2>2, <3>1, WholeReads
    <3>3. QED
      BY <1>0, <2>2, <3>2 DEF Readable
  <2>3. QED
    BY <2>1, <2>2
<1>2. PICK g : ReadsOn(g, 0, bytes, key, size) /\ ReadFrom(bytes, key, 0) = g[0]
  BY <1>0, <1>1, ReadFromIs
<1> DEFINE hi == size + MaxLength
           U == {n \in 0 .. hi : \A j \in n .. hi : g[j].ok}
<1>3. hi \in Nat /\ MaxLength \in Nat /\ size <= hi
  BY <1>0, Sizes
<1>4. \A at \in 0 .. hi : g[at] = Onward(g, bytes, key, size, at)
  <2>1. g = [at \in 0 .. hi |-> Onward(g, bytes, key, size, at)]
    BY <1>2 DEF ReadsOn
  <2> HIDE DEF hi
  <2>2. QED
    BY <2>1
<1>5. ASSUME NEW at \in 0 .. hi, at >= size
      PROVE  g[at].ok
  <2>1. Onward(g, bytes, key, size, at) = [ok |-> TRUE, plain |-> <<>>]
    BY <1>5 DEF Onward
  <2>2. QED
    BY <1>4, <2>1
<1>6. ASSUME NEW at \in 0 .. hi, at < size, \A j \in at + 1 .. hi : g[j].ok
      PROVE  g[at].ok
  <2>1. at \in Nat /\ at \in 0 .. size - 1
    BY <1>6
  <2>2. PICK part : part = ReadAt(bytes, key, at)
    OBVIOUS
  <2>3. part.ok /\ part.plain # <<>>
    BY <1>1, <2>1, <2>2
  <2>4. PICK n \in Nat, plain \in Seq(PlainBytes) :
          at + n <= length[f] /\ Len(plain) = n /\ part = [ok |-> TRUE, plain |-> plain]
    BY <1>0, <1>1, <1>6, <2>1, <2>2, <2>3, ReadStep
  <2>5. n # 0
    BY <2>3, <2>4, EmptySeq
  <2>6. at + n \in at + 1 .. hi
    BY <1>0, <1>3, <2>1, <2>4, <2>5
  <2>7. PICK more : more = g[at + Len(part.plain)]
    OBVIOUS
  <2>8. more.ok
    BY <1>6, <2>4, <2>6, <2>7
  <2>9. ~(at >= size)
    BY <1>6, <2>1
  <2>10. Onward(g, bytes, key, size, at) = [ok |-> more.ok, plain |-> part.plain \o more.plain]
    BY <2>2, <2>3, <2>7, <2>9, Zenon DEF Onward
  <2>11. QED
    BY <1>4, <2>8, <2>10
<1>7. hi \in U
  <2>1. \A j \in hi .. hi : j \in 0 .. hi /\ j >= size
    BY <1>0, <1>3
  <2>2. hi \in 0 .. hi
    BY <1>3
  <2>3. QED
    BY <1>5, <2>1, <2>2
<1>8. ASSUME NEW n \in 0 .. hi - 1, n + 1 \in U
      PROVE  n \in U
  <2>1. n \in 0 .. hi /\ \A j \in n .. hi : j = n \/ j \in n + 1 .. hi
    BY <1>3
  <2>2. \A j \in n + 1 .. hi : g[j].ok
    BY <1>8
  <2>3. g[n].ok
    <3>1. n < size \/ n >= size
      BY <1>0, <2>1
    <3> HIDE DEF hi
    <3>2. QED
      BY <1>5, <1>6, <2>1, <2>2, <3>1
  <2>4. QED
    BY <2>1, <2>2, <2>3
<1>9. 0 .. hi \subseteq U
  <2> HIDE DEF U, hi
  <2>1. QED
    BY <1>3, <1>7, <1>8, Countdown
<1>10. g[0].ok
  <2>1. 0 \in U /\ 0 \in 0 .. hi
    BY <1>3, <1>9
  <2>2. QED
    BY <2>1
<1>11. QED
  BY <1>1, <1>2, <1>10

----------------------------------------------------------------------------
(***************************************************************************)
(* The command.  Every file is as it was put there or sealed from that,    *)
(* whole where the disk left it alone; what the run writes is, at every    *)
(* point of it, a part of what it is to be.  The invariant is stated of    *)
(* values, so that of what changes it mentions only the lengths.           *)
(***************************************************************************)
Job == [at : {"off", "walk", "fill", "last", "copy", "install"},
        result : {"none", "failed", "encrypted", "decrypted"},
        encrypting : BOOLEAN, key : Keys, todo : SUBSET Files, file : Files,
        offset : Nat, index : Nat, held : Seq(PlainBytes), temp : Seq(Bytes)]

Volumes == [Files -> [bytes : Seq(Bytes), stamp : {Indexed}]]

Stored(f, bytes, hurt) ==
  \/ bytes = Content(f)
  \/ Sealed(f, bytes) /\ (f \notin hurt => Whole(f, bytes))

\* How far the tree is in the form asked for.
Converted(j, v) ==
  /\ j.at # "off" =>
       j.result = "none" /\ \A f \in Files \ j.todo : IsEncrypted(v[f].bytes) = j.encrypting
  /\ j.result = "encrypted" => \A f \in Files : IsEncrypted(v[f].bytes)
  /\ j.result = "decrypted" => \A f \in Files : ~IsEncrypted(v[f].bytes)

\* The first chunks of a file, none of them the last.
Chunked(f, bytes, key, count) ==
  /\ Sealed(f, bytes)
  /\ Len(bytes) = HeaderSize + count * SealedSize
  /\ \A i \in 0 .. count - 1 : InPlace(bytes, key, Content(f), i, FALSE, ChunkSize)

\* The chunk held back is the next, and whole until the content is at its end.
Holds(j) ==
  /\ j.offset = j.index * ChunkSize + Len(j.held) /\ j.offset <= length[j.file]
  /\ j.held = SubSeq(Content(j.file), j.index * ChunkSize + 1, j.offset)
  /\ j.at = "fill" => Len(j.held) \in {0, ChunkSize}
  /\ j.at = "last" => Len(j.held) < ChunkSize /\ j.offset = length[j.file]

Sealing(j, v) ==
  j.at \in {"fill", "last"} =>
    /\ j.encrypting /\ v[j.file].bytes = Content(j.file)
    /\ Chunked(j.file, j.temp, j.key, j.index) /\ Holds(j)

Copying(j, v) ==
  j.at = "copy" =>
    /\ ~j.encrypting /\ Sealed(j.file, v[j.file].bytes) /\ Opens(v[j.file].bytes, j.key)
    /\ j.offset <= length[j.file] /\ j.temp = SubSeq(Content(j.file), 1, j.offset)

Written(j) ==
  j.at = "install" =>
    IF j.encrypting THEN Sealed(j.file, j.temp) /\ Whole(j.file, j.temp)
    ELSE j.temp = Content(j.file)

Good(j, v, hurt) ==
  /\ j \in Job /\ v \in Volumes
  /\ \A f \in Files : Stored(f, v[f].bytes, hurt)
  /\ Converted(j, v) /\ Sealing(j, v) /\ Copying(j, v) /\ Written(j)

VolumeInv ==
  /\ Lengths /\ runs \in Nat
  /\ \A j, v, hurt : j = job /\ v = volume /\ hurt = damaged => Good(j, v, hurt)

----------------------------------------------------------------------------
(***************************************************************************)
(* What becomes of sealed bytes.                                           *)
(***************************************************************************)
\* One chunk more, of n bytes of the content.
Extended(f, longer, key, count, final, n) ==
  /\ Sealed(f, longer)
  /\ Len(longer) = HeaderSize + count * SealedSize + n + TagSize
  /\ \A i \in 0 .. count - 1 : InPlace(longer, key, Content(f), i, FALSE, ChunkSize)
  /\ InPlace(longer, key, Content(f), count, final, n)

\* Sealing the next piece of the content where the last chunk ended.
LEMMA SealOneMore ==
  ASSUME Lengths, NEW f \in Files, NEW bytes, NEW key \in Keys, NEW count \in Nat,
         NEW final \in BOOLEAN, NEW plain \in Seq(PlainBytes),
         Chunked(f, bytes, key, count), Piece(Content(f), count, final, plain),
         NEW chunk, chunk = Seal(key, bytes[1].salt, count, final, plain),
         NEW longer, longer = bytes \o chunk
  PROVE  Extended(f, longer, key, count, final, Len(plain))
<1>1. PICK salt \in Salts : salt = bytes[1].salt /\ salt[1] = f
  BY SealedIs DEF Chunked
<1>2. PICK row \in Nat, n \in Nat : row = count * SealedSize /\ n = Len(plain)
  BY Rows, Sizes, LenProperties
<1>3. /\ chunk \in Seq(Bytes) /\ Len(chunk) = n + TagSize
      /\ \A k \in 1 .. n + TagSize :
           chunk[k] = [kind |-> "sealed", key |-> key, salt |-> salt, index |-> count,
                       final |-> final, plain |-> plain, at |-> k]
  <2>1. chunk = Seal(key, salt, count, final, plain)
    BY <1>1
  <2>2. /\ Seal(key, salt, count, final, plain) \in Seq(Bytes)
        /\ Len(Seal(key, salt, count, final, plain)) = Len(plain) + TagSize
        /\ \A k \in 1 .. Len(plain) + TagSize :
             Seal(key, salt, count, final, plain)[k] =
               [kind |-> "sealed", key |-> key, salt |-> salt, index |-> count,
                final |-> final, plain |-> plain, at |-> k]
    BY SealChunk
  <2>3. QED
    BY <1>2, <2>1, <2>2, Zenon
<1>4. bytes \in Seq(Bytes) /\ Len(bytes) = HeaderSize + row /\ Len(bytes) \in Nat \ {0}
  BY <1>2, Sizes DEF Chunked, Sealed
<1>5. /\ longer \in Seq(Bytes) /\ Len(longer) = HeaderSize + row + (n + TagSize)
      /\ \A k \in 1 .. HeaderSize + row : longer[k] = bytes[k]
      /\ \A k \in 1 .. n + TagSize : longer[HeaderSize + row + k] = chunk[k]
  <2>1. PICK a \in Nat, b \in Nat : a = Len(bytes) /\ b = Len(chunk) /\ a = HeaderSize + row /\ b = n + TagSize
    BY <1>2, <1>3, <1>4, Sizes
  <2>2. /\ longer \in Seq(Bytes) /\ Len(longer) = a + b
        /\ \A k \in 1 .. a + b : longer[k] = IF k <= a THEN bytes[k] ELSE chunk[k - a]
    <3>1. /\ bytes \o chunk \in Seq(Bytes) /\ Len(bytes \o chunk) = Len(bytes) + Len(chunk)
          /\ \A k \in 1 .. Len(bytes) + Len(chunk) :
               (bytes \o chunk)[k] = IF k <= Len(bytes) THEN bytes[k] ELSE chunk[k - Len(bytes)]
      BY <1>3, <1>4, ConcatProperties, ZenonT(60)
    <3>2. QED
      BY <2>1, <3>1, Zenon
  <2>3. \A k \in 1 .. a : longer[k] = bytes[k]
    BY <2>1, <2>2, SMTT(30)
  <2>4. \A k \in 1 .. b : longer[a + k] = chunk[k]
    <3>1. \A k \in 1 .. b : a + k \in 1 .. a + b /\ ~(a + k <= a) /\ (a + k) - a = k
      BY <2>1
    <3>2. QED
      BY <2>2, <3>1
  <2>5. QED
    BY <2>1, <2>2, <2>3, <2>4
<1>6. longer[1] = bytes[1]
  BY <1>5, Sizes
<1>7. Sealed(f, longer)
  <2>1. Len(longer) >= 1 /\ \E m \in Nat : longer[1] = Header(<<f, m>>)
    <3>1. Len(longer) >= 1
      BY <1>2, <1>5, Sizes
    <3>2. \E m \in Nat : bytes[1] = Header(<<f, m>>)
      BY DEF Chunked, Sealed
    <3>3. QED
      BY <1>6, <3>1, <3>2, Zenon
  <2>2. ASSUME NEW k \in 2 .. Len(longer)
        PROVE  longer[k].kind = "sealed" /\ TrueByte(longer[k])
    <3>1. CASE k <= HeaderSize + row
      <4>1. k \in 1 .. HeaderSize + row /\ k \in 2 .. Len(bytes)
        BY <1>2, <1>4, <3>1, Sizes
      <4>2. QED
        BY <1>5, <4>1 DEF Chunked, Sealed
    <3>2. CASE ~(k <= HeaderSize + row)
      <4>1. PICK m \in 1 .. n + TagSize : k = HeaderSize + row + m
        <5>1. PICK a \in Nat, b \in Nat : a = HeaderSize + row /\ b = n + TagSize
          <6>1. HeaderSize + row \in Nat /\ n + TagSize \in Nat
            BY Sizes
          <6>2. QED
            BY <6>1, Zenon
        <5>2. k \in 2 .. a + b /\ ~(k <= a)
          BY <1>5, <3>2, <5>1
        <5>3. k - a \in 1 .. b /\ k = a + (k - a)
          BY <5>2
        <5>4. QED
          BY <5>1, <5>3, Zenon
      <4>2. longer[k] = [kind |-> "sealed", key |-> key, salt |-> salt, index |-> count,
                         final |-> final, plain |-> plain, at |-> m]
        BY <1>3, <1>5, <4>1
      <4>3. QED
        BY <1>1, <4>2 DEF TrueByte
    <3>3. QED
      BY <3>1, <3>2
  <2>3. QED
    BY <1>5, <2>1, <2>2 DEF Sealed
<1>8. ASSUME NEW i \in 0 .. count - 1
      PROVE  InPlace(longer, key, Content(f), i, FALSE, ChunkSize)
  <2>1. InPlace(bytes, key, Content(f), i, FALSE, ChunkSize)
    BY DEF Chunked
  <2>2. PICK before \in Nat : before = i * SealedSize /\ before + SealedSize <= row
    <3>1. i \in Nat /\ i < count
      OBVIOUS
    <3>2. QED
      BY <1>2, <3>1, Rows, Sizes
  <2>3. ASSUME NEW k \in 1 .. ChunkSize + TagSize
        PROVE  HeaderSize + before + k \in 1 .. HeaderSize + row
    <3>1. k \in 1 .. SealedSize /\ before + SealedSize <= row
      BY <2>2, Sizes
    <3>2. QED
      BY <3>1, Sizes
  <2>4. \A k \in 1 .. ChunkSize + TagSize :
          longer[HeaderSize + before + k] = bytes[HeaderSize + before + k]
    BY <1>5, <2>3
  <2>5. QED
    BY <1>6, <2>1, <2>2, <2>4, Zenon DEF InPlace
<1>9. InPlace(longer, key, Content(f), count, final, Len(plain))
  <2>1. plain = SubSeq(Content(f), count * ChunkSize + 1, count * ChunkSize + n)
    BY <1>2 DEF Piece
  <2>2. chunk = Seal(key, longer[1].salt, count, final,
                     SubSeq(Content(f), count * ChunkSize + 1, count * ChunkSize + n))
    BY <1>6, <2>1, Zenon
  <2>3. QED
    BY <1>2, <1>5, <2>2, Zenon DEF InPlace
<1>10. Len(longer) = HeaderSize + count * SealedSize + Len(plain) + TagSize
  <2>1. Len(longer) = HeaderSize + row + n + TagSize
    BY <1>2, <1>5, Sizes
  <2>2. QED
    BY <1>2, <2>1, Zenon
<1>11. QED
  BY <1>7, <1>8, <1>9, <1>10 DEF Extended

\* Cut off behind the header, or with bytes of another sealed file.
LEMMA CutStaysSealed ==
  ASSUME NEW f \in Files, NEW bytes, Sealed(f, bytes), NEW n \in HeaderSize .. Len(bytes) - 1
  PROVE  Sealed(f, SubSeq(bytes, 1, n))
<1>1. bytes \in Seq(Bytes) /\ Len(bytes) \in Nat /\ n \in Nat /\ n >= 1 /\ n <= Len(bytes)
  BY SealedIs, Sizes DEF Sealed
<1>2. PICK cut : cut = SubSeq(bytes, 1, n)
  OBVIOUS
<1>3. cut \in Seq(Bytes) /\ Len(cut) = n /\ \A k \in 1 .. n : cut[k] = bytes[k]
  <2>1. \A k \in 1 .. n : bytes[k] \in Bytes
    BY <1>1, ElementOfSeq
  <2>2. QED
    BY <1>1, <1>2, <2>1, SubSeqProperties
<1>4. cut[1] = bytes[1] /\ \A k \in 2 .. n : cut[k] = bytes[k] /\ k \in 2 .. Len(bytes)
  BY <1>1, <1>3
<1>5. \E m \in Nat : cut[1] = Header(<<f, m>>)
  BY <1>4 DEF Sealed
<1>6. \A k \in 2 .. Len(cut) : cut[k].kind = "sealed" /\ TrueByte(cut[k])
  <2>1. \A k \in 2 .. Len(bytes) : bytes[k].kind = "sealed" /\ TrueByte(bytes[k])
    BY DEF Sealed
  <2>2. QED
    BY <1>3, <1>4, <2>1, Zenon
<1>7. QED
  BY <1>1, <1>2, <1>3, <1>5, <1>6 DEF Sealed

LEMMA MixStaysSealed ==
  ASSUME NEW f \in Files, NEW g \in Files, NEW to, NEW from, Sealed(f, to), Sealed(g, from),
         NEW mixed, mixed \in [DOMAIN to -> Bytes],
         mixed[1] = to[1],
         \A k \in 2 .. Len(to) :
           mixed[k] = to[k] \/ \E m \in 2 .. Len(from) : mixed[k] = from[m]
  PROVE  Sealed(f, mixed)
<1>1. to \in Seq(Bytes) /\ Len(to) \in Nat \ {0} /\ DOMAIN to = 1 .. Len(to)
  BY SealedIs, LenProperties DEF Sealed
<1>2. mixed \in Seq(Bytes) /\ Len(mixed) = Len(to)
  BY <1>1, SeqOf
<1>3. QED
  <2>1. /\ \A k \in 2 .. Len(to) : to[k].kind = "sealed" /\ TrueByte(to[k])
        /\ \A k \in 2 .. Len(from) : from[k].kind = "sealed" /\ TrueByte(from[k])
        /\ \E m \in Nat : to[1] = Header(<<f, m>>)
    BY DEF Sealed
  <2>2. \A k \in 2 .. Len(mixed) : mixed[k].kind = "sealed" /\ TrueByte(mixed[k])
    BY <1>2, <2>1, Zenon
  <2>3. \E m \in Nat : mixed[1] = Header(<<f, m>>)
    BY <2>1, Zenon
  <2>4. QED
    BY <1>1, <1>2, <2>2, <2>3 DEF Sealed

----------------------------------------------------------------------------
(***************************************************************************)
(* The steps, each on the values of the variables.                         *)
(***************************************************************************)
\* No step changes what was put into the files.
LEMMA GoodStays ==
  ASSUME Lengths, length' = length, runs' \in Nat,
         NEW j, NEW v, NEW hurt, j = job', v = volume', hurt = damaged', Good(j, v, hurt)
  PROVE  VolumeInv'
<1>1. Lengths'
  BY DEF Lengths
<1>2. Good(j, v, hurt)'
  BY ZenonT(60) DEF Good, Stored, Converted, Sealing, Copying, Written, Holds, Chunked, Whole, WholeBy,
         Sealed, TrueByte, Content
<1>3. QED
  BY <1>1, <1>2 DEF VolumeInv

LEMMA GoodNow ==
  ASSUME VolumeInv
  PROVE  Lengths /\ runs \in Nat /\ Good(job, volume, damaged)
BY DEF VolumeInv

LEMMA FormTells ==
  ASSUME Lengths, NEW f \in Files, NEW bytes, NEW hurt, Stored(f, bytes, hurt)
  PROVE  /\ IsEncrypted(bytes) => Sealed(f, bytes)
         /\ ~IsEncrypted(bytes) => bytes = Content(f)
BY ContentIs, SealedIs DEF Stored

LEMMA NoJobIs == NoJob \in Job /\ NoJob.at = "off" /\ NoJob.result = "none"
<1>1. PICK f \in Files, key \in Keys : NoJob.file = f /\ NoJob.key = key
  BY VolumeAssumption DEF NoJob
<1>2. <<>> \in Seq(PlainBytes) /\ <<>> \in Seq(Bytes)
  BY EmptySeq
<1>3. QED
  BY <1>1, <1>2 DEF NoJob, Job

\* Nothing runs, before the first run or after one.
LEMMA IdleIsGood ==
  ASSUME NEW v \in Volumes, NEW hurt, \A f \in Files : Stored(f, v[f].bytes, hurt),
         NEW result \in {"none", "failed", "encrypted", "decrypted"},
         result = "encrypted" => \A f \in Files : IsEncrypted(v[f].bytes),
         result = "decrypted" => \A f \in Files : ~IsEncrypted(v[f].bytes),
         NEW j, j = [NoJob EXCEPT !.result = result]
  PROVE  Good(j, v, hurt)
<1>1. j \in Job /\ j.at = "off" /\ j.result = result
  BY NoJobIs DEF Job
<1>2. QED
  BY <1>1 DEF Good, Converted, Sealing, Copying, Written

LEMMA BegunIsGood ==
  ASSUME NEW j, NEW v, NEW hurt, Good(j, v, hurt), NEW encrypting \in BOOLEAN, NEW key \in Keys,
         NEW k, k = [NoJob EXCEPT !.at = "walk", !.encrypting = encrypting, !.key = key,
                                  !.todo = Files]
  PROVE  Good(k, v, hurt)
<1>1. k \in Job /\ k.at = "walk" /\ k.result = "none" /\ k.todo = Files
  BY NoJobIs DEF Job
<1>2. QED
  BY <1>1 DEF Good, Converted, Sealing, Copying, Written

LEMMA SkippedIsGood ==
  ASSUME NEW j, NEW v, NEW hurt, Good(j, v, hurt), j.at = "walk", NEW f \in Files,
         IsEncrypted(v[f].bytes) = j.encrypting, NEW k, k = [j EXCEPT !.todo = @ \ {f}]
  PROVE  Good(k, v, hurt)
<1>1. /\ k \in Job /\ k.at = "walk" /\ k.result = j.result /\ k.todo = j.todo \ {f}
      /\ k.encrypting = j.encrypting
  BY DEF Good, Job
<1>2. QED
  BY <1>1 DEF Good, Converted, Sealing, Copying, Written

\* The disk at work on a sealed file, while nothing runs.
LEMMA DamagedIsGood ==
  ASSUME Lengths, NEW j, NEW v, NEW hurt, Good(j, v, hurt), j.at = "off", NEW f \in Files,
         IsEncrypted(v[f].bytes), NEW bytes, Sealed(f, bytes),
         NEW w, w = [v EXCEPT ![f].bytes = bytes]
  PROVE  Good(j, w, hurt \cup {f})
<1>1. IsEncrypted(bytes) /\ bytes \in Seq(Bytes)
  BY SealedIs DEF Sealed
<1>2. /\ w \in Volumes /\ w[f].bytes = bytes
      /\ \A g \in Files : g # f => w[g] = v[g]
  BY <1>1 DEF Good, Volumes
<1>3. \A g \in Files : IsEncrypted(w[g].bytes) <=> IsEncrypted(v[g].bytes)
  <2>1. ASSUME NEW g \in Files, g # f PROVE w[g].bytes = v[g].bytes
    BY <1>2, <2>1
  <2>2. QED
    BY <1>1, <1>2, <2>1, Zenon
<1>4. ASSUME NEW g \in Files
      PROVE  Stored(g, w[g].bytes, hurt \cup {f})
  <2>1. CASE g = f
    BY <1>2, <2>1 DEF Stored
  <2>2. CASE g # f
    BY <1>2, <2>2 DEF Good, Stored
  <2>3. QED
    BY <2>1, <2>2
<1>5. Converted(j, w)
  BY <1>3 DEF Good, Converted
<1>6. QED
  BY <1>2, <1>4, <1>5 DEF Good, Sealing, Copying, Written

\* A file is opened for the run: the header is the first part of what it writes.
LEMMA OpenedIsGood ==
  ASSUME Lengths, runs \in Nat, NEW j, NEW v, NEW hurt, Good(j, v, hurt), j.at = "walk",
         NEW f \in Files, IsEncrypted(v[f].bytes) # j.encrypting, Opens(v[f].bytes, j.key),
         NEW k, k = [j EXCEPT !.at = IF j.encrypting THEN "fill" ELSE "copy", !.file = f,
                              !.offset = 0, !.index = 0, !.held = <<>>,
                              !.temp = IF j.encrypting THEN <<Header(<<f, runs>>)>> ELSE <<>>]
  PROVE  Good(k, v, hurt)
<1>1. <<>> \in Seq(PlainBytes) /\ <<>> \in Seq(Bytes) /\ Len(<<>>) = 0
  BY EmptySeq
<1>2. PICK header : header = Header(<<f, runs>>)
  OBVIOUS
<1>3. header \in Bytes /\ <<header>> \in Seq(Bytes) /\ Len(<<header>>) = 1 /\ <<header>>[1] = header
  <2>1. header \in Bytes
    BY <1>2 DEF Header, Bytes, Salts
  <2>2. QED
    BY <2>1
<1>4. j \in Job /\ v \in Volumes /\ Stored(f, v[f].bytes, hurt)
  BY DEF Good
<1>5. CASE j.encrypting
  <2>1. /\ k.at = "fill" /\ k.file = f /\ k.offset = 0 /\ k.index = 0 /\ k.held = <<>>
        /\ k.temp = <<header>> /\ k.encrypting = j.encrypting /\ k.todo = j.todo
        /\ k.result = j.result /\ k.key = j.key
    BY <1>2, <1>4, <1>5 DEF Job
  <2>2. k \in Job
    BY <1>1, <1>2, <1>3, <1>4, <1>5 DEF Job
  <2>3. v[f].bytes = Content(f)
    BY <1>4, <1>5, FormTells
  <2>4. Sealed(f, <<header>>)
    BY <1>2, <1>3 DEF Sealed
  <2>5. Len(<<header>>) = HeaderSize + 0 * SealedSize
    BY <1>3, Rows, Sizes
  <2>6. Chunked(f, <<header>>, j.key, 0)
    BY <2>4, <2>5 DEF Chunked
  <2>7. Holds(k)
    <3>1. 0 * ChunkSize = 0 /\ length[f] \in Nat /\ Content(f) \in Seq(PlainBytes)
      BY Rows, Sizes, ContentIs
    <3>2. SubSeq(Content(f), 0 + 1, 0) = <<>>
      BY SubSeqEmpty
    <3>3. QED
      BY <1>1, <2>1, <3>1, <3>2 DEF Holds
  <2>8. Sealing(k, v)
    BY <1>5, <2>1, <2>3, <2>6, <2>7 DEF Sealing
  <2>9. Converted(k, v)
    BY <2>1 DEF Good, Converted
  <2>10. QED
    BY <2>1, <2>2, <2>8, <2>9 DEF Good, Copying, Written
<1>6. CASE ~j.encrypting
  <2>1. /\ k.at = "copy" /\ k.file = f /\ k.offset = 0 /\ k.temp = <<>>
        /\ k.encrypting = j.encrypting /\ k.todo = j.todo /\ k.result = j.result /\ k.key = j.key
    BY <1>4, <1>6 DEF Job
  <2>2. k \in Job
    BY <1>1, <1>4, <1>6 DEF Job
  <2>3. Sealed(f, v[f].bytes)
    <3>1. IsEncrypted(v[f].bytes)
      BY <1>4, <1>6 DEF Job, IsEncrypted
    <3>2. QED
      BY <1>4, <3>1, FormTells
  <2>4. length[f] \in Nat /\ SubSeq(Content(f), 1, 0) = <<>>
    BY ContentIs, SubSeqEmpty
  <2>5. Copying(k, v)
    BY <1>6, <2>1, <2>3, <2>4 DEF Copying
  <2>6. Converted(k, v)
    BY <2>1 DEF Good, Converted
  <2>7. QED
    BY <2>1, <2>2, <2>5, <2>6 DEF Good, Sealing, Written
<1>7. QED
  BY <1>5, <1>6

\* The piece held back, as the chunk it is to become.
LEMMA HeldIsPiece ==
  ASSUME Lengths, NEW j \in Job, Holds(j), NEW final \in BOOLEAN,
         final => j.at = "last", ~final => Len(j.held) = ChunkSize
  PROVE  Piece(Content(j.file), j.index, final, j.held)
<1>1. /\ j.file \in Files /\ j.index \in Nat /\ j.held \in Seq(PlainBytes) /\ j.offset \in Nat
      /\ Len(j.held) \in Nat
  BY LenProperties DEF Job
<1>2. Len(Content(j.file)) = length[j.file]
  BY <1>1, ContentIs
<1>3. Len(j.held) \in 0 .. ChunkSize /\ (final => Len(j.held) < ChunkSize)
  <2>1. j.at = "last" => Len(j.held) < ChunkSize
    BY DEF Holds
  <2>2. QED
    BY <1>1, <2>1, Sizes
<1>4. /\ j.offset = j.index * ChunkSize + Len(j.held) /\ j.offset <= length[j.file]
      /\ j.held = SubSeq(Content(j.file), j.index * ChunkSize + 1, j.offset)
      /\ final => j.offset = length[j.file]
  BY DEF Holds
<1>5. PICK at, n, l, c : at = j.offset /\ n = j.index * ChunkSize /\ l = Len(j.held) /\ c = Content(j.file)
  OBVIOUS
<1>6. /\ n + l <= Len(c) /\ j.held = SubSeq(c, n + 1, n + l)
      /\ final => n + l = Len(c)
  BY <1>2, <1>4, <1>5, Zenon
<1>7. QED
  BY <1>1, <1>3, <1>5, <1>6, Zenon DEF Piece

\* One turn of the loop: what was held is sealed, and the next piece is held.
LEMMA FilledIsGood ==
  ASSUME Lengths, NEW j, NEW v, NEW hurt, Good(j, v, hurt), j.at = "fill",
         NEW source, source = v[j.file].bytes, NEW n, n = Lesser(ChunkSize, Len(source) - j.offset),
         NEW k, k = [j EXCEPT
           !.temp = IF j.held # <<>> THEN @ \o Seal(j.key, j.temp[1].salt, j.index, FALSE, j.held)
                    ELSE @,
           !.index = IF j.held # <<>> THEN @ + 1 ELSE @,
           !.held = SubSeq(source, j.offset + 1, j.offset + n),
           !.offset = @ + n,
           !.at = IF n < ChunkSize THEN "last" ELSE "fill"]
  PROVE  Good(k, v, hurt)
<1>1. /\ j \in Job /\ v \in Volumes /\ j.encrypting /\ source = Content(j.file)
      /\ Chunked(j.file, j.temp, j.key, j.index) /\ Holds(j)
  BY DEF Good, Sealing
<1>2. PICK f \in Files, key \in Keys, index \in Nat, offset \in Nat, held \in Seq(PlainBytes),
           temp \in Seq(Bytes) :
        /\ f = j.file /\ key = j.key /\ index = j.index /\ offset = j.offset /\ held = j.held
        /\ temp = j.temp
  BY <1>1 DEF Job
<1>3. PICK c \in Seq(PlainBytes), l \in Nat : c = Content(f) /\ l = length[f] /\ Len(c) = l /\ source = c
  BY <1>1, <1>2, ContentIs
<1>4. PICK start \in Nat, h \in Nat : start = index * ChunkSize /\ h = Len(held)
  BY Rows, Sizes, LenProperties
<1>5. offset = start + h /\ offset <= l /\ h \in {0, ChunkSize}
  BY <1>1, <1>2, <1>3, <1>4, Zenon DEF Holds
<1>6. n \in 0 .. ChunkSize /\ n \in Nat /\ offset + n <= l /\ (n < ChunkSize => offset + n = l)
  <2>1. PICK left \in Nat : left = l - offset
    BY <1>5
  <2>2. n = Lesser(ChunkSize, left)
    BY <1>2, <1>3, <2>1
  <2>3. n = IF ChunkSize < left THEN ChunkSize ELSE left
    BY <2>2, Zenon DEF Lesser
  <2>4. offset + left = l
    BY <1>5, <2>1
  <2>5. QED
    BY <2>3, <2>4, Sizes, SMTT(30)
<1>7. PICK next \in Seq(PlainBytes) : next = SubSeq(c, offset + 1, offset + n) /\ Len(next) = n
  BY <1>3, <1>6, SliceIs, ZenonT(60)
<1>8. PICK seals \in BOOLEAN : seals = (held # <<>>) /\ (seals => h = ChunkSize) /\ (~seals => h = 0)
  BY <1>4, <1>5, EmptySeq
<1>9. PICK more, longer :
        /\ more = IF seals THEN index + 1 ELSE index
        /\ longer = IF seals THEN temp \o Seal(key, temp[1].salt, index, FALSE, held) ELSE temp
  OBVIOUS
<1>10. more \in Nat /\ more * ChunkSize = offset
  <2>1. CASE seals
    <3>1. more = index + 1 /\ (index + 1) * ChunkSize = start + ChunkSize
      BY <1>4, <1>9, <2>1, Rows, Sizes
    <3>2. start + ChunkSize = offset
      BY <1>5, <1>8, <2>1
    <3>3. QED
      BY <3>1, <3>2
  <2>2. CASE ~seals
    BY <1>4, <1>5, <1>8, <1>9, <2>2
  <2>3. QED
    BY <2>1, <2>2
<1>11. Chunked(f, longer, key, more)
  <2>1. CASE seals
    <3>1. Piece(Content(j.file), j.index, FALSE, j.held)
      BY <1>1, <1>2, <1>4, <1>8, <2>1, HeldIsPiece
    <3>2. PICK chunk : chunk = Seal(key, temp[1].salt, index, FALSE, held)
      OBVIOUS
    <3>3. longer = temp \o chunk
      BY <1>9, <2>1, <3>2
    <3>4. Piece(Content(f), index, FALSE, held) /\ Chunked(f, temp, key, index)
      BY <1>1, <1>2, <3>1
    <3>5. /\ Sealed(f, longer)
          /\ Len(longer) = HeaderSize + index * SealedSize + Len(held) + TagSize
          /\ \A i \in 0 .. index - 1 : InPlace(longer, key, Content(f), i, FALSE, ChunkSize)
          /\ InPlace(longer, key, Content(f), index, FALSE, Len(held))
      <4>1. PICK final \in BOOLEAN : final = FALSE
        OBVIOUS
      <4>2. Piece(Content(f), index, final, held) /\ chunk = Seal(key, temp[1].salt, index, final, held)
        BY <3>2, <3>4, <4>1, Zenon
      <4>3. Extended(f, longer, key, index, final, Len(held))
        BY <3>3, <3>4, <4>2, SealOneMore
      <4>4. QED
        BY <4>1, <4>3, Zenon DEF Extended
    <3>6. Len(longer) = HeaderSize + more * SealedSize
      <4>1. PICK row \in Nat : row = index * SealedSize /\ more * SealedSize = row + SealedSize
        BY <1>9, <2>1, Rows, Sizes, SMTT(30)
      <4>2. Len(longer) = HeaderSize + row + ChunkSize + TagSize
        BY <1>4, <1>8, <2>1, <3>5, <4>1, Zenon
      <4>3. HeaderSize + row + ChunkSize + TagSize = HeaderSize + (row + SealedSize)
        BY Sizes, SMTT(30)
      <4>4. QED
        BY <4>1, <4>2, <4>3, Zenon
    <3>7. \A i \in 0 .. more - 1 : InPlace(longer, key, Content(f), i, FALSE, ChunkSize)
      <4>1. Len(held) = ChunkSize
        BY <1>4, <1>8, <2>1
      <4>2. \A i \in 0 .. more - 1 : i \in 0 .. index - 1 \/ i = index
        BY <1>9, <2>1
      <4>3. QED
        BY <3>5, <4>1, <4>2, Zenon
    <3>8. QED
      BY <3>5, <3>6, <3>7 DEF Chunked
  <2>2. CASE ~seals
    BY <1>1, <1>2, <1>9, <2>2
  <2>3. QED
    BY <2>1, <2>2
<1>12. /\ k.temp = longer /\ k.index = more /\ k.held = next /\ k.offset = offset + n
       /\ k.at = IF n < ChunkSize THEN "last" ELSE "fill"
       /\ k.file = f /\ k.key = key /\ k.encrypting = j.encrypting /\ k.todo = j.todo
       /\ k.result = j.result
  BY <1>1, <1>2, <1>3, <1>7, <1>8, <1>9 DEF Job
<1>13. k \in Job
  <2>1. longer \in Seq(Bytes) /\ offset + n \in Nat
    BY <1>6, <1>11 DEF Chunked, Sealed
  <2>2. k \in [at : {"off", "walk", "fill", "last", "copy", "install"},
               result : {"none", "failed", "encrypted", "decrypted"},
               encrypting : BOOLEAN, key : Keys, todo : SUBSET Files, file : Files,
               offset : Nat, index : Nat, held : Seq(PlainBytes), temp : Seq(Bytes)]
    BY <1>1, <1>2, <1>3, <1>7, <1>8, <1>9, <1>10, <2>1 DEF Job
  <2>3. QED
    BY <2>2 DEF Job
<1>14. Holds(k)
  <2>1. k.offset = more * ChunkSize + Len(next) /\ k.held = SubSeq(c, more * ChunkSize + 1, k.offset)
    BY <1>7, <1>10, <1>12
  <2>2. /\ k.offset <= l
        /\ k.at = "fill" => Len(next) \in {0, ChunkSize}
        /\ k.at = "last" => Len(next) < ChunkSize /\ k.offset = l
    <3>1. Len(next) = n /\ k.offset = offset + n /\ k.at = IF n < ChunkSize THEN "last" ELSE "fill"
      BY <1>7, <1>12
    <3>2. n < ChunkSize \/ n = ChunkSize
      BY <1>6, Sizes
    <3>3. QED
      BY <1>6, <3>1, <3>2
  <2>3. QED
    BY <1>3, <1>12, <2>1, <2>2, Zenon DEF Holds
<1>15. Sealing(k, v)
  BY <1>1, <1>2, <1>3, <1>11, <1>12, <1>14 DEF Sealing
<1>16. Converted(k, v)
  BY <1>12 DEF Good, Converted
<1>17. k.at \in {"fill", "last"}
  BY <1>12
<1>18. QED
  BY <1>1, <1>13, <1>15, <1>16, <1>17 DEF Good, Copying, Written

LEMMA LastIsGood ==
  ASSUME Lengths, NEW j, NEW v, NEW hurt, Good(j, v, hurt), j.at = "last",
         NEW k, k = [j EXCEPT !.temp = @ \o Seal(j.key, j.temp[1].salt, j.index, TRUE, j.held),
                              !.at = "install"]
  PROVE  Good(k, v, hurt)
<1>1. /\ j \in Job /\ j.encrypting /\ Holds(j)
      /\ Chunked(j.file, j.temp, j.key, j.index)
  BY DEF Good, Sealing
<1>2. PICK f \in Files, key \in Keys, index \in Nat, offset \in Nat, held \in Seq(PlainBytes),
           temp \in Seq(Bytes) :
        /\ f = j.file /\ key = j.key /\ index = j.index /\ offset = j.offset /\ held = j.held
        /\ temp = j.temp
  BY <1>1 DEF Job
<1>3. PICK final \in BOOLEAN : final = TRUE
  OBVIOUS
<1>4. Piece(Content(f), index, final, held)
  BY <1>1, <1>2, <1>3, HeldIsPiece
<1>5. PICK chunk, longer : chunk = Seal(key, temp[1].salt, index, final, held) /\ longer = temp \o chunk
  OBVIOUS
<1>6. Extended(f, longer, key, index, final, Len(held))
  <2>1. Chunked(f, temp, key, index)
    BY <1>1, <1>2
  <2>2. QED
    BY <1>4, <1>5, <2>1, SealOneMore
<1>7. Sealed(f, longer) /\ Whole(f, longer)
  <2>1. /\ Sealed(f, longer)
        /\ Len(longer) = HeaderSize + index * SealedSize + Len(held) + TagSize
        /\ \A i \in 0 .. index - 1 : InPlace(longer, key, Content(f), i, FALSE, ChunkSize)
        /\ InPlace(longer, key, Content(f), index, TRUE, Len(held))
    BY <1>3, <1>6, Zenon DEF Extended
  <2>2. length[f] = index * ChunkSize + Len(held) /\ Len(held) < ChunkSize
    BY <1>1, <1>2 DEF Holds
  <2>3. PICK rest \in 0 .. ChunkSize - 1 : rest = Len(held)
    BY <2>2, Sizes, LenProperties, SMTT(30)
  <2>4. WholeBy(f, longer, key, index, rest)
    BY <2>1, <2>2, <2>3, Zenon DEF WholeBy
  <2>5. QED
    BY <2>1, <2>4, Zenon DEF Whole
<1>8. /\ k.temp = longer /\ k.at = "install" /\ k.file = f /\ k.encrypting = j.encrypting
      /\ k.todo = j.todo /\ k.result = j.result
  BY <1>1, <1>2, <1>3, <1>5 DEF Job
<1>9. k \in Job
  <2>1. longer \in Seq(Bytes)
    BY <1>7 DEF Sealed
  <2>2. QED
    BY <1>1, <1>2, <1>3, <1>5, <2>1 DEF Job
<1>10. Converted(k, v)
  BY <1>1, <1>8 DEF Good, Converted
<1>11. Written(k)
  BY <1>1, <1>7, <1>8 DEF Written
<1>12. QED
  BY <1>8, <1>9, <1>10, <1>11 DEF Good, Sealing, Copying

\* The copy out of a sealed file has all of it, or a read more of it.
LEMMA CopiedIsGood ==
  ASSUME Lengths, NEW j, NEW v, NEW hurt, Good(j, v, hurt), j.at = "copy",
         NEW bytes, bytes = v[j.file].bytes, NEW part, part = ReadAt(bytes, j.key, j.offset),
         j.offset >= SizeOf(bytes) \/ part.ok,
         NEW k, k = IF j.offset >= SizeOf(bytes) THEN [j EXCEPT !.at = "install"]
                    ELSE [j EXCEPT !.temp = @ \o part.plain, !.offset = @ + Len(part.plain)]
  PROVE  Good(k, v, hurt)
<1>1. /\ j \in Job /\ ~j.encrypting /\ Sealed(j.file, bytes) /\ Opens(bytes, j.key)
      /\ j.offset <= length[j.file] /\ j.temp = SubSeq(Content(j.file), 1, j.offset)
  BY DEF Good, Copying
<1>2. PICK f \in Files, key \in Keys, offset \in Nat, temp \in Seq(Bytes) :
        f = j.file /\ key = j.key /\ offset = j.offset /\ temp = j.temp
  BY <1>1 DEF Job
<1>3. PICK c \in Seq(PlainBytes), l \in Nat :
        c = Content(f) /\ l = length[f] /\ Len(c) = l /\ c \in Seq(Bytes)
  BY ContentIs
<1>4. Sealed(f, bytes) /\ SizeOf(bytes) = l /\ offset <= l /\ temp = SubSeq(c, 1, offset)
  BY <1>1, <1>2, <1>3, OpensTrue
<1>5. CASE offset >= l
  <2>1. k = [j EXCEPT !.at = "install"]
    BY <1>2, <1>4, <1>5
  <2>2. /\ k \in Job /\ k.at = "install" /\ k.temp = temp /\ k.file = f
        /\ k.encrypting = j.encrypting /\ k.todo = j.todo /\ k.result = j.result
    BY <1>1, <1>2, <2>1 DEF Job
  <2>3. offset = l
    BY <1>4, <1>5
  <2>4. temp = c
    <3>1. SubSeq(c, 1, Len(c)) = c
      BY <1>3, SubSeqFull
    <3>2. QED
      BY <1>3, <1>4, <2>3, <3>1
  <2>5. Written(k)
    BY <1>1, <1>3, <2>2, <2>4 DEF Written
  <2>6. Converted(k, v)
    BY <2>2 DEF Good, Converted
  <2>7. QED
    BY <2>2, <2>5, <2>6 DEF Good, Sealing, Copying
<1>6. CASE ~(offset >= l)
  <2>1. part.ok /\ part = ReadAt(bytes, key, offset)
    BY <1>2, <1>4, <1>6
  <2>2. PICK n \in Nat :
          offset + n <= l /\ part = [ok |-> TRUE, plain |-> SubSeq(c, offset + 1, offset + n)]
    <3>1. Continues(f, offset, ReadAt(bytes, key, offset))
      <4>1. ReadAt(bytes, key, offset).ok
        BY <2>1
      <4>2. QED
        BY <1>4, <4>1, ReadTrue
    <3>2. QED
      BY <1>3, <2>1, <3>1, Zenon DEF Continues
  <2>3. PICK plain : plain = SubSeq(c, offset + 1, offset + n) /\ part.plain = plain
    BY <2>2
  <2>4. Len(plain) = n /\ plain \in Seq(PlainBytes)
    <3>1. offset + n <= Len(c)
      BY <1>3, <2>2
    <3>2. SubSeq(c, offset + 1, offset + n) \in Seq(PlainBytes) /\ Len(SubSeq(c, offset + 1, offset + n)) = n
      BY <3>1, SliceIs
    <3>3. QED
      BY <2>3, <3>2, Zenon
  <2>5. PICK to \in Nat : to = offset + n
    OBVIOUS
  <2>6. temp \o plain = SubSeq(c, 1, to)
    <3>1. 1 \in 1 .. Len(c) + 1 /\ offset \in 1 - 1 .. Len(c) /\ to \in offset .. Len(c)
      BY <1>3, <1>4, <2>2, <2>5
    <3>2. SubSeq(c, 1, offset) \o SubSeq(c, offset + 1, to) = SubSeq(c, 1, to)
      BY <3>1, ConcatAdjacentSubSeq
    <3>3. QED
      BY <1>4, <2>3, <2>5, <3>2
  <2>7. SubSeq(c, 1, to) \in Seq(Bytes)
    <3>1. \A i \in 1 .. to : c[i] \in Bytes
      BY <1>3, <2>2, <2>5, ElementOfSeq
    <3>2. QED
      BY <3>1, SubSeqProperties
  <2>8. k = [j EXCEPT !.temp = temp \o plain, !.offset = to]
    BY <1>1, <1>2, <1>4, <1>6, <2>3, <2>4, <2>5
  <2>9. /\ k \in Job /\ k.at = "copy" /\ k.temp = SubSeq(c, 1, to) /\ k.offset = to /\ k.file = f
        /\ k.encrypting = j.encrypting /\ k.todo = j.todo /\ k.result = j.result /\ k.key = key
    <3>1. PICK longer \in Seq(Bytes) : longer = SubSeq(c, 1, to)
      BY <2>7
    <3>2. k = [j EXCEPT !.temp = longer, !.offset = to]
      BY <2>6, <2>8, <3>1, Zenon
    <3>3. /\ k \in Job /\ k.at = "copy" /\ k.temp = longer /\ k.offset = to /\ k.file = f
          /\ k.encrypting = j.encrypting /\ k.todo = j.todo /\ k.result = j.result /\ k.key = key
      BY <1>1, <1>2, <3>2 DEF Job
    <3>4. QED
      BY <3>1, <3>3, Zenon
  <2>10. Copying(k, v)
    BY <1>1, <1>2, <1>3, <2>2, <2>5, <2>9 DEF Copying
  <2>11. Converted(k, v)
    BY <2>9 DEF Good, Converted
  <2>12. QED
    BY <2>9, <2>10, <2>11 DEF Good, Sealing, Written
<1>7. QED
  BY <1>5, <1>6

\* The finished file is renamed into place.
LEMMA InstalledIsGood ==
  ASSUME Lengths, NEW j, NEW v, NEW hurt, Good(j, v, hurt), j.at = "install",
         NEW w, w = [v EXCEPT ![j.file] = [bytes |-> j.temp, stamp |-> @.stamp]],
         NEW k, k = [j EXCEPT !.at = "walk", !.todo = @ \ {j.file}, !.temp = <<>>, !.held = <<>>]
  PROVE  Good(k, w, hurt)
<1>1. PICK f \in Files, temp \in Seq(Bytes) : f = j.file /\ temp = j.temp
  BY DEF Good, Job
<1>2. <<>> \in Seq(PlainBytes) /\ <<>> \in Seq(Bytes)
  BY EmptySeq
<1>3. /\ k \in Job /\ k.at = "walk" /\ k.encrypting = j.encrypting /\ k.todo = j.todo \ {f}
      /\ k.result = j.result
  BY <1>1, <1>2 DEF Good, Job
<1>4. /\ w \in Volumes /\ w[f].bytes = temp
      /\ \A g \in Files : g # f => w[g] = v[g]
  BY <1>1 DEF Good, Volumes
<1>5. Stored(f, temp, hurt) /\ (IsEncrypted(temp) = j.encrypting)
  <2>1. CASE j.encrypting
    <3>1. Sealed(f, temp) /\ Whole(f, temp)
      BY <1>1, <2>1 DEF Good, Written
    <3>2. IsEncrypted(temp)
      BY <3>1, SealedIs
    <3>3. j \in Job
      BY DEF Good
    <3>4. QED
      BY <2>1, <3>1, <3>2, <3>3 DEF Stored, Job, IsEncrypted
  <2>2. CASE ~j.encrypting
    <3>1. temp = Content(f)
      BY <1>1, <2>2 DEF Good, Written
    <3>2. ~IsEncrypted(temp)
      BY <3>1, ContentIs
    <3>3. j \in Job
      BY DEF Good
    <3>4. QED
      BY <2>2, <3>1, <3>2, <3>3 DEF Stored, Job, IsEncrypted
  <2>3. QED
    BY <2>1, <2>2
<1>6. \A g \in Files : Stored(g, w[g].bytes, hurt)
  <2>1. ASSUME NEW g \in Files PROVE Stored(g, w[g].bytes, hurt)
    <3>1. CASE g = f
      BY <1>4, <1>5, <3>1
    <3>2. CASE g # f
      BY <1>4, <3>2 DEF Good
    <3>3. QED
      BY <3>1, <3>2
  <2>2. QED
    BY <2>1
<1>7. Converted(k, w)
  <2>1. j.result = "none" /\ \A g \in Files \ j.todo : IsEncrypted(v[g].bytes) = j.encrypting
    BY DEF Good, Converted
  <2>2. ASSUME NEW g \in Files \ k.todo PROVE IsEncrypted(w[g].bytes) = j.encrypting
    <3>1. CASE g = f
      BY <1>4, <1>5, <3>1
    <3>2. CASE g # f
      BY <1>3, <1>4, <2>1, <3>2
    <3>3. QED
      BY <3>1, <3>2
  <2>3. QED
    BY <1>3, <2>1, <2>2 DEF Converted
<1>8. QED
  BY <1>3, <1>4, <1>6, <1>7 DEF Good, Sealing, Copying, Written

----------------------------------------------------------------------------
LEMMA StartIsGood ==
  ASSUME VolumeInit
  PROVE  VolumeInv
<1>1. Lengths /\ runs \in Nat
  BY DEF VolumeInit, Lengths
<1>2. ASSUME NEW j, NEW v, NEW hurt, j = job, v = volume, hurt = damaged
      PROVE  Good(j, v, hurt)
  <2>1. v = [f \in Files |-> [bytes |-> Content(f), stamp |-> Indexed]]
    BY <1>2 DEF VolumeInit
  <2>2. v \in Volumes
    BY <1>1, <2>1, ContentIs DEF Volumes
  <2>3. \A f \in Files : Stored(f, v[f].bytes, hurt)
    BY <2>1 DEF Stored
  <2>4. j = [NoJob EXCEPT !.result = "none"]
    BY <1>2, NoJobIs DEF VolumeInit, Job
  <2>5. QED
    BY <2>2, <2>3, <2>4, IdleIsGood
<1>3. QED
  BY <1>1, <1>2 DEF VolumeInv

LEMMA StepIsGood ==
  ASSUME VolumeInv, [VolumeNext]_volumeVars
  PROVE  VolumeInv'
<1>0. PICK j, v, hurt : j = job /\ v = volume /\ hurt = damaged
  OBVIOUS
<1>1. Lengths /\ runs \in Nat /\ Good(j, v, hurt)
  BY <1>0, GoodNow
<1>2. PICK k, w, struck : k = job' /\ w = volume' /\ struck = damaged'
  OBVIOUS
<1>3. SUFFICES length' = length /\ runs' \in Nat /\ Good(k, w, struck)
  BY <1>1, <1>2, GoodStays
<1>4. /\ j \in Job /\ v \in Volumes
      /\ \A f \in Files : Stored(f, v[f].bytes, hurt)
  BY <1>1 DEF Good
<1>5. CASE UNCHANGED volumeVars
  BY <1>0, <1>1, <1>2, <1>5 DEF volumeVars
<1>6. ASSUME NEW encrypting \in BOOLEAN, NEW key \in Keys, BeginRun(encrypting, key)
      PROVE  length' = length /\ runs' \in Nat /\ Good(k, w, struck)
  <2>1. /\ k = [NoJob EXCEPT !.at = "walk", !.encrypting = encrypting, !.key = key, !.todo = Files]
        /\ w = v /\ struck = hurt /\ length' = length /\ runs' \in Nat
    BY <1>0, <1>1, <1>2, <1>6 DEF BeginRun
  <2>2. QED
    BY <1>1, <2>1, BegunIsGood
<1>7. ASSUME NEW f \in Files, SkipFile(f)
      PROVE  length' = length /\ runs' \in Nat /\ Good(k, w, struck)
  <2>1. /\ j.at = "walk" /\ IsEncrypted(v[f].bytes) = j.encrypting /\ k = [j EXCEPT !.todo = @ \ {f}]
        /\ w = v /\ struck = hurt /\ length' = length /\ runs' \in Nat
    BY <1>0, <1>1, <1>2, <1>7 DEF SkipFile, InForm
  <2>2. QED
    BY <1>1, <2>1, SkippedIsGood
<1>8. ASSUME w = v, struck = hurt, length' = length, runs' \in Nat, k = [NoJob EXCEPT !.result = "failed"]
      PROVE  length' = length /\ runs' \in Nat /\ Good(k, w, struck)
  BY <1>4, <1>8, IdleIsGood
<1>9. ASSUME NEW f \in Files, OpenSource(f)
      PROVE  length' = length /\ runs' \in Nat /\ Good(k, w, struck)
  <2>1. /\ j.at = "walk" /\ IsEncrypted(v[f].bytes) # j.encrypting
        /\ k = IF Opens(v[f].bytes, j.key)
               THEN [j EXCEPT !.at = IF j.encrypting THEN "fill" ELSE "copy", !.file = f,
                              !.offset = 0, !.index = 0, !.held = <<>>,
                              !.temp = IF j.encrypting THEN <<Header(<<f, runs>>)>> ELSE <<>>]
               ELSE [NoJob EXCEPT !.result = "failed"]
        /\ w = v /\ struck = hurt /\ length' = length /\ runs' \in Nat
    BY <1>0, <1>1, <1>2, <1>9 DEF OpenSource, InForm
  <2>2. CASE Opens(v[f].bytes, j.key)
    BY <1>1, <2>1, <2>2, OpenedIsGood
  <2>3. CASE ~Opens(v[f].bytes, j.key)
    BY <1>8, <2>1, <2>3
  <2>4. QED
    BY <2>2, <2>3
<1>10. CASE Fill
  <2>1. PICK source, n : source = v[j.file].bytes /\ n = Lesser(ChunkSize, Len(source) - j.offset)
    OBVIOUS
  <2>2. /\ j.at = "fill"
        /\ k = [j EXCEPT
             !.temp = IF j.held # <<>> THEN @ \o Seal(j.key, j.temp[1].salt, j.index, FALSE, j.held)
                      ELSE @,
             !.index = IF j.held # <<>> THEN @ + 1 ELSE @,
             !.held = SubSeq(source, j.offset + 1, j.offset + n),
             !.offset = @ + n,
             !.at = IF n < ChunkSize THEN "last" ELSE "fill"]
        /\ w = v /\ struck = hurt /\ length' = length /\ runs' \in Nat
    BY <1>0, <1>1, <1>2, <1>10, <2>1 DEF Fill, SealNext
  <2>3. QED
    BY <1>1, <2>1, <2>2, FilledIsGood
<1>11. CASE SealLast
  <2>1. /\ j.at = "last"
        /\ k = [j EXCEPT !.temp = @ \o Seal(j.key, j.temp[1].salt, j.index, TRUE, j.held),
                         !.at = "install"]
        /\ w = v /\ struck = hurt /\ length' = length /\ runs' \in Nat
    BY <1>0, <1>1, <1>2, <1>11 DEF SealLast, SealNext
  <2>2. QED
    BY <1>1, <2>1, LastIsGood
<1>12. CASE CopyOut
  <2>1. PICK bytes, part : bytes = v[j.file].bytes /\ part = ReadAt(bytes, j.key, j.offset)
    OBVIOUS
  <2>2. /\ j.at = "copy"
        /\ k = IF j.offset >= SizeOf(bytes) THEN [j EXCEPT !.at = "install"]
               ELSE IF ~part.ok THEN [NoJob EXCEPT !.result = "failed"]
               ELSE [j EXCEPT !.temp = @ \o part.plain, !.offset = @ + Len(part.plain)]
        /\ w = v /\ struck = hurt /\ length' = length /\ runs' \in Nat
    BY <1>0, <1>1, <1>2, <1>12, <2>1 DEF CopyOut
  <2>3. CASE j.offset >= SizeOf(bytes) \/ part.ok
    <3>1. k = IF j.offset >= SizeOf(bytes) THEN [j EXCEPT !.at = "install"]
              ELSE [j EXCEPT !.temp = @ \o part.plain, !.offset = @ + Len(part.plain)]
      BY <2>2, <2>3
    <3>2. QED
      BY <1>1, <2>1, <2>2, <2>3, <3>1, CopiedIsGood
  <2>4. CASE ~(j.offset >= SizeOf(bytes)) /\ ~part.ok
    BY <1>8, <2>2, <2>4
  <2>5. QED
    BY <2>3, <2>4
<1>13. CASE Install
  <2>1. /\ j.at = "install"
        /\ w = [v EXCEPT ![j.file] = [bytes |-> j.temp, stamp |-> @.stamp]]
        /\ k = [j EXCEPT !.at = "walk", !.todo = @ \ {j.file}, !.temp = <<>>, !.held = <<>>]
        /\ struck = hurt /\ length' = length /\ runs' \in Nat
    BY <1>0, <1>1, <1>2, <1>13 DEF Install
  <2>2. QED
    BY <1>1, <2>1, InstalledIsGood
<1>14. CASE FinishRun
  <2>1. /\ j.at = "walk" /\ j.todo = {}
        /\ k = [NoJob EXCEPT !.result = IF j.encrypting THEN "encrypted" ELSE "decrypted"]
        /\ w = v /\ struck = hurt /\ length' = length /\ runs' \in Nat
    BY <1>0, <1>1, <1>2, <1>14 DEF FinishRun
  <2>2. \A f \in Files : IsEncrypted(v[f].bytes) = j.encrypting
    BY <1>1, <2>1 DEF Good, Converted
  <2>3. PICK result \in {"none", "failed", "encrypted", "decrypted"} :
          /\ result = IF j.encrypting THEN "encrypted" ELSE "decrypted"
          /\ k = [NoJob EXCEPT !.result = result]
    BY <2>1
  <2>4. /\ result = "encrypted" => \A f \in Files : IsEncrypted(v[f].bytes)
        /\ result = "decrypted" => \A f \in Files : ~IsEncrypted(v[f].bytes)
    BY <2>2, <2>3
  <2>5. QED
    BY <1>4, <2>1, <2>3, <2>4, IdleIsGood
<1>15. CASE InterruptRun
  <2>1. /\ k = [NoJob EXCEPT !.result = "failed"]
        /\ w = v /\ struck = hurt /\ length' = length /\ runs' \in Nat
    BY <1>0, <1>1, <1>2, <1>15 DEF InterruptRun
  <2>2. QED
    BY <1>8, <2>1
<1>16. ASSUME NEW f \in Files, NEW bytes, Damage(f, bytes), Sealed(f, bytes), IsEncrypted(v[f].bytes)
       PROVE  length' = length /\ runs' \in Nat /\ Good(k, w, struck)
  <2>1. /\ j.at = "off" /\ w = [v EXCEPT ![f].bytes = bytes] /\ k = j /\ struck = hurt \cup {f}
        /\ length' = length /\ runs' \in Nat
    BY <1>0, <1>1, <1>2, <1>16 DEF Damage
  <2>2. QED
    BY <1>1, <1>16, <2>1, DamagedIsGood
<1>17. ASSUME NEW f \in Files, CutShort(f)
       PROVE  length' = length /\ runs' \in Nat /\ Good(k, w, struck)
  <2>1. PICK bytes : bytes = v[f].bytes
    OBVIOUS
  <2>2. PICK n \in HeaderSize .. Len(bytes) - 1 :
          IsEncrypted(bytes) /\ Damage(f, SubSeq(bytes, 1, n))
    BY <1>0, <1>17, <2>1 DEF CutShort
  <2>3. Sealed(f, bytes)
    BY <1>1, <1>4, <2>1, <2>2, FormTells
  <2>4. Sealed(f, SubSeq(bytes, 1, n))
    BY <2>3, CutStaysSealed
  <2>5. QED
    BY <1>16, <2>1, <2>2, <2>4
<1>18. ASSUME NEW f \in Files, NEW g \in Files, Misplace(f, g)
       PROVE  length' = length /\ runs' \in Nat /\ Good(k, w, struck)
  <2>1. PICK to, from : to = v[f].bytes /\ from = v[g].bytes
    OBVIOUS
  <2>2. IsEncrypted(to) /\ IsEncrypted(from)
    BY <1>0, <1>18, <2>1 DEF Misplace
  <2>3. Sealed(f, to) /\ Sealed(g, from)
    BY <1>1, <1>4, <2>1, <2>2, FormTells
  <2>4. PICK i, m, mixed :
          /\ i \in 1 .. (Len(to) - HeaderSize) \div SealedSize
          /\ m \in 1 .. (Len(from) - HeaderSize) \div SealedSize
          /\ mixed = [q \in DOMAIN to |->
               LET within == q - HeaderSize - (i - 1) * SealedSize IN
               IF within \in 1 .. SealedSize THEN from[HeaderSize + (m - 1) * SealedSize + within]
               ELSE to[q]]
          /\ Damage(f, mixed)
    BY <1>0, <1>18, <2>1 DEF Misplace
  <2>5. Sealed(f, mixed)
    <3>1. /\ to \in Seq(Bytes) /\ Len(to) \in Nat \ {0} /\ DOMAIN to = 1 .. Len(to)
          /\ from \in Seq(Bytes) /\ Len(from) \in Nat \ {0}
      BY <2>3, SealedIs, LenProperties DEF Sealed
    <3>2. PICK a \in Nat, b \in Nat :
            /\ a = (i - 1) * SealedSize /\ b = (m - 1) * SealedSize
            /\ HeaderSize + b + SealedSize <= Len(from)
      <4>1. PICK body \in Nat, rows \in Nat :
              body = Len(from) - HeaderSize /\ rows = body \div SealedSize
        <5>1. Len(from) - HeaderSize \in Nat
          BY <3>1, Sizes
        <5>2. (Len(from) - HeaderSize) \div SealedSize \in Nat
          BY <5>1, Sizes, DivModFacts
        <5>3. QED
          BY <5>1, <5>2, Zenon
      <4>2. rows * SealedSize <= body
        <5>0. body % SealedSize \in Nat
          BY <4>1, Sizes, DivModFacts
        <5>1. PICK all, r : r \in Nat /\ all = rows * SealedSize /\ r = body % SealedSize
          BY <5>0, Zenon
        <5>2. body = all + r /\ all \in Nat
          BY <4>1, <5>1, Sizes, DivModFacts, Rows
        <5>3. QED
          BY <5>1, <5>2
      <4>3. PICK before \in Nat : m = before + 1 /\ before < rows
        <5>1. m \in 1 .. rows
          BY <2>4, <4>1, Zenon
        <5>2. m - 1 \in Nat /\ m = (m - 1) + 1 /\ m - 1 < rows
          BY <5>1
        <5>3. QED
          BY <5>2, Zenon
      <4>4. PICK b \in Nat : b = before * SealedSize /\ b + SealedSize <= rows * SealedSize
        BY <4>3, Rows, Sizes
      <4>5. PICK row \in Nat : i - 1 = row
        BY <2>4
      <4>6. row * SealedSize \in Nat
        BY Rows, Sizes
      <4>7. PICK all : all = rows * SealedSize
        OBVIOUS
      <4>8. HeaderSize + b + SealedSize <= Len(from)
        <5>1. all \in Nat /\ all <= body /\ b + SealedSize <= all
          BY <4>2, <4>4, <4>7, Rows, Sizes
        <5>2. QED
          BY <3>1, <4>1, <5>1, Sizes
      <4>9. m - 1 = before
        BY <4>3
      <4>10. QED
        BY <4>4, <4>5, <4>6, <4>8, <4>9
    <3>3. \A q \in DOMAIN to :
            mixed[q] = IF q - HeaderSize - a \in 1 .. SealedSize
                       THEN from[HeaderSize + b + (q - HeaderSize - a)] ELSE to[q]
      BY <2>4, <3>2, Zenon
    <3>4. ASSUME NEW q \in 1 .. Len(to), q - HeaderSize - a \in 1 .. SealedSize
          PROVE  q # 1 /\ HeaderSize + b + (q - HeaderSize - a) \in 2 .. Len(from)
      <4>1. PICK within \in 1 .. SealedSize : within = q - HeaderSize - a
        BY <3>4
      <4>2. HeaderSize + b + within \in 2 .. Len(from)
        BY <3>1, <3>2, Sizes
      <4>3. q # 1
        BY <4>1, Sizes
      <4>4. QED
        BY <4>1, <4>2, <4>3
    <3>5. mixed[1] = to[1]
      BY <3>1, <3>3, <3>4
    <3>6. ASSUME NEW q \in 1 .. Len(to)
          PROVE  mixed[q] = to[q] \/ \E p \in 2 .. Len(from) : mixed[q] = from[p]
      BY <3>1, <3>3, <3>4
    <3>7. mixed \in [DOMAIN to -> Bytes]
      <4>1. \A q \in 1 .. Len(to) : to[q] \in Bytes
        BY <3>1, ElementOfSeq
      <4>2. \A q \in 2 .. Len(from) : from[q] \in Bytes
        BY <3>1, ElementOfSeq
      <4>3. \A q \in DOMAIN to : mixed[q] \in Bytes
        BY <3>1, <3>6, <4>1, <4>2
      <4>4. PICK other : other = [q \in DOMAIN to |-> mixed[q]]
        OBVIOUS
      <4>5. mixed = other
        BY <2>4, <4>4
      <4>6. QED
        BY <4>3, <4>4, <4>5
    <3>8. \A q \in 2 .. Len(to) : mixed[q] = to[q] \/ \E p \in 2 .. Len(from) : mixed[q] = from[p]
      BY <3>1, <3>6
    <3>9. QED
      BY <2>3, <3>5, <3>7, <3>8, MixStaysSealed
  <2>6. QED
    BY <1>16, <2>1, <2>2, <2>4, <2>5
<1>19. QED
  BY <1>5, <1>6, <1>7, <1>9, <1>10, <1>11, <1>12, <1>13, <1>14, <1>15, <1>17, <1>18
     DEF VolumeNext, CommandStep

\* The invariant: what every reachable state of the volume satisfies.
LEMMA VolumeInvHolds == VolumeInit /\ [][VolumeNext]_volumeVars => []VolumeInv
<1>1. VolumeInit => VolumeInv
  BY StartIsGood
<1>2. VolumeInv /\ [VolumeNext]_volumeVars => VolumeInv'
  BY StepIsGood
<1>3. QED
  BY <1>1, <1>2, PTL

----------------------------------------------------------------------------
(***************************************************************************)
(* However often the command was interrupted and run again, and whatever   *)
(* the disk cut off or mixed up: a read that ends well, with any key and   *)
(* from any offset, gives the content that was put there (crypt.go, Open,  *)
(* load and Read); and a file the disk left alone can be read to its end   *)
(* with some key, though its conversion was broken off (key.go, convert).  *)
(***************************************************************************)
THEOREM ReadsStayTrue == VolumeInit /\ [][VolumeNext]_volumeVars => []ReadsTrue
<1>1. VolumeInv => ReadsTrue
  <2>1. SUFFICES ASSUME VolumeInv PROVE ReadsTrue
    OBVIOUS
  <2>2. Lengths /\ \A f \in Files : Stored(f, volume[f].bytes, damaged)
    <3>1. Lengths /\ Good(job, volume, damaged)
      BY <2>1, GoodNow
    <3>2. QED
      BY <3>1 DEF Good
  <2>3. ASSUME NEW f \in Files, NEW bytes, bytes = volume[f].bytes
        PROVE  /\ \A key \in Keys, offset \in 0 .. MaxLength :
                    ReadFrom(bytes, key, offset).ok =>
                      ReadFrom(bytes, key, offset).plain = SubSeq(Content(f), offset + 1, length[f])
               /\ f \notin damaged => \E key \in Keys : ReadFrom(bytes, key, 0).ok
    <3>1. bytes = Content(f) \/ Sealed(f, bytes)
      BY <2>2, <2>3 DEF Stored
    <3>2. ASSUME NEW key \in Keys, NEW offset \in 0 .. MaxLength, ReadFrom(bytes, key, offset).ok
          PROVE  ReadFrom(bytes, key, offset).plain = SubSeq(Content(f), offset + 1, length[f])
      BY <2>2, <3>1, <3>2, ReadFromTrue
    <3>3. ASSUME f \notin damaged
          PROVE  \E key \in Keys : ReadFrom(bytes, key, 0).ok
      <4>1. bytes = Content(f) \/ (Sealed(f, bytes) /\ Whole(f, bytes))
        BY <2>2, <2>3, <3>3 DEF Stored
      <4>2. QED
        BY <2>2, <4>1, WholeIsRead
    <3>4. QED
      BY <3>2, <3>3
  <2>4. QED
    BY <2>3 DEF ReadsTrue
<1>2. QED
  BY <1>1, VolumeInvHolds, PTL

(***************************************************************************)
(* No conversion, finished or not, shows in a listing: the size worked out *)
(* from the sealed file is the content's (crypt.go, PlainSize), and the    *)
(* modification time is the one the index has (key.go, convertOne).        *)
(***************************************************************************)
THEOREM ConversionGoesUnseen == VolumeInit /\ [][VolumeNext]_volumeVars => []LooksUntouched
<1>1. VolumeInv => LooksUntouched
  <2>1. SUFFICES ASSUME VolumeInv, NEW f \in Files \ damaged
                 PROVE  SizeOf(volume[f].bytes) = length[f] /\ volume[f].stamp = Indexed
    BY DEF LooksUntouched
  <2>2. PICK bytes : bytes = volume[f].bytes
    OBVIOUS
  <2>3. /\ Lengths /\ volume[f].stamp = Indexed
        /\ bytes = Content(f) \/ (Sealed(f, bytes) /\ Whole(f, bytes))
    BY <2>1, <2>2, GoodNow DEF Good, Volumes, Stored
  <2>4. PICK key \in Keys : Readable(f, bytes, key)
    BY <2>3, WholeIsRead
  <2>5. SizeOf(bytes) = length[f]
    BY <2>3, <2>4, ReadableIs
  <2>6. QED
    BY <2>2, <2>3, <2>5
<1>2. QED
  BY <1>1, VolumeInvHolds, PTL

(***************************************************************************)
(* A run that says it is through left no file in the other form, those of  *)
(* interrupted runs with them; and what it unsealed is what was put there, *)
(* never what a damaged file still yields (key.go, convertTree).           *)
(***************************************************************************)
THEOREM ConversionIsWhole == VolumeInit /\ [][VolumeNext]_volumeVars => []WholeTree
<1>1. VolumeInv => WholeTree
  <2>1. SUFFICES ASSUME VolumeInv PROVE WholeTree
    OBVIOUS
  <2>2. /\ Lengths /\ Converted(job, volume)
        /\ \A f \in Files : Stored(f, volume[f].bytes, damaged)
    BY <2>1, GoodNow DEF Good
  <2>3. \A f \in Files : ~IsEncrypted(volume[f].bytes) => volume[f].bytes = Content(f)
    <3>1. ASSUME NEW f \in Files, NEW bytes, bytes = volume[f].bytes, ~IsEncrypted(bytes)
          PROVE  bytes = Content(f)
      BY <2>2, <3>1, FormTells
    <3>2. QED
      BY <3>1
  <2>4. QED
    BY <2>2, <2>3 DEF Converted, WholeTree
<1>2. QED
  BY <1>1, VolumeInvHolds, PTL
=============================================================================
