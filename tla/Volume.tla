------------------------------- MODULE Volume -------------------------------
(***************************************************************************)
(* Files sealed at rest (crypt/crypt.go) and the command that seals or     *)
(* unseals a whole tree with the server stopped (cmd/homesync/key.go).     *)
(*                                                                         *)
(* A sealed file is a header and chunks; every byte of a chunk stands for  *)
(* all the chunk was sealed from: the key, the file's salt, its number,    *)
(* whether it is the last, the plaintext, and which byte of it this is.    *)
(* Bytes open as a chunk only where they are one, whole.                   *)
(***************************************************************************)
EXTENDS Integers, Sequences, FiniteSets

CONSTANTS
  Files,      \* the files of the tree
  Keys,       \* master keys
  ChunkSize, TagSize,
  MaxLength,  \* bound: bytes of a file
  MaxRuns,    \* bound: how often the command is run
  MaxDamage   \* bound: how often the disk loses or mixes up bytes of a file

ASSUME VolumeAssumption ==
  /\ Files # {} /\ Keys # {}
  /\ ChunkSize \in Nat \ {0} /\ TagSize \in Nat \ {0}
  /\ MaxLength \in Nat /\ MaxRuns \in Nat /\ MaxDamage \in Nat

HeaderSize == 1
SealedSize == ChunkSize + TagSize

VARIABLES
  length,   \* how many bytes were put in each file
  volume,   \* the bytes of each file, and its modification time
  job,      \* the command that runs, the file it is at, and its temporary file
  runs,
  damage,   \* how often a file was damaged
  damaged   \* the files that were

volumeVars == <<length, volume, job, runs, damage, damaged>>

Lesser(m, n) == IF m < n THEN m ELSE n

----------------------------------------------------------------------------
(***************************************************************************)
(* The format.                                                             *)
(***************************************************************************)
\* A byte of a file's content: the file's own, so that none passes for another's.
PlainByte(f, i) == [kind |-> "plain", file |-> f, at |-> i]

Header(salt) == [kind |-> "header", salt |-> salt]

IsEncrypted(bytes) == bytes # <<>> /\ bytes[1].kind = "header"

\* Seal: the key comes from the master key and the salt, the index is the nonce.
Seal(key, salt, index, final, plain) ==
  [k \in 1 .. Len(plain) + TagSize |->
     [kind |-> "sealed", key |-> key, salt |-> salt, index |-> index,
      final |-> final, plain |-> plain, at |-> k]]

Refused == [ok |-> FALSE, plain |-> <<>>]

\* The other direction: the bytes are exactly a chunk of this place, or it fails.
Unseal(key, salt, index, final, bytes) ==
  LET b == bytes[1] IN
  IF b.kind = "sealed" /\ bytes = Seal(key, salt, index, final, b.plain)
  THEN [ok |-> TRUE, plain |-> b.plain] ELSE Refused

\* One too many: a last chunk of no plaintext is refused.
MutPlainSize(fileSize) ==
  LET body == fileSize - HeaderSize
      full == body \div SealedSize
      rem  == body % SealedSize
  IN IF body < TagSize \/ rem \in 1 .. TagSize THEN [ok |-> FALSE, size |-> 0, chunks |-> 0]
     ELSE IF rem = 0 THEN [ok |-> TRUE, size |-> full * ChunkSize, chunks |-> full]
     ELSE [ok |-> TRUE, size |-> full * ChunkSize + rem - TagSize, chunks |-> full + 1]

\* The plaintext length and the number of chunks follow from the file's size.
PlainSize(fileSize) ==
  LET body == fileSize - HeaderSize
      full == body \div SealedSize
      rem  == body % SealedSize
  IN IF body < TagSize \/ rem \in 1 .. TagSize - 1 THEN [ok |-> FALSE, size |-> 0, chunks |-> 0]
     ELSE IF rem = 0 THEN [ok |-> TRUE, size |-> full * ChunkSize, chunks |-> full]
     ELSE [ok |-> TRUE, size |-> full * ChunkSize + rem - TagSize, chunks |-> full + 1]

\* The reader's load: the last chunk is as long as what is left of the file.
LoadChunk(bytes, key, index) ==
  LET chunks == PlainSize(Len(bytes)).chunks
      at   == HeaderSize + index * SealedSize
      want == IF index = chunks - 1 THEN Len(bytes) - at ELSE SealedSize
  IN IF index \notin 0 .. chunks - 1 \/ want \notin TagSize .. SealedSize \/ at + want > Len(bytes)
     THEN Refused
     ELSE Unseal(key, bytes[1].salt, index, index = chunks - 1, SubSeq(bytes, at + 1, at + want))

\* Without a look at the end.
MutOpens(bytes, key) == IsEncrypted(bytes) => PlainSize(Len(bytes)).ok

\* Open: the length must make sense, and what is at the end must be sealed as the end.
Opens(bytes, key) ==
  IsEncrypted(bytes) =>
    LET size == PlainSize(Len(bytes)) IN size.ok /\ LoadChunk(bytes, key, size.chunks - 1).ok

\* What SizeOf says of a file without reading it; refused is nothing.
SizeOf(bytes) ==
  IF IsEncrypted(bytes)
  THEN LET size == PlainSize(Len(bytes)) IN IF size.ok THEN size.size ELSE -1
  ELSE Len(bytes)

\* Read, from an offset to the end of its chunk.
ReadAt(bytes, key, offset) ==
  IF ~IsEncrypted(bytes) THEN [ok |-> TRUE, plain |-> SubSeq(bytes, offset + 1, Len(bytes))]
  ELSE LET index  == offset \div ChunkSize
           chunk  == LoadChunk(bytes, key, index)
           within == offset - index * ChunkSize
       IN IF ~chunk.ok \/ within > Len(chunk.plain) THEN Refused
          ELSE [ok |-> TRUE, plain |-> SubSeq(chunk.plain, within + 1, Len(chunk.plain))]

\* Seek to an offset and read on to the end, or to the first error, with a reader
\* that has read nothing yet.  (One that seeks back after an error to the chunk it
\* had before takes that chunk for loaded, though the failed attempt at the next
\* has cleared it.  Nobody in the program goes on after an error.)
ReadFrom(bytes, key, offset) ==
  IF ~Opens(bytes, key) THEN Refused
  ELSE LET size == SizeOf(bytes)
           rest[at \in 0 .. size + MaxLength] ==
             IF at >= size THEN [ok |-> TRUE, plain |-> <<>>]
             ELSE LET part == ReadAt(bytes, key, at) IN
                  IF ~part.ok \/ part.plain = <<>> THEN Refused
                  ELSE LET more == rest[at + Len(part.plain)] IN
                       [ok |-> more.ok, plain |-> part.plain \o more.plain]
       IN rest[offset]

----------------------------------------------------------------------------
(***************************************************************************)
(* The command.  It walks the tree, rewrites each file that is not in the  *)
(* form asked for through a temporary file, and stops at the first error;  *)
(* it can be interrupted anywhere, and run again.                          *)
(***************************************************************************)
Content(f) == [i \in 1 .. length[f] |-> PlainByte(f, i)]

Indexed == 0  \* the modification time the index has

NoJob == [at |-> "off", result |-> "none", encrypting |-> FALSE, key |-> CHOOSE k \in Keys : TRUE,
          todo |-> {}, file |-> CHOOSE f \in Files : TRUE, offset |-> 0, index |-> 0,
          held |-> <<>>, temp |-> <<>>]

VolumeInit ==
  /\ length \in [Files -> 0 .. MaxLength]
  /\ volume = [f \in Files |-> [bytes |-> Content(f), stamp |-> Indexed]]
  /\ job = NoJob
  /\ runs = 0 /\ damage = 0 /\ damaged = {}

BeginRun(encrypting, key) ==
  /\ job.at = "off" /\ runs < MaxRuns
  /\ job' = [NoJob EXCEPT !.at = "walk", !.encrypting = encrypting, !.key = key, !.todo = Files]
  /\ runs' = runs + 1
  /\ UNCHANGED <<length, volume, damage, damaged>>

InForm(f) == IsEncrypted(volume[f].bytes) = job.encrypting

SkipFile(f) ==
  /\ job.at = "walk" /\ f \in job.todo /\ InForm(f)
  /\ job' = [job EXCEPT !.todo = @ \ {f}]
  /\ UNCHANGED <<length, volume, runs, damage, damaged>>

OpenSource(f) ==
  /\ job.at = "walk" /\ f \in job.todo /\ ~InForm(f)
  /\ job' = IF Opens(volume[f].bytes, job.key)
            THEN [job EXCEPT !.at = IF job.encrypting THEN "fill" ELSE "copy", !.file = f,
                             !.offset = 0, !.index = 0, !.held = <<>>,
                             !.temp = IF job.encrypting THEN <<Header(<<f, runs>>)>> ELSE <<>>]
            ELSE [NoJob EXCEPT !.result = "failed"]
  /\ UNCHANGED <<length, volume, runs, damage, damaged>>

SealNext(final) == Seal(job.key, job.temp[1].salt, job.index, final, job.held)

\* One turn of Encrypt's loop.  A chunk is held back until it is known whether
\* anything follows it; a source that ends with a whole chunk shows it a turn later.
Fill ==
  /\ job.at = "fill"
  /\ LET source == volume[job.file].bytes
         n == Lesser(ChunkSize, Len(source) - job.offset)
         seals == job.held # <<>>
     IN job' = [job EXCEPT !.temp = IF seals THEN @ \o SealNext(FALSE) ELSE @,
                           !.index = IF seals THEN @ + 1 ELSE @,
                           !.held = SubSeq(source, job.offset + 1, job.offset + n),
                           !.offset = @ + n,
                           !.at = IF n < ChunkSize THEN "last" ELSE "fill"]
  /\ UNCHANGED <<length, volume, runs, damage, damaged>>

\* Always a final chunk, empty if nothing is held.
SealLast ==
  /\ job.at = "last"
  /\ job' = [job EXCEPT !.temp = @ \o SealNext(TRUE), !.at = "install"]
  /\ UNCHANGED <<length, volume, runs, damage, damaged>>

\* An error taken for the end of the file.
MutCopyOut ==
  /\ job.at = "copy"
  /\ LET bytes == volume[job.file].bytes
         part == ReadAt(bytes, job.key, job.offset)
     IN job' = IF job.offset >= SizeOf(bytes) \/ ~part.ok THEN [job EXCEPT !.at = "install"]
               ELSE [job EXCEPT !.temp = @ \o part.plain, !.offset = @ + Len(part.plain)]
  /\ UNCHANGED <<length, volume, runs, damage, damaged>>

\* One Read of the copy out of a sealed file.
CopyOut ==
  /\ job.at = "copy"
  /\ LET bytes == volume[job.file].bytes
         part == ReadAt(bytes, job.key, job.offset)
     IN job' = IF job.offset >= SizeOf(bytes) THEN [job EXCEPT !.at = "install"]
               ELSE IF ~part.ok THEN [NoJob EXCEPT !.result = "failed"]
               ELSE [job EXCEPT !.temp = @ \o part.plain, !.offset = @ + Len(part.plain)]
  /\ UNCHANGED <<length, volume, runs, damage, damaged>>

\* Mode and modification time are carried over, and the file renamed into place.
Install ==
  /\ job.at = "install"
  /\ volume' = [volume EXCEPT ![job.file] = [bytes |-> job.temp, stamp |-> @.stamp]]
  /\ job' = [job EXCEPT !.at = "walk", !.todo = @ \ {job.file}, !.temp = <<>>, !.held = <<>>]
  /\ UNCHANGED <<length, runs, damage, damaged>>

FinishRun ==
  /\ job.at = "walk" /\ job.todo = {}
  /\ job' = [NoJob EXCEPT !.result = IF job.encrypting THEN "encrypted" ELSE "decrypted"]
  /\ UNCHANGED <<length, volume, runs, damage, damaged>>

\* The temporary file stays behind; no later run looks at it.
InterruptRun ==
  /\ job.at # "off"
  /\ job' = [NoJob EXCEPT !.result = "failed"]
  /\ UNCHANGED <<length, volume, runs, damage, damaged>>

----------------------------------------------------------------------------
(***************************************************************************)
(* What a disk does to a sealed file at rest.  A file cut off inside its   *)
(* header no longer shows that it is sealed, and is left out.              *)
(***************************************************************************)
Damage(f, bytes) ==
  /\ job.at = "off" /\ damage < MaxDamage
  /\ volume' = [volume EXCEPT ![f].bytes = bytes]
  /\ damage' = damage + 1 /\ damaged' = damaged \cup {f}
  /\ UNCHANGED <<length, job, runs>>

CutShort(f) ==
  LET bytes == volume[f].bytes IN
  /\ IsEncrypted(bytes)
  /\ \E n \in HeaderSize .. Len(bytes) - 1 : Damage(f, SubSeq(bytes, 1, n))

\* A stretch of one sealed file turns up in another place, or in another file.
Misplace(f, g) ==
  LET to == volume[f].bytes
      from == volume[g].bytes
  IN
  /\ IsEncrypted(to) /\ IsEncrypted(from)
  /\ \E i \in 1 .. (Len(to) - HeaderSize) \div SealedSize,
        j \in 1 .. (Len(from) - HeaderSize) \div SealedSize :
       LET written == [k \in DOMAIN to |->
             LET within == k - HeaderSize - (i - 1) * SealedSize IN
             IF within \in 1 .. SealedSize THEN from[HeaderSize + (j - 1) * SealedSize + within]
             ELSE to[k]]
       IN written # to /\ Damage(f, written)

CommandStep == \/ \E f \in Files : SkipFile(f) \/ OpenSource(f)
               \/ Fill \/ SealLast \/ CopyOut \/ Install \/ FinishRun

VolumeNext ==
  \/ \E encrypting \in BOOLEAN, key \in Keys : BeginRun(encrypting, key)
  \/ CommandStep \/ InterruptRun
  \/ \E f, g \in Files : Misplace(f, g)
  \/ \E f \in Files : CutShort(f)

----------------------------------------------------------------------------
(***************************************************************************)
(* Whatever was interrupted, run again, cut off or mixed up: no key makes  *)
(* a read give anything but the content that was put there, from whatever  *)
(* offset it starts.  A file the disk left alone is read by the key it was *)
(* sealed with (crypt.go: cut on a chunk boundary and the shortened file   *)
(* reads back clean, which sealing the last chunk as final is to catch).   *)
(***************************************************************************)
ReadsTrue ==
  \A f \in Files :
    LET bytes == volume[f].bytes IN
    /\ \A key \in Keys, offset \in 0 .. MaxLength :
         LET r == ReadFrom(bytes, key, offset) IN
         r.ok => r.plain = SubSeq(Content(f), offset + 1, length[f])
    /\ f \notin damaged => \E key \in Keys : ReadFrom(bytes, key, 0).ok

(***************************************************************************)
(* To the index a converted file looks as it was: its length worked out    *)
(* from the sealed size, and its modification time.  So no revisions are   *)
(* burned and no client downloads it again (key.go, at convertTree).       *)
(***************************************************************************)
LooksUntouched ==
  \A f \in Files \ damaged :
    SizeOf(volume[f].bytes) = length[f] /\ volume[f].stamp = Indexed

(***************************************************************************)
(* A run that says it is through has left every file in the form asked     *)
(* for, those of interrupted runs with them; and what it has unsealed is   *)
(* what was put there, never what a damaged file still yields.             *)
(***************************************************************************)
WholeTree ==
  /\ job.result = "encrypted" => \A f \in Files : IsEncrypted(volume[f].bytes)
  /\ job.result = "decrypted" => \A f \in Files : volume[f].bytes = Content(f)
=============================================================================
