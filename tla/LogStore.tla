----------------------------- MODULE LogStore -----------------------------
(***************************************************************************)
(* log.json of 2/server and the memory of the process beside it (log.go).  *)
(*                                                                         *)
(* An entry is appended by two writes, its length (4 bytes) and its JSON;  *)
(* the file is rewritten, by way of a temporary file and a rename, when    *)
(* entries are cut off.  The process may end between two writes, or        *)
(* between a write and the change of memory that goes with it, and a write *)
(* may come up short; NewLog makes of the file what it can.                *)
(*                                                                         *)
(* The file is a sequence of pieces, each the whole of an entry or the     *)
(* part of it that was written.  A whole write survives the process.       *)
(***************************************************************************)
EXTENDS Integers, Sequences, SequencesExt

CONSTANTS
    Value,          \* entries
    MaxPieces,      \* bound: pieces of the file
    MaxEnds,        \* bound: how often the process ends
    MaxShortDumps   \* bound: rewrites that ran out of space

ASSUME BoundAssumption == MaxPieces \in Nat /\ MaxEnds \in Nat /\ MaxShortDumps \in Nat

VARIABLES
    file,
    mem,      \* Log.Entries without the sentinel
    phase,    \* "idle"; of Append: "data": the length is written, the JSON comes
              \* next, "grow": the file has the entry, memory comes next; of
              \* CheckAndCorrect: "dump": memory is cut, DumpLog comes next
    entry,    \* the entry that Append is at
    status,   \* "up"; "down"; "failed": NewLog returned an error
    before,   \* history: the log of the process that ended last, with the entry
              \* its file already had, or the entries its file still had
    ends, shortDumps

vars == <<file, mem, phase, entry, status, before, ends, shortDumps>>

Piece == [part : {"whole", "someLength", "length", "someData"}, entry : Value]
Whole(e) == [part |-> "whole", entry |-> e]
Torn(e) == {[part |-> p, entry |-> e] : p \in {"someLength", "length", "someData"}}
Pieces(entries) == [i \in DOMAIN entries |-> Whole(entries[i])]

\* No log.json: NewLog has written an empty one.
Init ==
    /\ file = <<>> /\ mem = <<>>
    /\ phase = "idle" /\ entry \in Value
    /\ status = "up"
    /\ before = <<>> /\ ends = 0 /\ shortDumps = 0

-----------------------------------------------------------------------------
(* Append: SerializeEntry, then the entry in memory.                       *)

WriteLength(e) ==
    /\ status = "up" /\ phase = "idle"
    /\ Len(file) < MaxPieces
    /\ file' = Append(file, [part |-> "length", entry |-> e])
    /\ phase' = "data" /\ entry' = e
    /\ UNCHANGED <<mem, status, before, ends, shortDumps>>

WriteData ==
    /\ phase = "data"
    /\ file' = Append(Front(file), Whole(entry))
    /\ phase' = "grow"
    /\ UNCHANGED <<mem, entry, status, before, ends, shortDumps>>

Grow ==
    /\ phase = "grow"
    /\ mem' = Append(mem, entry)
    /\ phase' = "idle"
    /\ UNCHANGED <<file, entry, status, before, ends, shortDumps>>

\* The log, with the entry or the entries by which the file is ahead of memory:
\* in the middle of a cut, before is the log that was to be cut.
Held ==
    CASE phase \in {"idle", "data"} -> mem
      [] phase = "grow" -> Append(mem, entry)
      [] phase = "dump" -> before

ProcessEnds ==
    /\ status = "up"
    /\ ends < MaxEnds
    /\ ends' = ends + 1
    /\ status' = "down"
    /\ before' = Held
    /\ mem' = <<>>
    /\ phase' = "idle"

\* A write comes up short: log.Fatal in Append.  One that writes nothing leaves
\* what Crash leaves.
WriteFails ==
    /\ ProcessEnds
    /\ \/ /\ phase = "idle" /\ Len(file) < MaxPieces
          /\ \E e \in Value :
               file' = Append(file, [part |-> "someLength", entry |-> e])
       \/ /\ phase = "data"
          /\ file' = Append(Front(file), [part |-> "someData", entry |-> entry])
    /\ UNCHANGED <<entry, shortDumps>>

\* Or DumpLog returned an error: log.Fatal, and the old file is still there.
Crash == ProcessEnds /\ UNCHANGED <<file, entry, shortDumps>>

-----------------------------------------------------------------------------
(* CheckAndCorrect keeps the first entries, fewer than there are, and the  *)
(* deferred DumpLog writes them to a new file and renames it.              *)

\* Mutant of Rewritten: the file is not rewritten.
FileKept(entries) == file

Rewritten(entries) == Pieces(entries)

Cut(keep) ==
    /\ status = "up" /\ phase = "idle"
    /\ keep < Len(mem)
    /\ mem' = SubSeq(mem, 1, keep)
    /\ before' = mem
    /\ phase' = "dump"
    /\ UNCHANGED <<file, entry, status, ends, shortDumps>>

Dump ==
    /\ phase = "dump"
    /\ file' = Rewritten(mem)
    /\ phase' = "idle"
    /\ UNCHANGED <<mem, entry, status, before, ends, shortDumps>>

\* DumpLog drops the errors of SerializeEntry: out of space, it renames a file
\* that holds less than the log.
DumpShort ==
    /\ phase = "dump"
    /\ shortDumps < MaxShortDumps
    /\ shortDumps' = shortDumps + 1
    /\ \E k \in 0..(Len(mem) - 1) : \E tail \in {<<>>} \cup {<<t>> : t \in Torn(mem[k + 1])} :
         file' = Pieces(SubSeq(mem, 1, k)) \o tail
    /\ phase' = "idle"
    /\ UNCHANGED <<mem, entry, status, before, ends>>

-----------------------------------------------------------------------------
(* NewLog reads entries from the front.  DeserializeEntry tells a short    *)
(* length and short data, which are "corrupted", from a length with        *)
(* nothing behind it, which is io.EOF in the middle of an entry, an error. *)

\* Mutant of Readable: the size of the data is not compared with the length.
ReadableData(piece) == piece.part \in {"whole", "someData"}

Readable(piece) == piece.part = "whole"

ReadablePrefixes ==
    {k \in 0..Len(file) : \A i \in 1..k : Readable(file[i])}
NumReadable == CHOOSE k \in ReadablePrefixes : \A j \in ReadablePrefixes : j <= k

\* The pieces from the first one that is not an entry.
Rest == SubSeq(file, NumReadable + 1, Len(file))

\* What comes after a torn piece is read as a part of it: too short again, or
\* no JSON, which is an error like io.EOF.
Corrupted == Len(Rest) > 1 \/ (Len(Rest) = 1 /\ Rest[1].part # "length")
Unexpected == Len(Rest) > 1 \/ (Len(Rest) = 1 /\ Rest[1].part = "length")

\* The file was opened for reading: Truncate fails, and its error is dropped.
Start ==
    /\ status = "down"
    /\ Rest = <<>> \/ Corrupted
    /\ status' = "up"
    /\ mem' = [i \in 1..NumReadable |-> file[i].entry]
    /\ UNCHANGED <<file, phase, entry, before, ends, shortDumps>>

\* NewLog returns the error: main ends with log.Fatal, now and ever after.
StartFails ==
    /\ status = "down"
    /\ Unexpected
    /\ status' = "failed"
    /\ UNCHANGED <<file, mem, phase, entry, before, ends, shortDumps>>

Next ==
    \/ \E e \in Value : WriteLength(e)
    \/ WriteData
    \/ Grow
    \/ WriteFails
    \/ Crash
    \/ \E keep \in 0..MaxPieces : Cut(keep)
    \/ Dump
    \/ DumpShort
    \/ Start
    \/ StartFails

Spec == Init /\ [][Next]_vars

-----------------------------------------------------------------------------

(* A process that starts again has the log the last one had, or less of    *)
(* it, whatever that one was doing when it ended and whatever it found in  *)
(* the file: nothing is made up, and nothing is kept behind a gap          *)
(* (log.go:82-117), unless a rewrite failed in silence (log.go:128).  Only *)
(* what was under way may be back although memory did not have it: the     *)
(* entry of an append whose JSON was written (log.go:49, 152), or the      *)
(* entries of a cut whose file was not replaced yet (log.go:175-183, 138). *)
RestartIsPrefix ==
    [][status = "down" /\ status' = "up" /\ shortDumps = 0
         => IsPrefix(mem', before)]_vars

(* Between appends and cuts, what a restart would read is what the process *)
(* has, as long as the file has no torn piece; behind a torn piece nothing *)
(* is read, but what is in front of it is still right (log.go:141-187).    *)
FileFollowsMemory ==
    status = "up" /\ phase = "idle" /\ shortDumps = 0 =>
        /\ \A i \in 1..NumReadable : i <= Len(mem) /\ file[i].entry = mem[i]
        /\ Rest = <<>> => file = Pieces(mem)

(* "File %s is corrupted, truncated at offset" (log.go:106): a process that *)
(* runs, and is not writing, has a file of whole entries.                  *)
CorruptedIsTruncated ==
    status = "up" /\ phase = "idle" /\ shortDumps = 0
        => \A i \in DOMAIN file : file[i].part = "whole"

=============================================================================
