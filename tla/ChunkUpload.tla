---------------------------- MODULE ChunkUpload ----------------------------
(***************************************************************************)
(* The v1 lane of one upload session: /upload_chunk appends to data.part   *)
(* at the offset that its size gives.  The offset is checked under the     *)
(* session's mutex, the body is appended without it, and the size is       *)
(* looked at again afterwards.  Each critical section only reads, and the  *)
(* mutex excludes nothing else, so each is one step and the mutex itself   *)
(* is left out.                                                            *)
(***************************************************************************)
EXTENDS Integers, Sequences, FiniteSets, SequencesExt

CONSTANTS
  Writers,  \* the goroutines that serve requests
  Inodes,   \* the files that data.part can be, one per incarnation
  File,     \* the file that clients upload, a sequence of units
  NoInode   \* no inode

Size == Len(File)

ASSUME ChunkAssumption ==
  /\ File \in Seq(Range(File)) \ {<<>>}
  /\ NoInode \notin Inodes

VARIABLES
  dir,     \* does the session's directory exist?
  meta,    \* is there a (v1) meta.json in it?
  part,    \* the inode that the name data.part leads to, or NoInode
  disk,    \* the content of every inode
  saved,   \* the inodes renamed into the shared folder
  chunk,   \* what each goroutine is doing
  born,    \* history: the incarnations the session has had
  acked,   \* history: <<inode, from, to>> of the chunks answered with 200
  serial   \* history: did no chunk or session begin with a body in hand?

chunkvars == <<dir, meta, part, disk, saved, chunk, born, acked, serial>>

ChunkPCs == {"idle", "new", "check", "open", "append", "confirm", "hash", "place"}

ChunkIdle == [pc |-> "idle", from |-> 0, pos |-> 0, to |-> 0, fd |-> NoInode, hash |-> FALSE]

ChunkRequest ==
  [pc   : ChunkPCs,
   from : 0 .. Size,               \* the offset asked for,
   pos  : 0 .. Size,               \* the next unit of the body
   to   : 0 .. Size,               \* and the end of the body
   fd   : Inodes \cup {NoInode},   \* the open data.part
   hash : BOOLEAN]                 \* does the completion carry full_hash?

ChunkTypeOK ==
  /\ dir \in BOOLEAN /\ meta \in BOOLEAN
  /\ part \in Inodes \cup {NoInode}
  /\ \A n \in Inodes : disk[n] \in Seq(Range(File))
  /\ saved \subseteq Inodes
  /\ chunk \in [Writers -> ChunkRequest]
  /\ born \subseteq Inodes
  /\ acked \subseteq Inodes \X (0 .. Size) \X (0 .. Size)
  /\ serial \in BOOLEAN

ChunkInit ==
  /\ dir = FALSE
  /\ meta = FALSE
  /\ part = NoInode
  /\ disk = [n \in Inodes |-> <<>>]
  /\ saved = {}
  /\ chunk = [p \in Writers |-> ChunkIdle]
  /\ born = {}
  /\ acked = {}
  /\ serial = TRUE

-----------------------------------------------------------------------------
GoTo(p, pc) == chunk' = [chunk EXCEPT ![p].pc = pc]
Reply(p) == chunk' = [chunk EXCEPT ![p] = ChunkIdle]

(* Is the body of a chunk on its way from the check to the last byte?      *)
BodyInHand == \E q \in Writers : chunk[q].pc \in {"open", "append"}

(* sessReceived: the size of the file that has the name now.               *)
sessReceived == IF part = NoInode THEN 0 ELSE Len(disk[part])

(* OpenFile with O_CREATE|O_APPEND: the file there is, or a new one.  It   *)
(* fails without the directory (or when the bound Inodes is used up).      *)
OpenAppend(n) ==
  /\ dir
  /\ \/ /\ part = n
        /\ UNCHANGED <<part, born>>
     \/ /\ part = NoInode
        /\ n \in Inodes \ born
        /\ part' = n
        /\ born' = born \cup {n}
CannotOpen == ~dir \/ (part = NoInode /\ born = Inodes)

-----------------------------------------------------------------------------
(* /upload_init, which resumes a session without a change or makes one,    *)
(* in steps that take no mutex and look at no error: a full disk leaves a  *)
(* meta.json that cannot be read, or no data.part.                         *)
InitStart(p) ==
  /\ chunk[p].pc = "idle"
  /\ ~meta
  /\ dir' = TRUE
  /\ GoTo(p, "new")
  /\ serial' = (serial /\ ~BodyInHand)
  /\ UNCHANGED <<meta, part, disk, saved, born, acked>>

InitNew(p) ==
  /\ chunk[p].pc = "new"
  /\ meta' \in IF dir THEN BOOLEAN ELSE {meta}
  /\ (\E n \in Inodes : OpenAppend(n)) \/ UNCHANGED <<part, born>>
  /\ Reply(p)
  /\ UNCHANGED <<dir, disk, saved, acked, serial>>

-----------------------------------------------------------------------------
(* /upload_chunk.  Clients send the units of their file from an offset on. *)
ChunkStart(p) ==
  /\ chunk[p].pc = "idle"
  /\ meta
  /\ \E from, to \in 0 .. Size :
        /\ from < to
        /\ chunk' = [chunk EXCEPT ![p] = [ChunkIdle EXCEPT !.pc = "check",
                        !.from = from, !.pos = from, !.to = to]]
  /\ UNCHANGED <<dir, meta, part, disk, saved, born, acked, serial>>

(* Lock, compare the offset with the size, unlock.  That the chunk fits    *)
(* follows: no client sends more than its file.                            *)
MutAtMost(p) == chunk[p].from <= sessReceived
AtOffset(p) == chunk[p].from = sessReceived

ChunkCheck(p) ==
  /\ chunk[p].pc = "check"
  /\ IF AtOffset(p)
     THEN /\ GoTo(p, "open")
          /\ serial' = (serial /\ ~BodyInHand)
     ELSE /\ Reply(p)
          /\ UNCHANGED serial
  /\ UNCHANGED <<dir, meta, part, disk, saved, born, acked>>

ChunkOpen(p) ==
  /\ chunk[p].pc = "open"
  /\ \/ \E n \in Inodes :
           /\ OpenAppend(n)
           /\ chunk' = [chunk EXCEPT ![p].pc = "append", ![p].fd = n]
     \/ /\ CannotOpen
        /\ Reply(p)
        /\ UNCHANGED <<part, born>>
  /\ UNCHANGED <<dir, meta, disk, saved, acked, serial>>

(* One round of streamBodyToFile: O_APPEND puts it at the end the file has *)
(* then, and the descriptor follows the file, not its name.                *)
ChunkAppend(p) ==
  LET r == chunk[p]
  IN /\ r.pc = "append"
     /\ r.pos < r.to
     /\ disk' = [disk EXCEPT ![r.fd] = Append(@, File[r.pos + 1])]
     /\ chunk' = [chunk EXCEPT ![p].pos = r.pos + 1]
     /\ UNCHANGED <<dir, meta, part, saved, born, acked, serial>>

(* The client goes away, its body ends early, or the disk fails.           *)
ChunkAbort(p) ==
  /\ chunk[p].pc = "append"
  /\ chunk[p].pos < chunk[p].to
  /\ Reply(p)
  /\ UNCHANGED <<dir, meta, part, disk, saved, born, acked, serial>>

(* All written: the size must be what this chunk alone makes of it.        *)
MutNoGuard(r) == TRUE
MutAtLeast(r) == sessReceived >= r.to
Alone(r) == sessReceived = r.to

ChunkConfirm(p) ==
  LET r == chunk[p]
  IN /\ r.pc = "append"
     /\ r.pos = r.to
     /\ acked' = IF Alone(r) THEN acked \cup {<<part, r.from, r.to>>} ELSE acked
     /\ Reply(p)
     /\ UNCHANGED <<dir, meta, part, disk, saved, born, serial>>

-----------------------------------------------------------------------------
(* /upload_complete: the size under the mutex, the hash without it, the    *)
(* size again under the mutex, the rename and the removal of the session   *)
(* (a chunk that opens data.part between those two gets a file that is     *)
(* removed with the rest, which is to it as if it could not open one).     *)
MutAtLeastOne == meta /\ sessReceived > 0
AllReceived == meta /\ sessReceived = Size

CompleteCheck(p) ==
  /\ chunk[p].pc = "idle"
  /\ AllReceived
  /\ \E hash \in BOOLEAN :
        chunk' = [chunk EXCEPT ![p] = [ChunkIdle EXCEPT !.pc = "hash", !.hash = hash]]
  /\ UNCHANGED <<dir, meta, part, disk, saved, born, acked, serial>>

CompleteHash(p) ==
  /\ chunk[p].pc = "hash"
  /\ IF chunk[p].hash => (part # NoInode /\ disk[part] = File)
     THEN GoTo(p, "place")
     ELSE Reply(p)
  /\ UNCHANGED <<dir, meta, part, disk, saved, born, acked, serial>>

CompletePlace(p) ==
  /\ chunk[p].pc = "place"
  /\ \/ /\ AllReceived
        /\ saved' = saved \cup {part}
        /\ part' = NoInode
        /\ meta' = FALSE
        /\ dir' = FALSE
     \/ UNCHANGED <<dir, meta, part, saved>>
  /\ Reply(p)
  /\ UNCHANGED <<disk, born, acked, serial>>

-----------------------------------------------------------------------------
(* SweepUploads and /api/temp/clean; a stop or kill of the server.         *)
RemoveAll ==
  /\ dir
  /\ dir' = FALSE
  /\ meta' = FALSE
  /\ part' = NoInode
  /\ UNCHANGED <<disk, saved, chunk, born, acked, serial>>

Restart ==
  /\ chunk' = [p \in Writers |-> ChunkIdle]
  /\ UNCHANGED <<dir, meta, part, disk, saved, born, acked, serial>>

ChunkNext ==
  \/ \E p \in Writers :
       \/ InitStart(p) \/ InitNew(p)
       \/ ChunkStart(p) \/ ChunkCheck(p) \/ ChunkOpen(p)
       \/ ChunkAppend(p) \/ ChunkAbort(p) \/ ChunkConfirm(p)
       \/ CompleteCheck(p) \/ CompleteHash(p) \/ CompletePlace(p)
  \/ RemoveAll
  \/ Restart

ChunkSpec == ChunkInit /\ [][ChunkNext]_chunkvars

-----------------------------------------------------------------------------
(* As long as clients send one body at a time, which they may abort, retry *)
(* and begin again after sweeps and restarts as often as they like, no     *)
(* data.part ever holds anything but the beginning of the file ...         *)
IsBeginning(s) == Len(s) <= Size /\ s = SubSeq(File, 1, Len(s))
PartIsBeginning == serial => \A n \in Inodes : IsBeginning(disk[n])

(* ... and what is published is the file, whatever the completions see.    *)
SavedIsFile == serial => \A n \in saved : disk[n] = File

(* One body at a time: nothing but the file.                               *)
ChunkInv == ChunkTypeOK /\ PartIsBeginning /\ SavedIsFile

(* Also when bodies overlap, if only the session has but one life: a chunk *)
(* that was answered with 200 lies at its offset, whatever was appended.   *)
AckedIsStored ==
  serial \/ Cardinality(born) <= 1 =>
    \A a \in acked :
      /\ a[1] # NoInode
      /\ a[3] <= Len(disk[a[1]])
      /\ SubSeq(disk[a[1]], a[2] + 1, a[3]) = SubSeq(File, a[2] + 1, a[3])

=============================================================================
