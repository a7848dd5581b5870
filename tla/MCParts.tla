------------------------------ MODULE MCParts -------------------------------
(* The parts that share no state with each other, for TLC: a behaviour is  *)
(* of one of them.  The accounting of ranges, the two caches and the files *)
(* at a start are machines; of the other algorithms a behaviour is one     *)
(* step to an input.                                                       *)
EXTENDS Ranges, ByteRange, FolderWalk, StoreZip, ZipExtract,
        HashCache, ListCache, Restore

VARIABLE of

inputs == <<request, folder, archive, upload>>
vars == <<meta, inputs, hashvars, listvars, restorevars, of>>

TypeOK == HashTypeOK /\ ListTypeOK /\ RestoreTypeOK

MCInit ==
  /\ Init /\ HashInit /\ ListInit /\ RestoreInit
  /\ request = Blank /\ folder = NoFolder /\ archive = NoArchive /\ upload = NoUpload
  /\ of \in {"ranges", "request", "folder", "archive", "upload",
            "hashes", "lists", "restore"}

FolderSizes == [n \in 1 .. Nodes |-> n]

Fresh == inputs = <<Blank, NoFolder, NoArchive, NoUpload>>

RangesStep  == of = "ranges" /\ Next /\ UNCHANGED <<inputs, hashvars, listvars, restorevars, of>>
HashStep    == of = "hashes" /\ HashNext /\ UNCHANGED <<meta, inputs, listvars, restorevars, of>>
ListStep    == of = "lists" /\ ListNext /\ UNCHANGED <<meta, inputs, hashvars, restorevars, of>>
RestoreStep == of = "restore" /\ RestoreNext /\ UNCHANGED <<meta, inputs, hashvars, listvars, of>>
RequestStep == of = "request" /\ Fresh /\ request' \in Requests /\ UNCHANGED <<folder, archive, upload>>
FolderStep  == of = "folder" /\ Fresh /\ folder' \in Folders /\ UNCHANGED <<request, archive, upload>>
ArchiveStep == of = "archive" /\ Fresh /\ archive' \in Archives /\ UNCHANGED <<request, folder, upload>>
UploadStep  == of = "upload" /\ Fresh /\ upload' \in Uploads /\ UNCHANGED <<request, folder, archive>>

InputStep ==
  /\ RequestStep \/ FolderStep \/ ArchiveStep \/ UploadStep
  /\ UNCHANGED <<meta, hashvars, listvars, restorevars, of>>

MCNext == RangesStep \/ HashStep \/ ListStep \/ RestoreStep \/ InputStep

(* A request for a hash that can go on does.                               *)
MCSpec ==
  /\ MCInit
  /\ [][MCNext]_vars
  /\ \A p \in Askers :
       WF_vars(of = "hashes" /\ Step(p) /\ UNCHANGED <<meta, inputs, listvars, restorevars, of>>)
=============================================================================
