------------------------------- MODULE Imgfs -------------------------------
(***************************************************************************)
(* The imgFS store: do_open, do_close, do_insert, do_delete, do_read (with *)
(* lazily_resize) and do_list, as one process calls them one at a time.    *)
(*                                                                         *)
(* The library writes through a stdio FILE, so three copies of the store   *)
(* exist and the specification keeps them apart:                           *)
(*   header, metadata   the struct imgfs_file in memory;                   *)
(*   stream             the file as seen through the FILE, which includes  *)
(*                      what fwrite() has buffered;                        *)
(*   disk               the file as the kernel has it.                     *)
(* fseek() and fclose() flush the buffer (disk' = stream); fwrite() only   *)
(* changes stream.  A process that dies between two steps keeps what disk  *)
(* holds.  An action is what the code does from one flush to the next: no  *)
(* state between two flushes can be told apart after a crash.              *)
(*                                                                         *)
(* Abstractions.  SHA-256 has no collisions: an image is its own digest.   *)
(* The size of an image is left out (size[r] = 0 exactly when              *)
(* offset[r] = 0, and ORIG_RES of an entry in use is never empty, because  *)
(* get_resolution() refuses an empty buffer).  The contents area is a      *)
(* sequence of blobs, an offset the 1-based index of a blob, 0 no offset.  *)
(* do_delete goes on when a fseek() fails and writes where the FILE happens *)
(* to be.  Such a file is no longer intact: what it holds is left open, and *)
(* it is not opened again before do_create() replaced it.                  *)
(***************************************************************************)
EXTENDS Integers, Sequences, FiniteSets

CONSTANTS
    ImgIds,          \* identifiers clients ask for
    EmptyId,         \* the "" of a zeroed entry
    Images,          \* contents vips can decode
    NonImages,       \* contents it cannot decode
    NoImage,         \* the digest of a zeroed entry; no contents
    Torn,            \* the bytes a partial write of a blob leaves
    Resized,         \* the resolutions made on demand: THUMB_RES, SMALL_RES
    MaxFiles,        \* header.max_files
    VersionModulus,  \* 2^32 in the code: header.version is a uint32_t
    MaxContents,     \* bound: blobs in the file when an operation starts
    MaxFaults,       \* bound: flushes, large writes and resizes that fail
    MaxCrashes       \* bound: deaths of the process

ASSUME ImagesAssumption ==
    /\ NoImage \notin Images \cup NonImages
    /\ Images \cap NonImages = {}
ASSUME ResizedAssumption == Resized \subseteq {"thumb", "small"}
ASSUME SizesAssumption ==
    /\ MaxFiles \in Nat \ {0}
    /\ VersionModulus \in Nat \ {0}
    /\ MaxContents \in Nat
    /\ MaxFaults \in Nat
    /\ MaxCrashes \in Nat

VARIABLES
    mode,      \* how the file is open: "closed", "rb" or "rb+"
    header,    \* imgfs_file->header
    metadata,  \* imgfs_file->metadata
    stream,    \* the file seen through imgfs_file->file
    disk,      \* the file in the kernel
    call,      \* the call in progress and, once it returned, its result
    slot,      \* the loop variable i of the call
    pc,        \* the next flush of the call, "idle" or "return"
    faults,    \* faults so far
    crashes    \* crashes so far

vars == <<mode, header, metadata, stream, disk, call, slot, pc, faults, crashes>>
-----------------------------------------------------------------------------
Slots == 0 .. MaxFiles - 1
Resolutions == Resized \cup {"orig"}
NoOffsets == [r \in Resolutions |-> 0]

Header == [version : 0 .. VersionModulus - 1, nb_files : 0 .. MaxFiles]
Entry == [img_id : ImgIds \cup {EmptyId},
          SHA : Images \cup NonImages \cup {NoImage},
          offset : [Resolutions -> Nat],
          is_valid : BOOLEAN]
Content == [img : Images, res : Resolutions]
File == [header : Header, metadata : [Slots -> Entry],
         contents : Seq(Content \cup {Torn}),
         intact : BOOLEAN]  \* FALSE: something was written at the wrong place

EmptyEntry == [img_id |-> EmptyId, SHA |-> NoImage,
               offset |-> NoOffsets, is_valid |-> FALSE]
EmptyHeader == [version |-> 0, nb_files |-> 0]
EmptyMetadata == [i \in Slots |-> EmptyEntry]

\* The file do_create() leaves.
EmptyFile == [header |-> EmptyHeader, metadata |-> EmptyMetadata,
              contents |-> <<>>, intact |-> TRUE]

NoSlot == MaxFiles
Results == {"ERR_NONE", "ERR_IO", "ERR_IMGFS_FULL", "ERR_IMGLIB",
            "ERR_DUPLICATE_ID", "ERR_IMAGE_NOT_FOUND", "ERR_INVALID_IMGID"}
Calls == [op : {"none", "insert", "delete", "read", "STDOUT", "JSON"},
          id : ImgIds \cup {EmptyId},
          img : Images \cup NonImages \cup {NoImage},
          res : Resolutions,
          ret : Results \cup {"pending"},
          data : Content \cup {Torn, NoImage},
          ids : SUBSET (ImgIds \cup {EmptyId})]
NoCall == [op |-> "none", id |-> EmptyId, img |-> NoImage, res |-> "orig",
           ret |-> "pending", data |-> NoImage, ids |-> {}]
Call(op) == [NoCall EXCEPT !.op = op]
InsertCall(id, img) == [Call("insert") EXCEPT !.id = id, !.img = img]
DeleteCall(id) == [Call("delete") EXCEPT !.id = id]
ReadCall(id, res) == [Call("read") EXCEPT !.id = id, !.res = res]

\* uint32_t arithmetic.
NextVersion(v) == IF v = VersionModulus - 1 THEN 0 ELSE v + 1
PrevVersion(v) == IF v = 0 THEN VersionModulus - 1 ELSE v - 1

\* The header do_insert, do_delete and decr_header count with.  (The other
\* definitions of this group are mutants: what a plausible bug would do.)
InsertedUncounted(h) == [h EXCEPT !.version = NextVersion(@)]
Inserted(h) == [version |-> NextVersion(h.version), nb_files |-> h.nb_files + 1]
DeletedUncounted(h) == [h EXCEPT !.version = NextVersion(@)]
Deleted(h) == [version |-> NextVersion(h.version), nb_files |-> h.nb_files - 1]
Decremented(h) == [version |-> PrevVersion(h.version), nb_files |-> h.nb_files - 1]

\* The slot at which an ascending loop over the slots of S stops, and the one
\* it visits last; {} when S is empty.
FirstOf(S) == {i \in S : \A j \in S : i <= j}
LastOf(S) == {i \in S : \A j \in S : j <= i}

ValidSlots(md) == {i \in Slots : md[i].is_valid}
FreeSlots == Slots \ ValidSlots(metadata)
Named(id) == {i \in Slots : metadata[i].img_id = id}
-----------------------------------------------------------------------------
Idle == pc = "idle" /\ mode # "closed"
Writable == mode = "rb+"

\* The call c ends with error code r; a read has data, a list has ids.
Answer(c, r, data, ids) ==
    /\ call' = [c EXCEPT !.ret = r, !.data = data, !.ids = ids]
    /\ slot' = NoSlot
    /\ pc' = "return"
Refuse(c, r) == Answer(c, r, NoImage, {})

\* The call c goes on, at slot i, up to the flush named where.
Continue(c, i, where) == call' = c /\ slot' = i /\ pc' = where

\* fwrite() at the wrong place of the file f: over an entry, the header, a blob.
Misplace(f) == [f EXCEPT !.intact = FALSE]
\* fwrite() of a blob that does not get through.
Tear(f) == [f EXCEPT !.contents = Append(@, Torn)]

\* Every flush writes what is buffered, or drops it and may leave a prefix.
Flush == disk' = stream /\ UNCHANGED faults
DropBuffer ==
    \/ disk' = disk
    \/ /\ disk.metadata # stream.metadata
       /\ disk' = [disk EXCEPT !.header = stream.header]
    \/ /\ disk.contents # stream.contents
       /\ disk' = Tear(disk)
    \/ ~stream.intact /\ disk' = Misplace(disk)
Fault == faults < MaxFaults /\ faults' = faults + 1
FlushFails == Fault /\ stream # disk /\ DropBuffer
\* A blob is not appended: its fseek() fails, or after it the fwrite(), which
\* for a large blob writes to the file at once.
AppendFails ==
    /\ Fault
    /\ \/ stream # disk /\ DropBuffer
       \/ disk' \in {stream, Tear(stream)}

\* fwrite() of the header, of entry i, of a blob at the end of the file f.
WriteHeader(f, h) == [f EXCEPT !.header = h]
\* (Mutant: the seek to entry i is forgotten.)
WriteEntryUnseeked(f, i, e) == [f EXCEPT !.metadata[0] = e]
WriteEntry(f, i, e) == [f EXCEPT !.metadata[i] = e]
AppendBlob(f, img, res) ==
    [f EXCEPT !.contents = Append(@, [img |-> img, res |-> res])]
\* ftell() at SEEK_END.  (Mutant: ftell() after the fwrite().)
PastEndOf(f) == Len(f.contents) + 2
EndOf(f) == Len(f.contents) + 1
-----------------------------------------------------------------------------
\* do_open(): the header and all the metadata are read once.
Open(m) ==
    /\ mode = "closed" /\ disk.intact
    /\ mode' = m
    /\ header' = disk.header
    /\ metadata' = disk.metadata
    /\ UNCHANGED <<stream, disk, call, slot, pc, faults, crashes>>

\* do_create() in the place of a damaged file.
Create ==
    /\ mode = "closed" /\ ~disk.intact
    /\ disk' = EmptyFile /\ stream' = EmptyFile
    /\ UNCHANGED <<mode, header, metadata, call, slot, pc, faults, crashes>>

\* The process no longer has the store open.
Forget ==
    /\ mode' = "closed"
    /\ header' = EmptyHeader
    /\ metadata' = EmptyMetadata
    /\ call' = NoCall /\ slot' = NoSlot /\ pc' = "idle"
    /\ stream' = disk'

\* do_close(): fclose() flushes, and its result is not looked at.
Close ==
    /\ Idle
    /\ Flush \/ FlushFails
    /\ Forget
    /\ UNCHANGED crashes

\* The process ends before do_close(): killed (what is buffered is lost, or
\* was being written), or by exit(), which flushes the FILE.
Crash ==
    /\ mode # "closed" /\ crashes < MaxCrashes
    /\ DropBuffer \/ disk' = stream
    /\ Forget
    /\ crashes' = crashes + 1
    /\ UNCHANGED faults

\* The caller takes the result.
Return ==
    /\ pc = "return"
    /\ call' = NoCall /\ pc' = "idle"
    /\ UNCHANGED <<mode, header, metadata, stream, disk, slot, faults, crashes>>
-----------------------------------------------------------------------------
(***************************************************************************)
(* do_insert                                                               *)
(***************************************************************************)
HasRoom == header.nb_files < MaxFiles

InsertRefused(id, img) ==
    /\ Idle
    /\ \/ ~Writable /\ Refuse(InsertCall(id, img), "ERR_IO")
       \/ /\ Writable
          /\ ~HasRoom \/ FreeSlots = {}
          /\ Refuse(InsertCall(id, img), "ERR_IMGFS_FULL")
    /\ UNCHANGED <<mode, header, metadata, stream, disk, faults, crashes>>

\* The slot do_insert fills: the first that is not valid.
Insertable(i) ==
    /\ Idle /\ Writable
    /\ HasRoom
    /\ i \in FirstOf(FreeSlots)
    /\ Len(stream.contents) < MaxContents

FreshEntry(id, img, offset) ==
    [img_id |-> id, SHA |-> img, offset |-> offset, is_valid |-> FALSE]

\* do_name_and_content_dedup() at slot i: the other valid entries of the same
\* name, and those of the same contents that the loop meets before it stops at
\* a name.  The last of these gives its offsets.  (Mutants: the loop ends at
\* slot i, as if only the slots before it were in use.)
NamesakesBefore(i, id) ==
    {j \in ValidSlots(metadata) : j < i /\ metadata[j].img_id = id}
CopiesBefore(i, id, img) ==
    {j \in ValidSlots(metadata) : j < i /\ metadata[j].SHA = img}
Namesakes(i, id) == {j \in ValidSlots(metadata) \ {i} : metadata[j].img_id = id}
Copies(i, id, img) ==
    {j \in ValidSlots(metadata) \ {i} :
        metadata[j].SHA = img /\ \A k \in Namesakes(i, id) : j < k}
DedupOffsets(i, id, img) ==
    IF Copies(i, id, img) = {} THEN {NoOffsets}
    ELSE {metadata[j].offset : j \in LastOf(Copies(i, id, img))}

\* The slot is already overwritten, in memory only, when get_resolution() or
\* the dedup fails: an entry that is not valid but has the refused identifier.
InsertRejected(id, img) ==
    /\ \E i \in Slots :
        /\ Insertable(i)
        /\ \/ /\ img \in NonImages
              /\ metadata' = [metadata EXCEPT ![i] = FreshEntry(id, img, NoOffsets)]
              /\ Refuse(InsertCall(id, img), "ERR_IMGLIB")
           \/ /\ img \in Images
              /\ Namesakes(i, id) # {}
              /\ \E offset \in DedupOffsets(i, id, img) :
                    metadata' = [metadata EXCEPT ![i] = FreshEntry(id, img, offset)]
              /\ Refuse(InsertCall(id, img), "ERR_DUPLICATE_ID")
    /\ UNCHANGED <<mode, header, stream, disk, faults, crashes>>

\* Slot i becomes valid and is counted; the next step is fseek(0, SEEK_SET).
Commit(i, id, img, offset) ==
    /\ metadata' = [metadata EXCEPT ![i] =
                        [FreshEntry(id, img, offset) EXCEPT !.is_valid = TRUE]]
    /\ header' = Inserted(header)
    /\ Continue(InsertCall(id, img), i, "insert_header")

Acceptable(i, id, img) ==
    Insertable(i) /\ img \in Images /\ Namesakes(i, id) = {}

\* The same contents are stored already: nothing is appended.
InsertCopy(id, img) ==
    /\ \E i \in Slots : \E offset \in DedupOffsets(i, id, img) :
        /\ Acceptable(i, id, img)
        /\ offset["orig"] # 0
        /\ Commit(i, id, img, offset)
    /\ UNCHANGED <<mode, stream, disk, faults, crashes>>

\* New contents go to the end of the file: fseek(0, SEEK_END), then fwrite().
InsertNew(id, img) ==
    /\ \E i \in Slots : \E offset \in DedupOffsets(i, id, img) :
        /\ Acceptable(i, id, img)
        /\ offset["orig"] = 0
        /\ \/ /\ Flush
              /\ stream' = AppendBlob(stream, img, "orig")
              /\ Commit(i, id, img, [offset EXCEPT !["orig"] = EndOf(stream)])
           \/ /\ AppendFails
              /\ stream' = disk'
              /\ metadata' = [metadata EXCEPT ![i] = FreshEntry(id, img, offset)]
              /\ Refuse(InsertCall(id, img), "ERR_IO")
              /\ UNCHANGED header
    /\ UNCHANGED <<mode, crashes>>

\* fseek(0, SEEK_SET), fwrite(header).  The entry is valid in memory already.
InsertHeader ==
    /\ pc = "insert_header"
    /\ \/ /\ Flush
          /\ stream' = WriteHeader(stream, header)
          /\ Continue(call, slot, "insert_entry")
       \/ /\ FlushFails
          /\ stream' = disk'
          /\ Refuse(call, "ERR_IO")
    /\ UNCHANGED <<mode, header, metadata, crashes>>

\* fseek(i * sizeof(struct img_metadata), SEEK_CUR), fwrite(metadata[i]); if
\* the fseek fails, decr_header() takes the counters back, in memory and file.
InsertEntry ==
    /\ pc = "insert_entry"
    /\ \/ /\ Flush
          /\ stream' = WriteEntry(stream, slot, metadata[slot])
          /\ Refuse(call, "ERR_NONE")
          /\ UNCHANGED header
       \/ /\ FlushFails
          /\ header' = Decremented(header)
          /\ stream' = WriteHeader(disk', header')
          /\ Refuse(call, "ERR_IO")
    /\ UNCHANGED <<mode, metadata, crashes>>
-----------------------------------------------------------------------------
(***************************************************************************)
(* do_delete                                                               *)
(***************************************************************************)
\* (Mutant: the count is not looked at.)
CountsAny == FALSE
CountsNone == header.nb_files = 0

\* The first entry of that name decides, valid or not.
DeleteRefused(id) ==
    /\ Idle
    /\ \/ ~Writable /\ Refuse(DeleteCall(id), "ERR_IO")
       \/ /\ Writable
          /\ \/ CountsNone
             \/ \A i \in FirstOf(Named(id)) : ~metadata[i].is_valid
          /\ Refuse(DeleteCall(id), "ERR_IMAGE_NOT_FOUND")
    /\ UNCHANGED <<mode, header, metadata, stream, disk, faults, crashes>>

\* The entry is cleared and the header counted in memory; then
\* fseek(0, SEEK_SET), fwrite(header).  The result of fseek() is not looked at:
\* when its flush fails, what was buffered is dropped and the header goes where
\* that was to go.  (It counts as misplaced also when that is its place.)
DeleteHeader(id) ==
    /\ Idle /\ Writable /\ ~CountsNone
    /\ \E i \in FirstOf(Named(id)) :
        /\ metadata[i].is_valid
        /\ metadata' = [metadata EXCEPT ![i].is_valid = FALSE]
        /\ Continue(DeleteCall(id), i, "delete_entry")
    /\ header' = Deleted(header)
    /\ \/ Flush /\ stream' = WriteHeader(stream, header')
       \/ FlushFails /\ stream' = Misplace(disk')
    /\ UNCHANGED <<mode, crashes>>

\* fseek(i * sizeof(struct img_metadata), SEEK_CUR), fwrite(metadata[i]); again
\* fseek() may fail, and do_delete answers ERR_NONE all the same.
DeleteEntry ==
    /\ pc = "delete_entry"
    /\ \/ Flush /\ stream' = WriteEntry(stream, slot, metadata[slot])
       \/ FlushFails /\ stream' = Misplace(disk')
    /\ Refuse(call, "ERR_NONE")
    /\ UNCHANGED <<mode, header, metadata, crashes>>
-----------------------------------------------------------------------------
(***************************************************************************)
(* do_read and lazily_resize                                               *)
(***************************************************************************)
\* What fread() at an offset of file f gets: the end of the file, or a blob.
\* A torn blob that something follows yields its bytes and some of the next.
Readable(f, offset) ==
    /\ offset \in 1 .. Len(f.contents)
    /\ f.contents[offset] = Torn => offset < Len(f.contents)

Decodable(f, offset) == Readable(f, offset) /\ f.contents[offset] # Torn

\* fseek(offset), fread(): nothing is buffered afterwards.  In a damaged file
\* the blob may be overwritten.
Fetch(c, offset) ==
    \/ /\ Flush
       /\ UNCHANGED stream
       /\ IF Readable(stream, offset)
          THEN \/ Answer(c, "ERR_NONE", stream.contents[offset], {})
               \/ ~stream.intact /\ Answer(c, "ERR_NONE", Torn, {})
          ELSE Refuse(c, "ERR_IO")
    \/ /\ FlushFails
       /\ stream' = disk'
       /\ Refuse(c, "ERR_IO")

\* The first entry of that name decides, valid or not; a resolution that was
\* never made cannot be made in a file opened for reading.
ReadRefused(id, res) ==
    /\ Idle
    /\ \/ /\ Named(id) = {}
          /\ Refuse(ReadCall(id, res), "ERR_IMAGE_NOT_FOUND")
       \/ \E i \in FirstOf(Named(id)) :
            \/ /\ ~metadata[i].is_valid
               /\ Refuse(ReadCall(id, res), "ERR_INVALID_IMGID")
            \/ /\ metadata[i].is_valid
               /\ metadata[i].offset[res] = 0 /\ ~Writable
               /\ Refuse(ReadCall(id, res), "ERR_IO")
    /\ UNCHANGED <<mode, header, metadata, stream, disk, faults, crashes>>

ReadStored(id, res) ==
    /\ Idle
    /\ \E i \in FirstOf(Named(id)) :
        /\ metadata[i].is_valid
        /\ metadata[i].offset[res] # 0
        /\ Fetch(ReadCall(id, res), metadata[i].offset[res])
    /\ UNCHANGED <<mode, header, metadata, crashes>>

\* lazily_resize() makes the missing resolution from the original and appends
\* it; when that fails (a flush, or vips) do_read goes on with no offset.
ReadResize(id, res) ==
    /\ Idle /\ Writable /\ res \in Resized
    /\ Len(stream.contents) < MaxContents
    /\ \E i \in FirstOf(Named(id)) :
        LET orig == metadata[i].offset["orig"]
        IN  /\ metadata[i].is_valid /\ metadata[i].offset[res] = 0
            /\ \/ /\ Flush
                  /\ Decodable(stream, orig)
                  /\ stream' = AppendBlob(stream, stream.contents[orig].img, res)
                  /\ metadata' = [metadata EXCEPT ![i].offset[res] = EndOf(stream)]
                  /\ Continue(ReadCall(id, res), i, "resize_header")
               \/ /\ \/ Flush /\ ~(stream.intact /\ Decodable(stream, orig))
                     \/ AppendFails
                  /\ stream' = disk'
                  /\ Continue(ReadCall(id, res), i, "read_fetch")
                  /\ UNCHANGED metadata
    /\ UNCHANGED <<mode, header, crashes>>

\* fwrite(imgfs_file->metadata, sizeof(struct img_metadata), 1, file): the first
\* entry of the table, whichever was resized.
\* (Mutant: the whole table, as it is in memory.)
WriteTable(f) == [f EXCEPT !.metadata = metadata]
WriteFirstEntry(f) == WriteEntry(f, 0, metadata[0])

\* fseek(0, SEEK_SET), then fwrite() of the header and of that entry.
ResizeHeader ==
    /\ pc = "resize_header"
    /\ \/ /\ Flush
          /\ stream' = WriteFirstEntry(WriteHeader(stream, header))
       \/ /\ FlushFails
          /\ stream' = disk'
    /\ Continue(call, slot, "read_fetch")
    /\ UNCHANGED <<mode, header, metadata, crashes>>

ReadFetch ==
    /\ pc = "read_fetch"
    /\ Fetch(call, metadata[slot].offset[call.res])
    /\ UNCHANGED <<mode, header, metadata, crashes>>
-----------------------------------------------------------------------------
(***************************************************************************)
(* do_list: JSON lists the valid entries; STDOUT says the store is empty   *)
(* when the header counts no file.                                         *)
(***************************************************************************)
ListedIds == {metadata[i].img_id : i \in ValidSlots(metadata)}

List(output) ==
    /\ Idle
    /\ Answer(Call(output), "ERR_NONE", NoImage,
              IF output = "STDOUT" /\ header.nb_files = 0 THEN {} ELSE ListedIds)
    /\ UNCHANGED <<mode, header, metadata, stream, disk, faults, crashes>>
-----------------------------------------------------------------------------
Init ==
    /\ mode = "closed"
    /\ header = EmptyHeader
    /\ metadata = EmptyMetadata
    /\ stream = EmptyFile
    /\ disk = EmptyFile
    /\ call = NoCall /\ slot = NoSlot /\ pc = "idle"
    /\ faults = 0
    /\ crashes = 0

Insert(id, img) ==
    \/ InsertRefused(id, img)
    \/ InsertRejected(id, img)
    \/ InsertCopy(id, img)
    \/ InsertNew(id, img)
Delete(id) == DeleteRefused(id) \/ DeleteHeader(id)
Read(id, res) == ReadRefused(id, res) \/ ReadStored(id, res) \/ ReadResize(id, res)

\* The steps that take a call in progress further.
Step ==
    \/ InsertHeader \/ InsertEntry
    \/ DeleteEntry
    \/ ResizeHeader \/ ReadFetch
    \/ Return

Next ==
    \/ \E m \in {"rb", "rb+"} : Open(m)
    \/ Create
    \/ Close
    \/ Crash
    \/ \E id \in ImgIds, img \in Images \cup NonImages : Insert(id, img)
    \/ \E id \in ImgIds : Delete(id)
    \/ \E id \in ImgIds, res \in Resolutions : Read(id, res)
    \/ \E output \in {"STDOUT", "JSON"} : List(output)
    \/ Step

Spec == Init /\ [][Next]_vars
-----------------------------------------------------------------------------
(***************************************************************************)
(* Properties                                                              *)
(***************************************************************************)
\* Every copy of the store has its type: in particular header.nb_files, a
\* uint32_t that do_delete and decr_header decrement, stays in 0..max_files, in
\* memory whatever becomes of the file, and in every file that is intact.
TypeOK ==
    /\ mode \in {"closed", "rb", "rb+"}
    /\ header \in Header
    /\ metadata \in [Slots -> Entry]
    /\ stream \in File
    /\ disk \in File
    /\ call \in Calls
    /\ slot \in Slots \cup {NoSlot}
    /\ pc \in {"idle", "return", "insert_header", "insert_entry",
              "delete_entry", "resize_header", "read_fetch"}
    /\ slot = NoSlot <=> pc \in {"idle", "return"}
    /\ faults \in 0 .. MaxFaults
    /\ crashes \in 0 .. MaxCrashes

\* No two valid entries have the same identifier.
Unique(md) ==
    \A i, j \in ValidSlots(md) : md[i].img_id = md[j].img_id => i = j

\* The database does not contain two images with the same identifier: not in
\* memory, and not in any file a crash can leave, although do_insert checks
\* the names in memory only and its entry is written two flushes later.
UniqueIds == Unique(metadata) /\ Unique(stream.metadata) /\ Unique(disk.metadata)

\* Every offset of a valid entry of md is that of a blob of the contents, made
\* from the image whose digest the entry holds, in that resolution.
Stored(md, contents) ==
    \A i \in ValidSlots(md) : \A r \in Resolutions :
        LET offset == md[i].offset[r]
        IN  \/ r # "orig" /\ offset = 0
            \/ /\ offset \in 1 .. Len(contents)
               /\ contents[offset] = [img |-> md[i].SHA, res |-> r]

\* An entry never reaches the file before the contents it points to: what a
\* crash leaves can be read back, and so can what memory says.
ContentsMatch ==
    /\ Stored(metadata, stream.contents)
    /\ Stored(stream.metadata, stream.contents)
    /\ Stored(disk.metadata, disk.contents)

\* De-duplication: valid entries with the same contents share one copy of the
\* original, whatever was deleted, resized, refused or lost before.
Deduplicated(md) ==
    \A i, j \in ValidSlots(md) :
        md[i].SHA = md[j].SHA => md[i].offset["orig"] = md[j].offset["orig"]
StoredOnce == Deduplicated(metadata) /\ Deduplicated(disk.metadata)

\* header.nb_files counts the valid entries.  Header and entry are two writes: a
\* crash can put it one off, for good, and a flush that fails two, the entry the
\* previous call left in the buffer and the one of the call it hits.  A deletion
\* that writes at the wrong place leaves a file no count is true of, but in
\* memory header and entries still agree.
Drift(h, md) == h.nb_files - Cardinality(ValidSlots(md))
CountDrift ==
    LET most == crashes + 2 * faults
    IN  IF mode = "closed"
        THEN disk.intact => Drift(disk.header, disk.metadata) \in -most .. most
        ELSE Drift(header, metadata) \in -most .. most

\* Between calls the file (with what is buffered) says what memory says: the
\* counters, and which images are there and where their originals are.
SameImage(e, f) ==
    /\ e.is_valid = f.is_valid
    /\ e.is_valid => /\ e.img_id = f.img_id
                     /\ e.SHA = f.SHA
                     /\ e.offset["orig"] = f.offset["orig"]
FileFollowsMemory ==
    Idle => /\ header = stream.header
            /\ \A i \in Slots : SameImage(metadata[i], stream.metadata[i])

\* do_read and do_delete stop at the first entry of the name, valid or not.  In
\* the file an entry that is not valid can come before the valid one of the
\* same name only in slot 0, where lazily_resize() writes: opening the store
\* again makes every other image visible.
Shadows(md, i, j) ==
    i < j /\ ~md[i].is_valid /\ md[j].is_valid /\ md[i].img_id = md[j].img_id
OnlyFirstSlotShadows ==
    \A i, j \in Slots : Shadows(disk.metadata, i, j) => i = 0

\* do_list on stdout and an insertion refused for lack of room follow
\* header.nb_files, not the entries: while nothing fails they tell the truth.
CountersTellTruth ==
    (pc = "return" /\ crashes + faults = 0) =>
        /\ call.op = "STDOUT" => call.ids = ListedIds
        /\ call.ret = "ERR_IMGFS_FULL" => FreeSlots = {}

\* (Refuted.)  The offset of a resolution made by do_read is written to the
\* file with the entry of its image.
ResizeIsStored ==
    pc = "return" /\ call.op = "read" /\ call.ret = "ERR_NONE" =>
        \A i \in ValidSlots(stream.metadata) :
            stream.metadata[i].img_id = call.id =>
                stream.metadata[i].offset[call.res] # 0

\* The images of a metadata table.
Live(md) == {<<md[i].img_id, md[i].SHA>> : i \in ValidSlots(md)}

\* The abstract database: what the FILE holds, and what a crash would leave.
Database == INSTANCE ImageDatabase WITH
    db <- Live(stream.metadata), durable <- Live(disk.metadata)

\* The store is a database of images (see ImageDatabase): an answer is true of
\* it, a call that succeeds changes it once, and a crash, at any point, takes
\* back at most the last change.
IsImageDatabase == Database!Spec
=============================================================================
