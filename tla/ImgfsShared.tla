---------------------------- MODULE ImgfsShared ----------------------------
(***************************************************************************)
(* Several processes on one imgFS file: imgfscmd run beside the server, or *)
(* beside another imgfscmd.                                                *)
(*                                                                         *)
(* do_open() reads the header and the table once; from then on each process *)
(* decides by its own copies and writes them through its own FILE.  There  *)
(* is no lock on the file.  What a process decides is what Imgfs decides   *)
(* on the copies of that process (Proc(p)); this module says how the       *)
(* writes of one process reach the file the others read.                   *)
(*                                                                         *)
(* Every blob has the same size here: two processes that append at the     *)
(* same offset overwrite each other's blob.  Calls that change neither the *)
(* file nor the copies of the process (do_list, most refusals) are Imgfs's *)
(* subject and left out here, and so are flushes that fail.                *)
(***************************************************************************)
EXTENDS Integers, Sequences, SequencesExt, FiniteSetsExt

CONSTANTS
    Procs,  \* the processes
    ImgIds, EmptyId, Images, NonImages, NoImage, Torn, Resized,  \* of Imgfs
    MaxFiles, VersionModulus, MaxContents, MaxCrashes,
    MaxChanges  \* bound: calls that change the file

ASSUME SharedAssumption ==
    /\ Resized \subseteq {"thumb", "small"}
    /\ MaxFiles \in Nat \ {0} /\ VersionModulus \in Nat \ {0}
    /\ MaxCrashes \in Nat /\ MaxChanges \in Nat

VARIABLES
    disk,      \* the file in the kernel
    mode, header, metadata, call, slot, pc,  \* of Imgfs, for each process
    pending,   \* what fwrite() has buffered in each process's FILE
    stale,     \* history: the file was changed by another since do_open()
    torn,      \* history: the table was changed while do_open() read it
    inserted,  \* history: the images do_insert() accepted
    spoiled,   \* history: a process changed the file from a stale copy
    crashes,   \* crashes so far
    changes    \* calls that changed the file so far

vars == <<disk, mode, header, metadata, call, slot, pc, pending,
          stale, torn, inserted, spoiled, crashes, changes>>
-----------------------------------------------------------------------------
\* A buffered write: of the header, of an entry, of a blob at an offset.
\* (Mutant: the seek to the entry is forgotten.)
HeaderWrite(h) == [to |-> "header", at |-> 0, value |-> h]
EntryWriteUnseeked(i, e) == [to |-> "entry", at |-> 0, value |-> e]
EntryWrite(i, e) == [to |-> "entry", at |-> i, value |-> e]
BlobWrite(at, b) == [to |-> "blob", at |-> at, value |-> b]

Write(f, w) ==
    CASE w.to = "header" -> [f EXCEPT !.header = w.value]
      [] w.to = "entry"  -> [f EXCEPT !.metadata[w.at] = w.value]
      [] w.to = "blob" /\ w.at \in DOMAIN f.contents -> [f EXCEPT !.contents[w.at] = w.value]
      [] OTHER -> [f EXCEPT !.contents = Append(@, w.value)]
Written(f, writes) == FoldLeft(Write, f, writes)

\* What process p decides with: Imgfs on its own copies.
Proc(p) == INSTANCE Imgfs WITH
    mode <- mode[p], header <- header[p], metadata <- metadata[p],
    stream <- Written(disk, pending[p]), call <- call[p], slot <- slot[p],
    pc <- pc[p], faults <- 0, MaxFaults <- 0
One == CHOOSE p \in Procs : TRUE
Slots == Proc(One)!Slots
EmptyFile == Proc(One)!EmptyFile
NoSlot == Proc(One)!NoSlot
NoCall == Proc(One)!NoCall
Resolutions == Proc(One)!Resolutions

Init ==
    /\ disk = EmptyFile
    /\ mode = [p \in Procs |-> "closed"]
    /\ header = [p \in Procs |-> EmptyFile.header]
    /\ metadata = [p \in Procs |-> EmptyFile.metadata]
    /\ call = [p \in Procs |-> NoCall]
    /\ slot = [p \in Procs |-> NoSlot]
    /\ pc = [p \in Procs |-> "idle"]
    /\ pending = [p \in Procs |-> <<>>]
    /\ stale = [p \in Procs |-> FALSE]
    /\ torn = [p \in Procs |-> FALSE]
    /\ inserted = {}
    /\ spoiled = FALSE
    /\ crashes = 0
    /\ changes = 0
-----------------------------------------------------------------------------
\* fseek() and fclose() write what the FILE of p has buffered.
Flush(p) == disk' = Written(disk, pending[p])
Buffer(p, writes) == pending' = [pending EXCEPT ![p] = writes]

Continue(p, c, i, where) ==
    /\ call' = [call EXCEPT ![p] = c]
    /\ slot' = [slot EXCEPT ![p] = i]
    /\ pc' = [pc EXCEPT ![p] = where]
Answer(p, c, data) == Continue(p, [c EXCEPT !.ret = "ERR_NONE", !.data = data], NoSlot, "return")

\* p is changing the file, or has changes that are not in it yet.
Changing(p) == pending[p] # <<>> \/ pc[p] \notin {"idle", "return", "open"}

\* p starts to change the file: the copies of the others are stale from now on.
Changes(p) ==
    /\ changes < MaxChanges /\ changes' = changes + 1
    /\ spoiled' = (spoiled \/ stale[p])
    /\ stale' = [q \in Procs |-> stale[q] \/ (q # p /\ mode[q] # "closed")]
    /\ UNCHANGED <<mode, torn, crashes>>
KeepsHistory == UNCHANGED <<mode, stale, torn, inserted, spoiled, crashes, changes>>
-----------------------------------------------------------------------------
(***************************************************************************)
(* do_open() and do_close()                                                *)
(***************************************************************************)
\* The first fread() fills a buffer with the header and the start of the table.
OpenHeader(p, m) ==
    /\ mode[p] = "closed"
    /\ mode' = [mode EXCEPT ![p] = m]
    /\ header' = [header EXCEPT ![p] = disk.header]
    /\ metadata' = [metadata EXCEPT ![p] = disk.metadata]
    /\ pc' = [pc EXCEPT ![p] = "open"]
    /\ stale' = [stale EXCEPT ![p] = \E q \in Procs : Changing(q)]
    /\ UNCHANGED <<disk, call, slot, pending, torn, inserted, spoiled, crashes, changes>>

\* The second reads the rest of it: the buffer may end between two entries, or
\* after the name of one, which is then the name of an older entry.
CutBefore(b, old, new) == [i \in Slots |-> IF i < b THEN old[i] ELSE new[i]]
CutWithin(b, old, new) ==
    [CutBefore(b, old, new) EXCEPT ![b].img_id = old[b].img_id]
OpenTable(p) ==
    /\ pc[p] = "open"
    /\ \E b \in Slots : \E table \in {CutBefore(b, metadata[p], disk.metadata),
                                     CutWithin(b, metadata[p], disk.metadata)} :
        metadata' = [metadata EXCEPT ![p] = table]
    /\ torn' = [torn EXCEPT ![p] = metadata[p] # disk.metadata]
    /\ pc' = [pc EXCEPT ![p] = "idle"]
    /\ UNCHANGED <<disk, mode, header, call, slot, pending, stale, inserted, spoiled, crashes, changes>>

Forget(p) ==
    /\ mode' = [mode EXCEPT ![p] = "closed"]
    /\ header' = [header EXCEPT ![p] = EmptyFile.header]
    /\ metadata' = [metadata EXCEPT ![p] = EmptyFile.metadata]
    /\ Continue(p, NoCall, NoSlot, "idle")
    /\ Buffer(p, <<>>)
    /\ stale' = [stale EXCEPT ![p] = FALSE]
    /\ torn' = [torn EXCEPT ![p] = FALSE]
    /\ UNCHANGED <<inserted, spoiled, changes>>

Close(p) ==
    /\ Proc(p)!Idle
    /\ Flush(p)
    /\ Forget(p)
    /\ UNCHANGED crashes

\* p dies: some of what is buffered is written, of a blob maybe a part.
Crash(p) ==
    /\ mode[p] # "closed" /\ crashes < MaxCrashes
    /\ \/ \E n \in 0 .. Len(pending[p]) : disk' = Written(disk, SubSeq(pending[p], 1, n))
       \/ \E w \in Range(pending[p]) :
            w.to = "blob" /\ disk' = Write(disk, BlobWrite(w.at, Torn))
    /\ Forget(p)
    /\ crashes' = crashes + 1

Return(p) ==
    /\ pc[p] = "return"
    /\ Continue(p, NoCall, NoSlot, "idle")
    /\ KeepsHistory
    /\ UNCHANGED <<disk, header, metadata, pending>>
-----------------------------------------------------------------------------
(***************************************************************************)
(* do_insert()                                                             *)
(***************************************************************************)
\* fseek(0, SEEK_END), ftell(): where the file of all ends.  (Mutants: ftell()
\* after the fwrite(); or behind the last original that p's table knows of.)
PastEndOf(p, f) == Len(f.contents) + 2
KnownOffsets(p) == {metadata[p][i].offset["orig"] : i \in Proc(p)!ValidSlots(metadata[p])}
KnownEndOf(p, f) == 1 + Max(KnownOffsets(p) \cup {0})
EndOf(p, f) == Len(f.contents) + 1

Insert(p, id, img) ==
    /\ \E i \in Slots : \E offset \in Proc(p)!DedupOffsets(i, id, img) :
        /\ Proc(p)!Acceptable(i, id, img)
        /\ LET new == offset["orig"] = 0
               at == IF new THEN EndOf(p, disk') ELSE offset["orig"]
           IN  /\ IF new THEN Flush(p) ELSE UNCHANGED disk
               /\ IF new
                  THEN Buffer(p, <<BlobWrite(at, [img |-> img, res |-> "orig"])>>)
                  ELSE UNCHANGED pending
               /\ metadata' = [metadata EXCEPT ![p][i] =
                    [img_id |-> id, SHA |-> img, is_valid |-> TRUE,
                     offset |-> [offset EXCEPT !["orig"] = at]]]
        /\ header' = [header EXCEPT ![p] = Proc(p)!Inserted(@)]
        /\ Continue(p, Proc(p)!InsertCall(id, img), i, "insert_header")
    /\ inserted' = inserted \cup {<<id, img>>}
    /\ Changes(p)

\* The refused entry stays in the table of p: from slot 0 lazily_resize() writes
\* it to the file.  (The caller has taken the result.  Bound: after the last
\* change of the file it could not get there any more.)
InsertRejected(p, id, img) ==
    /\ changes < MaxChanges
    /\ \E i \in Slots :
        /\ Proc(p)!Insertable(i)
        /\ img \in NonImages \/ Proc(p)!Namesakes(i, id) # {}
        /\ \E offset \in IF img \in NonImages THEN {Proc(p)!NoOffsets}
                         ELSE Proc(p)!DedupOffsets(i, id, img) :
            metadata' = [metadata EXCEPT ![p][i] = Proc(p)!FreshEntry(id, img, offset)]
    /\ KeepsHistory
    /\ UNCHANGED <<disk, header, pending, call, slot, pc>>

\* fseek(0, SEEK_SET), fwrite(header); the same in do_delete and lazily_resize.
WriteHeader(p, from, to) ==
    /\ pc[p] = from
    /\ Flush(p)
    /\ Buffer(p, <<HeaderWrite(header[p])>>)
    /\ Continue(p, call[p], slot[p], to)
    /\ KeepsHistory
    /\ UNCHANGED <<header, metadata>>

\* fseek(i * sizeof(struct img_metadata), SEEK_CUR), fwrite(metadata[i]).
WriteEntry(p, from) ==
    /\ pc[p] = from
    /\ Flush(p)
    /\ Buffer(p, <<EntryWrite(slot[p], metadata[p][slot[p]])>>)
    /\ Answer(p, call[p], NoImage)
    /\ KeepsHistory
    /\ UNCHANGED <<header, metadata>>
-----------------------------------------------------------------------------
(***************************************************************************)
(* do_delete()                                                             *)
(***************************************************************************)
Delete(p, id) ==
    /\ Proc(p)!Idle /\ Proc(p)!Writable /\ ~Proc(p)!CountsNone
    /\ \E i \in Proc(p)!FirstOf(Proc(p)!Named(id)) :
        /\ metadata[p][i].is_valid
        /\ metadata' = [metadata EXCEPT ![p][i].is_valid = FALSE]
        /\ Continue(p, Proc(p)!DeleteCall(id), i, "delete_entry")
    /\ header' = [header EXCEPT ![p] = Proc(p)!Deleted(@)]
    /\ Flush(p)
    /\ Buffer(p, <<HeaderWrite(header'[p])>>)
    /\ Changes(p) /\ UNCHANGED inserted
-----------------------------------------------------------------------------
(***************************************************************************)
(* do_read() and lazily_resize()                                           *)
(***************************************************************************)
\* fseek(offset), fread() of the file of all.
Fetch(p, c, offset) ==
    /\ Flush(p)
    /\ Buffer(p, <<>>)
    /\ IF Proc(p)!Readable(disk', offset)
       THEN Answer(p, c, disk'.contents[offset])
       ELSE Continue(p, [c EXCEPT !.ret = "ERR_IO"], NoSlot, "return")
    /\ KeepsHistory
    /\ UNCHANGED <<header, metadata>>

ReadStored(p, id, res) ==
    /\ Proc(p)!Idle
    /\ \E i \in Proc(p)!FirstOf(Proc(p)!Named(id)) :
        /\ metadata[p][i].is_valid /\ metadata[p][i].offset[res] # 0
        /\ Fetch(p, Proc(p)!ReadCall(id, res), metadata[p][i].offset[res])

ReadResize(p, id, res) ==
    /\ Proc(p)!Idle /\ Proc(p)!Writable /\ res \in Resized
    /\ Len(disk.contents) < MaxContents
    /\ \E i \in Proc(p)!FirstOf(Proc(p)!Named(id)) :
        LET orig == metadata[p][i].offset["orig"]
        IN  /\ metadata[p][i].is_valid /\ metadata[p][i].offset[res] = 0
            /\ Flush(p)
            /\ Proc(p)!Decodable(disk', orig)
            /\ Buffer(p, <<BlobWrite(EndOf(p, disk'),
                                     [img |-> disk'.contents[orig].img, res |-> res])>>)
            /\ metadata' = [metadata EXCEPT ![p][i].offset[res] = EndOf(p, disk')]
            /\ Continue(p, Proc(p)!ReadCall(id, res), i, "resize_header")
    /\ UNCHANGED header
    /\ Changes(p) /\ UNCHANGED inserted

\* The header and the first entry of the table.
ResizeHeader(p) ==
    /\ pc[p] = "resize_header"
    /\ Flush(p)
    /\ Buffer(p, <<HeaderWrite(header[p]), EntryWrite(0, metadata[p][0])>>)
    /\ Continue(p, call[p], slot[p], "read_fetch")
    /\ KeepsHistory
    /\ UNCHANGED <<header, metadata>>

ReadFetch(p) ==
    /\ pc[p] = "read_fetch"
    /\ Fetch(p, call[p], metadata[p][slot[p]].offset[call[p].res])
-----------------------------------------------------------------------------
Next == \E p \in Procs :
    \/ \E m \in {"rb", "rb+"} : OpenHeader(p, m)
    \/ OpenTable(p) \/ Close(p) \/ Crash(p) \/ Return(p)
    \/ \E id \in ImgIds, img \in Images : Insert(p, id, img)
    \/ \E id \in ImgIds, img \in Images \cup NonImages : InsertRejected(p, id, img)
    \/ WriteHeader(p, "insert_header", "insert_entry") \/ WriteEntry(p, "insert_entry")
    \/ \E id \in ImgIds : Delete(p, id)
    \/ WriteEntry(p, "delete_entry")
    \/ \E id \in ImgIds, res \in Resolutions : ReadStored(p, id, res) \/ ReadResize(p, id, res)
    \/ ResizeHeader(p) \/ ReadFetch(p)

Spec == Init /\ [][Next]_vars
-----------------------------------------------------------------------------
(***************************************************************************)
(* Properties                                                              *)
(***************************************************************************)
TypeOK ==
    /\ disk \in Proc(One)!File
    /\ inserted \subseteq ImgIds \X Images
    /\ spoiled \in BOOLEAN /\ stale \in [Procs -> BOOLEAN] /\ torn \in [Procs -> BOOLEAN]
    /\ crashes \in 0 .. MaxCrashes /\ changes \in 0 .. MaxChanges
    /\ \A p \in Procs :
        /\ mode[p] \in {"closed", "rb", "rb+"}
        /\ pc[p] = "open" \/ Proc(p)!TypeOK

\* Whatever the processes do to each other, an entry of the file never points
\* past its end: each writes its blobs before the entries that point to them.
Inside(md, f) ==
    \A i \in Slots : md[i].is_valid => \A r \in Resolutions : md[i].offset[r] <= Len(f.contents)
OffsetsInFile ==
    /\ Inside(disk.metadata, disk)
    /\ \A p \in Procs : Inside(metadata[p], Written(disk, pending[p]))

\* As long as no process changes the file from a stale copy, what the file says
\* is what one process alone would leave.
StoreIsSound ==
    ~spoiled => /\ Proc(One)!Unique(disk.metadata)
                /\ Proc(One)!Stored(disk.metadata, disk.contents)

\* Nor is an image lost: it leaves the file when a process deletes it.
Stocked(md) == Proc(One)!Live(md)
OnlyDeletesRemove == [][
    ~spoiled' => \A image \in Stocked(disk.metadata) \ Stocked(disk.metadata') :
        \E p \in Procs : \E w \in Range(pending[p]) :
            w.to = "entry" /\ w.value.img_id = image[1] /\ ~w.value.is_valid]_vars

\* A process reads through a stale table what was once stored under that name:
\* deleted contents stay where they were.  Through a table that was changed
\* while do_open() read it, still the contents of one image, in the right
\* resolution, but maybe under the name of another.
StaleReadsAreTrue ==
    ~spoiled => \A p \in Procs :
        pc[p] = "return" /\ call[p].op = "read" /\ call[p].ret = "ERR_NONE" =>
            /\ call[p].data.res = call[p].res
            /\ call[p].data.img \in {image[2] : image \in inserted}
            /\ torn[p] \/ <<call[p].id, call[p].data.img>> \in inserted
=============================================================================
