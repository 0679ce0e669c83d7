----------------------- MODULE ImgfsDatabaseProofs ------------------------
(***************************************************************************)
(* Theorems of Imgfs until the first flush that fails, whatever the number *)
(* of crashes: the contents are those of the entries, and the store        *)
(* implements ImageDatabase.                                               *)
(***************************************************************************)
EXTENDS ImgfsProofs
-----------------------------------------------------------------------------
(***************************************************************************)
(* Theorems of Imgfs until the first flush that fails, whatever the number *)
(* of crashes: an entry never points at anything but its own contents, in  *)
(* memory or in a file a crash leaves, and equal images are stored once.   *)
(*                                                                         *)
(* No stronger invariant is needed for the first: contents are only ever   *)
(* appended, the blob is flushed before the entry that points to it, and   *)
(* do_name_and_content_dedup() copies offsets from an entry that is right. *)
(* The second needs it, because offset["orig"] = 0 is how do_insert knows  *)
(* that there is no copy.                                                  *)
(***************************************************************************)
(***************************************************************************)
(* Stored.                                                                 *)
(***************************************************************************)
\* Offsets of an entry that are those of its contents.
Points(e, contents) ==
    \A r \in Resolutions :
        \/ r # "orig" /\ e.offset[r] = 0
        \/ /\ e.offset[r] \in 1 .. Len(contents)
           /\ contents[e.offset[r]] = [img |-> e.SHA, res |-> r]

LEMMA StoredPoints ==
    ASSUME NEW md, NEW contents
    PROVE  Stored(md, contents) <=> \A i \in ValidSlots(md) : Points(md[i], contents)
  BY DEF Stored, Points

\* A blob that is appended is the last, and disturbs nothing.
LEMMA AppendLast ==
    ASSUME NEW T, NEW s \in Seq(T), NEW x \in T
    PROVE  /\ Len(s) + 1 \in 1 .. Len(Append(s, x))
           /\ Append(s, x)[Len(s) + 1] = x
  OBVIOUS

LEMMA AppendPoints ==
    ASSUME NEW contents \in Seq(Content \cup {Torn}), NEW x \in Content \cup {Torn},
           NEW e \in Entry, Points(e, contents)
    PROVE  Points(e, Append(contents, x))
<1> SUFFICES ASSUME NEW r \in Resolutions,
                    ~(r # "orig" /\ e.offset[r] = 0)
             PROVE  /\ e.offset[r] \in 1 .. Len(Append(contents, x))
                    /\ Append(contents, x)[e.offset[r]] = [img |-> e.SHA, res |-> r]
  BY DEF Points
<1>1. e.offset[r] \in 1 .. Len(contents) /\ contents[e.offset[r]] = [img |-> e.SHA, res |-> r]
  BY DEF Points
<1>2. Len(Append(contents, x)) = Len(contents) + 1
  OBVIOUS
<1>3. Append(contents, x)[e.offset[r]] = contents[e.offset[r]]
  BY <1>1
<1> QED
  BY <1>1, <1>2, <1>3

LEMMA AppendStored ==
    ASSUME NEW md \in [Slots -> Entry],
           NEW contents \in Seq(Content \cup {Torn}), NEW x \in Content \cup {Torn},
           Stored(md, contents)
    PROVE  Stored(md, Append(contents, x))
  BY StoredPoints, AppendPoints DEF ValidSlots

\* Writing an entry whose offsets are right.
LEMMA WriteStored ==
    ASSUME NEW md \in [Slots -> Entry], NEW contents, NEW i \in Slots, NEW e \in Entry,
           Stored(md, contents), e.is_valid => Points(e, contents)
    PROVE  Stored([md EXCEPT ![i] = e], contents)
<1> DEFINE new == [md EXCEPT ![i] = e]
<1>1. SUFFICES ASSUME NEW j \in ValidSlots(new) PROVE Points(new[j], contents)
  BY StoredPoints
<1>2. CASE j = i
  BY <1>1, <1>2 DEF ValidSlots
<1>3. CASE j # i
  BY <1>1, <1>3, StoredPoints DEF ValidSlots
<1> QED
  BY <1>2, <1>3

\* Tables of which none is valid are stored in anything.
LEMMA NoneStored == \A contents : Stored(EmptyMetadata, contents)
  BY DEF Stored, ValidSlots, EmptyMetadata, EmptyEntry
-----------------------------------------------------------------------------
ContentsInv ==
    /\ NamesInv
    /\ ContentsMatch
    /\ StoredOnce
    /\ Deduplicated(stream.metadata)

LEMMA InitContents == Init => ContentsInv
<1>1. Deduplicated(EmptyMetadata)
  BY DEF Deduplicated, ValidSlots, EmptyMetadata, EmptyEntry
<1> QED
  BY <1>1, InitNames, NoneStored DEF Init, ContentsInv, ContentsMatch, StoredOnce, EmptyFile

\* What the types give.
LEMMA FileTypes ==
    ASSUME NamesInv
    PROVE  /\ metadata \in [Slots -> Entry]
           /\ stream.metadata \in [Slots -> Entry] /\ disk.metadata \in [Slots -> Entry]
           /\ stream.contents \in Seq(Content \cup {Torn})
           /\ disk.contents \in Seq(Content \cup {Torn})
           /\ stream \in File /\ disk \in File
  BY DEF NamesInv, TypeInv, KindInv, TypeOK, File

LEMMA WriteKeepsContents ==
    ASSUME NEW f \in File
    PROVE  /\ \A h : WriteHeader(f, h).contents = f.contents
           /\ \A i, e : WriteEntry(f, i, e).contents = f.contents
           /\ \A img, res : AppendBlob(f, img, res).contents
                                = Append(f.contents, [img |-> img, res |-> res])
  BY DEF File, WriteHeader, AppendBlob, WriteEntry

LEMMA HeaderKeeps ==
    ASSUME NEW f \in File
    PROVE  /\ \A h : LET g == [f EXCEPT !.header = h]
                   IN  g.metadata = f.metadata /\ g.contents = f.contents
           /\ LET g == [f EXCEPT !.contents = Append(@, Torn)]
              IN  g.metadata = f.metadata /\ g.contents = Append(f.contents, Torn)
  BY DEF File

LEMMA OpenContents ==
    ASSUME ContentsInv, NamesInv', NEW m \in {"rb", "rb+"}, Open(m)
    PROVE  ContentsInv'
<1>1. /\ stream = disk /\ stream' = stream /\ disk' = disk
      /\ metadata' = disk.metadata
  BY DEF Open, ContentsInv, NamesInv
<1> QED
  BY <1>1 DEF ContentsInv, ContentsMatch, StoredOnce, Stored, Deduplicated, ValidSlots

\* Closing or dying: what is left is a file that was right.
LEMMA ForgetContents ==
    ASSUME NamesInv', Forget,
           Stored(disk'.metadata, disk'.contents), Deduplicated(disk'.metadata)
    PROVE  ContentsInv'
<1>1. Deduplicated(EmptyMetadata)
  BY DEF Deduplicated, ValidSlots, EmptyMetadata, EmptyEntry
<1>2. metadata' = EmptyMetadata /\ stream' = disk'
  BY DEF Forget
<1>3. Stored(EmptyMetadata, stream'.contents)
  BY NoneStored
<1> QED
  BY <1>1, <1>2, <1>3
  DEF ContentsInv, ContentsMatch, StoredOnce, Stored, Deduplicated, ValidSlots

LEMMA CloseContents ==
    ASSUME faults' = 0, ContentsInv, NamesInv', Close
    PROVE  ContentsInv'
<1>1. disk' = stream /\ Forget
  BY NoFault DEF Close, Flush, ContentsInv, NamesInv, TypeInv, KindInv
<1>2. Stored(disk'.metadata, disk'.contents) /\ Deduplicated(disk'.metadata)
  BY <1>1 DEF ContentsInv, ContentsMatch
<1> QED
  BY <1>1, <1>2, ForgetContents

LEMMA CrashIntact ==
    ASSUME faults' = 0, ContentsInv, Crash
    PROVE  stream.intact
  BY DEF Crash, ContentsInv, NamesInv, TypeInv, IntactInv

LEMMA CrashContents ==
    ASSUME faults' = 0, ContentsInv, NamesInv', Crash
    PROVE  ContentsInv'
<1>1. Stored(disk'.metadata, disk'.contents) /\ Deduplicated(disk'.metadata)
  <2>1. CASE disk' = disk \/ disk' = stream
    BY <2>1 DEF ContentsInv, ContentsMatch, StoredOnce
  <2>2. CASE disk' = [disk EXCEPT !.header = stream.header]
    <3>1. disk'.metadata = disk.metadata /\ disk'.contents = disk.contents
      BY <2>2, FileTypes, HeaderKeeps DEF ContentsInv
    <3> QED
      BY <3>1 DEF ContentsInv, ContentsMatch, StoredOnce
  <2>3. CASE disk' = [disk EXCEPT !.contents = Append(@, Torn)]
    <3>1. disk'.metadata = disk.metadata /\ disk'.contents = Append(disk.contents, Torn)
      BY <2>3, FileTypes, HeaderKeeps DEF ContentsInv
    <3>2. Stored(disk.metadata, disk.contents)
      BY DEF ContentsInv, ContentsMatch
    <3>3. Stored(disk.metadata, Append(disk.contents, Torn))
      BY <3>2, FileTypes, AppendStored DEF ContentsInv
    <3> QED
      BY <3>1, <3>3 DEF ContentsInv, StoredOnce
  <2> QED
    BY <2>1, <2>2, <2>3, CrashIntact DEF Crash, DropBuffer, Tear
<1>2. Forget
  BY DEF Crash
<1> QED
  BY <1>1, <1>2, ForgetContents

\* The offsets of do_name_and_content_dedup() are those of an entry with the
\* same contents; if they have no original there is no such entry.
LEMMA DedupPoints ==
    ASSUME ContentsInv, NEW i \in Slots, NEW id \in ImgIds,
           NEW img \in Images, NEW offset \in DedupOffsets(i, id, img)
    PROVE  \/ /\ Copies(i, id, img) = {} /\ offset = NoOffsets
           \/ \E j \in Copies(i, id, img) :
                /\ offset = metadata[j].offset
                /\ j \in ValidSlots(metadata) /\ metadata[j].SHA = img
                /\ Points(metadata[j], stream.contents)
                /\ offset["orig"] # 0
<1>1. CASE Copies(i, id, img) = {}
  BY <1>1 DEF DedupOffsets
<1>2. CASE Copies(i, id, img) # {}
  <2>1. PICK j \in LastOf(Copies(i, id, img)) : offset = metadata[j].offset
    BY <1>2 DEF DedupOffsets
  <2>2. j \in Copies(i, id, img) /\ j \in ValidSlots(metadata) /\ metadata[j].SHA = img
    BY <2>1 DEF LastOf, Copies
  <2>3. Points(metadata[j], stream.contents)
    BY <2>2, StoredPoints DEF ContentsInv, ContentsMatch
  <2>4. metadata[j].offset["orig"] # 0
    <3>1. metadata[j].offset["orig"] \in 1 .. Len(stream.contents)
      BY <2>3 DEF Points, Resolutions
    <3> QED
      BY <3>1
  <2> QED
    BY <2>1, <2>2, <2>3, <2>4
<1> QED
  BY <1>1, <1>2
-----------------------------------------------------------------------------
\* Tables that hold the same images share originals together.
LEMMA SameDeduplicated ==
    ASSUME NEW md1 \in [Slots -> Entry], NEW md2 \in [Slots -> Entry],
           \A j \in Slots : SameImage(md1[j], md2[j]),
           Deduplicated(md1)
    PROVE  Deduplicated(md2)
  BY DEF Deduplicated, ValidSlots, SameImage

\* When no entry is in flight the file has the images of memory.
LEMMA QuietDeduplicated ==
    ASSUME NamesInv', mode' # "closed", ~InFlight', Deduplicated(metadata)'
    PROVE  Deduplicated(stream.metadata)'
<1>1. metadata' \in [Slots -> Entry] /\ stream'.metadata \in [Slots -> Entry]
  BY DEF NamesInv, TypeInv, KindInv, TypeOK, File
<1>2. \A j \in Slots : SameImage(metadata'[j], stream'.metadata[j])
  BY DEF NamesInv
<1>3. Deduplicated(metadata')
  BY DEF Deduplicated, ValidSlots
<1>4. Deduplicated(stream'.metadata)
  BY <1>1, <1>2, <1>3, SameDeduplicated
<1> QED
  BY <1>4 DEF Deduplicated, ValidSlots

\* Replacing an entry by one whose copies are where it is.
LEMMA WriteDeduplicated ==
    ASSUME NEW md \in [Slots -> Entry], NEW i \in Slots, NEW e \in Entry, Deduplicated(md),
           e.is_valid => \A j \in ValidSlots(md) \ {i} :
                            md[j].SHA = e.SHA => md[j].offset["orig"] = e.offset["orig"]
    PROVE  Deduplicated([md EXCEPT ![i] = e])
  BY DEF Deduplicated, ValidSlots
-----------------------------------------------------------------------------
\* A step that leaves the contents alone and flushes, or does not: the file of
\* the kernel stays, or becomes what was seen through the FILE.
LEMMA DiskContents ==
    ASSUME ContentsInv, disk' = disk \/ disk' = stream
    PROVE  Stored(disk'.metadata, disk'.contents) /\ Deduplicated(disk'.metadata)
  BY DEF ContentsInv, ContentsMatch, StoredOnce

\* Assembles the invariant from its parts, seen after the step.
LEMMA PartsContents ==
    ASSUME NamesInv',
           Stored(metadata', stream'.contents), Deduplicated(metadata'),
           Stored(stream'.metadata, stream'.contents), Deduplicated(stream'.metadata),
           Stored(disk'.metadata, disk'.contents), Deduplicated(disk'.metadata)
    PROVE  ContentsInv'
  BY DEF ContentsInv, ContentsMatch, StoredOnce, Stored, Deduplicated, ValidSlots

\* A step that changes memory at one slot and appends at most one blob.
LEMMA SlotContents ==
    ASSUME ContentsInv, NamesInv', NEW i \in Slots, NEW e \in Entry,
           metadata' = [metadata EXCEPT ![i] = e],
           stream'.metadata = stream.metadata,
           \/ stream'.contents = stream.contents
           \/ \E x \in Content \cup {Torn} : stream'.contents = Append(stream.contents, x),
           disk' = disk \/ disk' = stream,
           e.is_valid => /\ Points(e, stream'.contents)
                         /\ \A j \in ValidSlots(metadata) \ {i} :
                              metadata[j].SHA = e.SHA =>
                                metadata[j].offset["orig"] = e.offset["orig"]
    PROVE  ContentsInv'
<1>1. Stored(metadata, stream'.contents) /\ Stored(stream.metadata, stream'.contents)
  BY FileTypes, AppendStored DEF ContentsInv, ContentsMatch
<1>2. Stored(metadata', stream'.contents)
  BY <1>1, FileTypes, WriteStored DEF ContentsInv
<1>3. Deduplicated(metadata')
  BY FileTypes, WriteDeduplicated DEF ContentsInv, StoredOnce
<1> QED
  BY <1>1, <1>2, <1>3, DiskContents, PartsContents DEF ContentsInv

\* A step that changes no entry in memory and no blob.
LEMMA SameContents ==
    ASSUME ContentsInv, NamesInv', metadata' = metadata,
           stream'.metadata = stream.metadata, stream'.contents = stream.contents,
           disk' = disk \/ disk' = stream
    PROVE  ContentsInv'
  BY DiskContents, PartsContents DEF ContentsInv, ContentsMatch, StoredOnce

\* A step that writes an entry of memory to the file, none being in flight then.
LEMMA EntryContents ==
    ASSUME ContentsInv, NamesInv', NEW i \in Slots,
           metadata' = metadata,
           stream'.metadata = [stream.metadata EXCEPT ![i] = metadata[i]],
           stream'.contents = stream.contents,
           disk' = stream, mode' # "closed", ~InFlight'
    PROVE  ContentsInv'
<1>1. Stored(metadata, stream.contents) /\ Deduplicated(metadata)
  BY DEF ContentsInv, ContentsMatch, StoredOnce
<1>2. metadata[i] \in Entry /\ (metadata[i].is_valid => Points(metadata[i], stream.contents))
  BY <1>1, FileTypes, StoredPoints DEF ContentsInv, ValidSlots
<1>3. Stored(stream'.metadata, stream'.contents)
  <2>1. Stored(stream.metadata, stream.contents) /\ stream.metadata \in [Slots -> Entry]
    BY FileTypes DEF ContentsInv, ContentsMatch
  <2>2. Stored([stream.metadata EXCEPT ![i] = metadata[i]], stream.contents)
    BY <1>2, <2>1, WriteStored
  <2> QED
    BY <2>2
<1>4. Deduplicated(metadata)'
  BY <1>1 DEF Deduplicated, ValidSlots
<1>5. Deduplicated(stream.metadata)'
  BY <1>4, QuietDeduplicated
<1>6. Deduplicated(stream'.metadata)
  BY <1>5 DEF Deduplicated, ValidSlots
<1> QED
  BY <1>1, <1>3, <1>6, DiskContents, PartsContents
-----------------------------------------------------------------------------
\* What do_insert makes valid: a copy has the offsets of an entry of the same
\* contents; new contents are at the end of the file, and no entry has them.
LEMMA CopyContents ==
    ASSUME ContentsInv, NamesInv', NEW id \in ImgIds,
           NEW img \in Images \cup NonImages, InsertCopy(id, img)
    PROVE  ContentsInv'
<1>1. PICK i \in Slots : \E offset \in DedupOffsets(i, id, img) :
        Acceptable(i, id, img) /\ offset["orig"] # 0 /\ Commit(i, id, img, offset)
  BY DEF InsertCopy
<1>2. PICK offset \in DedupOffsets(i, id, img) :
        Acceptable(i, id, img) /\ offset["orig"] # 0 /\ Commit(i, id, img, offset)
  BY <1>1
<1> DEFINE e == [FreshEntry(id, img, offset) EXCEPT !.is_valid = TRUE]
<1>3. img \in Images /\ Namesakes(i, id) = {}
  BY <1>2 DEF Acceptable
<1>4. PICK k \in Copies(i, id, img) :
        /\ offset = metadata[k].offset /\ k \in ValidSlots(metadata)
        /\ metadata[k].SHA = img /\ Points(metadata[k], stream.contents)
  <2>1. offset # NoOffsets
    BY <1>2 DEF NoOffsets, Resolutions
  <2> QED
    BY <1>2, <1>3, <2>1, DedupPoints
<1>5. TypeOK
  BY DEF ContentsInv, NamesInv, TypeInv, KindInv
<1>6. /\ e \in Entry /\ e.SHA = img /\ e.offset = offset
      /\ metadata' = [metadata EXCEPT ![i] = e]
  <2>1. FreshEntry(id, img, offset) \in Entry
    BY <1>2, <1>5, EntryTypes
  <2> QED
    BY <1>2, <2>1 DEF Commit, FreshEntry, Entry
<1> HIDE DEF e
<1>7. Points(e, stream.contents)
  BY <1>4, <1>6 DEF Points
<1>8. \A j \in ValidSlots(metadata) \ {i} :
         metadata[j].SHA = e.SHA => metadata[j].offset["orig"] = e.offset["orig"]
  BY <1>4, <1>6 DEF ContentsInv, StoredOnce, Deduplicated
<1>9. stream' = stream /\ disk' = disk
  BY DEF InsertCopy
<1> QED
  BY <1>6, <1>7, <1>8, <1>9, SlotContents

LEMMA NewContents ==
    ASSUME faults' = 0, ContentsInv, NamesInv', NEW id \in ImgIds,
           NEW img \in Images \cup NonImages, InsertNew(id, img)
    PROVE  ContentsInv'
<1>0. TypeOK
  BY DEF ContentsInv, NamesInv, TypeInv, KindInv
<1>1. PICK i \in Slots : \E offset \in DedupOffsets(i, id, img) :
        /\ Acceptable(i, id, img) /\ offset["orig"] = 0
        /\ disk' = stream /\ stream' = AppendBlob(stream, img, "orig")
        /\ Commit(i, id, img, [offset EXCEPT !["orig"] = EndOf(stream)])
  BY <1>0, NoFault DEF InsertNew, Flush
<1>2. PICK offset \in DedupOffsets(i, id, img) :
        /\ Acceptable(i, id, img) /\ offset["orig"] = 0
        /\ disk' = stream /\ stream' = AppendBlob(stream, img, "orig")
        /\ Commit(i, id, img, [offset EXCEPT !["orig"] = EndOf(stream)])
  BY <1>1
<1> DEFINE blob == [img |-> img, res |-> "orig"]
           new == [offset EXCEPT !["orig"] = EndOf(stream)]
           e == [FreshEntry(id, img, new) EXCEPT !.is_valid = TRUE]
<1>3. img \in Images /\ Namesakes(i, id) = {}
  BY <1>2 DEF Acceptable
<1>4. Copies(i, id, img) = {} /\ offset = NoOffsets
  BY <1>2, <1>3, DedupPoints
<1>5. stream \in File /\ EndOf(stream) = Len(stream.contents) + 1
  BY <1>0 DEF TypeOK, EndOf
<1>6. /\ stream'.contents = Append(stream.contents, blob)
      /\ stream'.metadata = stream.metadata
  BY <1>2, <1>5, WriteKeepsContents, WriteKeepsMetadata
<1>7. blob \in Content \cup {Torn} /\ stream.contents \in Seq(Content \cup {Torn})
  BY <1>3, <1>5 DEF Content, Resolutions, File
<1>8. /\ new \in [Resolutions -> Nat]
      /\ new["orig"] = Len(stream.contents) + 1
      /\ \A r \in Resolutions : r # "orig" => new[r] = 0
  BY <1>4, <1>5, <1>7 DEF NoOffsets, Resolutions
<1>9. /\ e \in Entry /\ e.SHA = img /\ e.offset = new
      /\ metadata' = [metadata EXCEPT ![i] = e]
  <2>1. FreshEntry(id, img, new) \in Entry
    BY <1>0, <1>8, EntryTypes
  <2> QED
    BY <1>2, <2>1 DEF Commit, FreshEntry, Entry
<1> HIDE DEF e, new, blob
<1>10. Points(e, stream'.contents)
  <2>1. /\ Len(stream.contents) + 1 \in 1 .. Len(stream'.contents)
        /\ stream'.contents[Len(stream.contents) + 1] = blob
    BY <1>6, <1>7
  <2> QED
    BY <1>8, <1>9, <2>1 DEF Points, blob
<1>11. \A j \in ValidSlots(metadata) \ {i} : metadata[j].SHA # e.SHA
  BY <1>3, <1>4, <1>9 DEF Copies
<1> QED
  BY <1>2, <1>6, <1>7, <1>9, <1>10, <1>11, SlotContents

LEMMA InsertContents ==
    ASSUME faults' = 0, ContentsInv, NamesInv', NEW id \in ImgIds,
           NEW img \in Images \cup NonImages, Insert(id, img)
    PROVE  ContentsInv'
<1>0. TypeOK
  BY DEF ContentsInv, NamesInv, TypeInv, KindInv
<1>1. CASE InsertRefused(id, img)
  BY <1>1, SameContents DEF InsertRefused
<1>2. CASE InsertRejected(id, img)
  <2>1. PICK i \in Slots : \E offset \in DedupOffsets(i, id, img) \cup {NoOffsets} :
          metadata' = [metadata EXCEPT ![i] = FreshEntry(id, img, offset)]
    BY <1>2 DEF InsertRejected
  <2>2. PICK offset \in DedupOffsets(i, id, img) \cup {NoOffsets} :
          metadata' = [metadata EXCEPT ![i] = FreshEntry(id, img, offset)]
    BY <2>1
  <2>3. FreshEntry(id, img, offset) \in Entry /\ ~FreshEntry(id, img, offset).is_valid
    BY <1>0, <2>2, EntryTypes DEF FreshEntry, NoOffsets
  <2>4. stream' = stream /\ disk' = disk
    BY <1>2 DEF InsertRejected
  <2> QED
    BY <2>2, <2>3, <2>4, SlotContents
<1> QED
  BY <1>1, <1>2, CopyContents, NewContents DEF Insert

LEMMA DeleteContents ==
    ASSUME faults' = 0, ContentsInv, NamesInv', NEW id \in ImgIds, Delete(id)
    PROVE  ContentsInv'
<1>0. TypeOK
  BY DEF ContentsInv, NamesInv, TypeInv, KindInv
<1>1. CASE DeleteRefused(id)
  BY <1>1, SameContents DEF DeleteRefused
<1>2. CASE DeleteHeader(id)
  <2>1. PICK i \in Slots : metadata' = [metadata EXCEPT ![i].is_valid = FALSE]
    BY <1>2 DEF DeleteHeader, FirstOf, Named
  <2> DEFINE e == [metadata[i] EXCEPT !.is_valid = FALSE]
  <2>2. /\ e \in Entry /\ ~e.is_valid
        /\ metadata' = [metadata EXCEPT ![i] = e]
    BY <1>0, <2>1 DEF TypeOK, Entry
  <2> HIDE DEF e
  <2>3. disk' = stream /\ stream' = WriteHeader(stream, header')
    BY <1>0, <1>2, NoFault DEF DeleteHeader, Flush
  <2>4. stream'.metadata = stream.metadata /\ stream'.contents = stream.contents
    BY <1>0, <2>3, WriteKeepsContents, WriteKeepsMetadata DEF TypeOK
  <2> QED
    BY <2>2, <2>3, <2>4, SlotContents
<1> QED
  BY <1>1, <1>2 DEF Delete

LEMMA InsertHeaderContents ==
    ASSUME faults' = 0, ContentsInv, NamesInv', InsertHeader
    PROVE  ContentsInv'
<1>0. TypeOK
  BY DEF ContentsInv, NamesInv, TypeInv, KindInv
<1>1. disk' = stream /\ stream' = WriteHeader(stream, header) /\ metadata' = metadata
  BY <1>0, NoFault DEF InsertHeader, Flush
<1>2. stream'.metadata = stream.metadata /\ stream'.contents = stream.contents
  BY <1>0, <1>1, WriteKeepsContents, WriteKeepsMetadata DEF TypeOK
<1> QED
  BY <1>1, <1>2, SameContents

LEMMA WriteSlotContents ==
    ASSUME ContentsInv, NamesInv', pc \in {"insert_entry", "delete_entry"},
           pc' = "return", UNCHANGED <<mode, metadata>>,
           disk' = stream, stream' = WriteEntry(stream, slot, metadata[slot])
    PROVE  ContentsInv'
<1>1. stream \in File /\ slot \in Slots /\ mode' # "closed" /\ ~InFlight'
  BY DEF ContentsInv, NamesInv, TypeInv, KindInv, TypeOK, InFlight
<1>2. /\ stream'.contents = stream.contents
      /\ stream'.metadata = [stream.metadata EXCEPT ![slot] = metadata[slot]]
  BY <1>1, WriteKeepsContents, WriteKeepsMetadata
<1> QED
  BY <1>1, <1>2, EntryContents

LEMMA InsertEntryContents ==
    ASSUME faults' = 0, ContentsInv, NamesInv', InsertEntry
    PROVE  ContentsInv'
<1>1. /\ disk' = stream /\ stream' = WriteEntry(stream, slot, metadata[slot])
      /\ pc' = "return" /\ UNCHANGED <<mode, metadata>>
  BY NoFault DEF InsertEntry, Flush, Refuse, Answer, ContentsInv, NamesInv, TypeInv, KindInv
<1> QED
  BY <1>1, WriteSlotContents DEF InsertEntry

LEMMA DeleteEntryContents ==
    ASSUME faults' = 0, ContentsInv, NamesInv', DeleteEntry
    PROVE  ContentsInv'
<1>1. /\ disk' = stream /\ stream' = WriteEntry(stream, slot, metadata[slot])
      /\ pc' = "return" /\ UNCHANGED <<mode, metadata>>
  BY NoFault DEF DeleteEntry, Flush, Refuse, Answer, ContentsInv, NamesInv, TypeInv, KindInv
<1> QED
  BY <1>1, WriteSlotContents DEF DeleteEntry

\* fread() changes nothing that is stored.
LEMMA FetchContents ==
    ASSUME faults' = 0, ContentsInv, NamesInv', NEW c, NEW offset,
           Fetch(c, offset), metadata' = metadata
    PROVE  ContentsInv'
<1>1. disk' = stream /\ stream' = stream
  BY NoFault DEF Fetch, Flush, ContentsInv, NamesInv, TypeInv, KindInv
<1> QED
  BY <1>1, SameContents

\* The image lazily_resize() appends is the one of the entry, because the
\* original it decodes is.
LEMMA ResizedContents ==
    ASSUME ContentsInv, NamesInv', NEW i \in Slots, NEW res \in Resized,
           metadata[i].is_valid, Decodable(stream, metadata[i].offset["orig"]),
           disk' = stream,
           stream' = AppendBlob(stream, stream.contents[metadata[i].offset["orig"]].img, res),
           metadata' = [metadata EXCEPT ![i].offset[res] = EndOf(stream)]
    PROVE  ContentsInv'
<1> DEFINE e == [metadata[i] EXCEPT !.offset[res] = EndOf(stream)]
           blob == [img |-> metadata[i].SHA, res |-> res]
<1>0. TypeOK /\ res # "orig" /\ res \in Resolutions
  BY ResizedAssumption DEF ContentsInv, NamesInv, TypeInv, KindInv, Resolutions
<1>1. stream \in File /\ EndOf(stream) = Len(stream.contents) + 1
  BY <1>0 DEF TypeOK, EndOf
<1>2. stream.contents \in Seq(Content \cup {Torn}) /\ metadata[i] \in Entry
  BY <1>0, <1>1 DEF File, TypeOK
<1>3. EndOf(stream) \in Nat
  BY <1>1, <1>2
<1>4. Points(metadata[i], stream.contents)
  BY StoredPoints DEF ContentsInv, ContentsMatch, ValidSlots
<1>5. /\ metadata[i].offset["orig"] \in 1 .. Len(stream.contents)
      /\ stream.contents[metadata[i].offset["orig"]]
           = [img |-> metadata[i].SHA, res |-> "orig"]
  BY <1>4 DEF Points, Resolutions
<1>6. /\ stream'.contents = Append(stream.contents, blob)
      /\ stream'.metadata = stream.metadata
  BY <1>1, <1>5, WriteKeepsContents, WriteKeepsMetadata
<1>7. blob \in Content \cup {Torn}
  <2>1. stream.contents[metadata[i].offset["orig"]] \in Content \cup {Torn}
    BY <1>2, <1>5
  <2>2. [img |-> metadata[i].SHA, res |-> "orig"] \in Content
    BY <1>5, <2>1 DEF Decodable
  <2>3. metadata[i].SHA \in Images
    BY <2>2 DEF Content
  <2> QED
    BY <1>0, <2>3 DEF Content
<1>8. /\ e \in Entry /\ e.SHA = metadata[i].SHA
      /\ e.offset[res] = EndOf(stream)
      /\ \A r \in Resolutions : r # res => e.offset[r] = metadata[i].offset[r]
  BY <1>0, <1>2, <1>3 DEF Entry
<1>9. metadata' = [metadata EXCEPT ![i] = e]
  OBVIOUS
<1> HIDE DEF e, blob
<1>10. Points(e, stream'.contents)
  <2>1. Points(metadata[i], stream'.contents)
    BY <1>2, <1>4, <1>6, <1>7, AppendPoints
  <2>2. /\ Len(stream.contents) + 1 \in 1 .. Len(stream'.contents)
        /\ stream'.contents[Len(stream.contents) + 1] = blob
    <3>1. stream.contents \in Seq(Content \cup {Torn})
      BY <1>2
    <3>2. /\ Len(stream.contents) + 1 \in 1 .. Len(Append(stream.contents, blob))
          /\ Append(stream.contents, blob)[Len(stream.contents) + 1] = blob
      BY <1>7, <3>1, AppendLast
    <3> QED
      BY <1>6, <3>2
  <2>3. e.SHA = metadata[i].SHA /\ e.offset[res] = Len(stream.contents) + 1
    BY <1>1, <1>8
  <2>4. stream'.contents[e.offset[res]] = [img |-> e.SHA, res |-> res]
    BY <2>2, <2>3 DEF blob
  <2>5. e.offset[res] \in 1 .. Len(stream'.contents)
    BY <2>2, <2>3
  <2>6. ASSUME NEW r \in Resolutions, r # res
        PROVE  \/ r # "orig" /\ e.offset[r] = 0
               \/ /\ e.offset[r] \in 1 .. Len(stream'.contents)
                  /\ stream'.contents[e.offset[r]] = [img |-> e.SHA, res |-> r]
    BY <1>8, <2>1, <2>6 DEF Points
  <2> QED
    BY <2>4, <2>5, <2>6 DEF Points
<1>11. \A j \in ValidSlots(metadata) \ {i} :
          metadata[j].SHA = e.SHA => metadata[j].offset["orig"] = e.offset["orig"]
  BY <1>0, <1>8 DEF ContentsInv, StoredOnce, Deduplicated, ValidSlots, Resolutions
<1> QED
  BY <1>6, <1>7, <1>8, <1>9, <1>10, <1>11, SlotContents

LEMMA ReadContents ==
    ASSUME faults' = 0, ContentsInv, NamesInv',
           NEW id \in ImgIds, NEW res \in Resolutions, Read(id, res)
    PROVE  ContentsInv'
<1>0. TypeOK
  BY DEF ContentsInv, NamesInv, TypeInv, KindInv
<1>1. CASE ReadRefused(id, res)
  BY <1>1, SameContents DEF ReadRefused
<1>2. CASE ReadStored(id, res)
  <2>1. PICK i \in Slots : Fetch(ReadCall(id, res), metadata[i].offset[res])
    BY <1>2 DEF ReadStored, FirstOf, Named
  <2>2. metadata' = metadata
    BY <1>2 DEF ReadStored
  <2> QED
    BY <2>1, <2>2, FetchContents
<1>3. CASE ReadResize(id, res)
  <2>1. PICK i \in Slots :
          /\ metadata[i].is_valid
          /\ disk' = stream
          /\ \/ /\ Decodable(stream, metadata[i].offset["orig"])
                /\ stream' = AppendBlob(stream,
                       stream.contents[metadata[i].offset["orig"]].img, res)
                /\ metadata' = [metadata EXCEPT ![i].offset[res] = EndOf(stream)]
             \/ stream' = stream /\ metadata' = metadata
    BY <1>0, <1>3, NoFault DEF ReadResize, Flush, FirstOf, Named
  <2>2. res \in Resized
    BY <1>3 DEF ReadResize
  <2> QED
    BY <2>1, <2>2, ResizedContents, SameContents
<1> QED
  BY <1>1, <1>2, <1>3 DEF Read

LEMMA ResizeHeaderContents ==
    ASSUME faults' = 0, ContentsInv, NamesInv', ResizeHeader
    PROVE  ContentsInv'
<1>0. TypeOK
  BY DEF ContentsInv, NamesInv, TypeInv, KindInv
<1>1. /\ disk' = stream
      /\ stream' = WriteFirstEntry(WriteHeader(stream, header))
      /\ pc' = "read_fetch" /\ UNCHANGED <<mode, metadata>> /\ mode # "closed"
  BY <1>0, NoFault DEF ResizeHeader, Flush, Continue, ContentsInv, NamesInv, TypeInv, KindInv
<1>2. 0 \in Slots /\ WriteHeader(stream, header) \in File
  <2>1. 0 \in Slots
    BY SizesAssumption DEF Slots
  <2>2. stream \in File /\ header \in Header
    BY <1>0 DEF TypeOK
  <2> QED
    BY <2>1, <2>2, WriteTypes
<1>3. /\ WriteHeader(stream, header).metadata = stream.metadata
      /\ WriteHeader(stream, header).contents = stream.contents
  BY <1>0, WriteKeepsMetadata, WriteKeepsContents DEF TypeOK
<1>4. /\ stream'.contents = stream.contents
      /\ stream'.metadata = [stream.metadata EXCEPT ![0] = metadata[0]]
  BY <1>1, <1>2, <1>3, WriteKeepsMetadata, WriteKeepsContents DEF WriteFirstEntry
<1>5. mode' # "closed" /\ ~InFlight'
  BY <1>1 DEF InFlight
<1> QED
  BY <1>1, <1>2, <1>4, <1>5, EntryContents

\* No file is damaged, so none is created anew.
LEMMA NoCreate ==
    ASSUME ContentsInv, [Next]_vars, faults' = 0
    PROVE  ~Create
<1>1. faults = 0
  BY FaultsGrow DEF ContentsInv, NamesInv, TypeInv
<1> QED
  BY <1>1 DEF Create, ContentsInv, NamesInv, TypeInv, IntactInv

LEMMA NextContents ==
    ASSUME ContentsInv, [Next]_vars, faults' = 0
    PROVE  ContentsInv'
<1>0. NamesInv'
  BY NextNames DEF ContentsInv
<1>1. CASE \E m \in {"rb", "rb+"} : Open(m)
  BY <1>0, <1>1, OpenContents
<1>2. CASE Close \/ Crash
  BY <1>0, <1>2, CloseContents, CrashContents
<1>3. CASE \E id \in ImgIds, img \in Images \cup NonImages : Insert(id, img)
  BY <1>0, <1>3, InsertContents
<1>4. CASE \E id \in ImgIds : Delete(id)
  BY <1>0, <1>4, DeleteContents
<1>5. CASE \E id \in ImgIds, res \in Resolutions : Read(id, res)
  BY <1>0, <1>5, ReadContents
<1>6. CASE (\E output \in {"STDOUT", "JSON"} : List(output)) \/ Return \/ UNCHANGED vars
  <2>1. UNCHANGED <<metadata, stream, disk>>
    BY <1>6 DEF List, Return, vars
  <2> QED
    BY <1>0, <2>1, SameContents
<1>7. CASE ReadFetch
  BY <1>0, <1>7, FetchContents DEF ReadFetch
<1>8. CASE Step
  BY <1>0, <1>6, <1>7, <1>8, InsertHeaderContents, InsertEntryContents,
     DeleteEntryContents, ResizeHeaderContents DEF Step
<1>9. ~Create
  BY NoCreate
<1> QED
  BY <1>1, <1>2, <1>3, <1>4, <1>5, <1>6, <1>8, <1>9 DEF Next

LEMMA ContentsInvariant == Spec => [](NothingFailed => ContentsInv)
<1>1. Init => TypeInv /\ (NothingFailed => ContentsInv)
  BY InitTypes, InitContents
<1>2. /\ TypeInv /\ (NothingFailed => ContentsInv)
      /\ [Next]_vars
      => TypeInv' /\ (NothingFailed => ContentsInv)'
  BY NextTypes, NextContents, FaultsGrow DEF NothingFailed, TypeInv
<1> QED
  BY <1>1, <1>2, PTL DEF Spec

\* Until a flush fails an entry never points at anything but its own contents,
\* in memory, in the file, and in every file a crash can leave.
THEOREM ContentsMatchCorrect == Spec => [](NothingFailed => ContentsMatch)
<1>1. ContentsInv => ContentsMatch
  BY DEF ContentsInv
<1> QED
  BY <1>1, ContentsInvariant, PTL

\* Until a flush fails images with the same contents share one original,
\* whatever was deleted, resized, refused or lost in a crash before.
THEOREM StoredOnceCorrect == Spec => [](NothingFailed => StoredOnce)
<1>1. ContentsInv => StoredOnce
  BY DEF ContentsInv
<1> QED
  BY <1>1, ContentsInvariant, PTL
-----------------------------------------------------------------------------
(***************************************************************************)
(* The store implements ImageDatabase as long as no flush fails, whatever  *)
(* the number of crashes.                                                  *)
(*                                                                         *)
(* The images of the abstract database are the valid entries of the file   *)
(* seen through the FILE: a call changes it when it writes its entry, not  *)
(* when it changes memory.  Memory and file hold the same images outside   *)
(* the slot of a call in flight (NamesInv), the contents are those of the  *)
(* entries (ContentsInv); what is added here is what each call in progress *)
(* knows of its slot.                                                      *)
(***************************************************************************)
(***************************************************************************)
(* Live.                                                                   *)
(***************************************************************************)
LEMMA LiveSame ==
    ASSUME NEW md1, NEW md2, \A j \in Slots : SameImage(md1[j], md2[j])
    PROVE  Live(md1) = Live(md2)
  BY DEF Live, ValidSlots, SameImage

\* An entry is written over one that is not valid.
LEMMA LiveInsert ==
    ASSUME NEW md \in [Slots -> Entry], NEW i \in Slots, NEW e \in Entry,
           ~md[i].is_valid, e.is_valid
    PROVE  Live([md EXCEPT ![i] = e]) = Live(md) \cup {<<e.img_id, e.SHA>>}
<1> DEFINE new == [md EXCEPT ![i] = e]
<1>1. new[i] = e /\ \A j \in Slots : j # i => new[j] = md[j]
  OBVIOUS
<1> HIDE DEF new
<1>2. ValidSlots(new) = ValidSlots(md) \cup {i}
  BY <1>1 DEF ValidSlots
<1>3. i \notin ValidSlots(md)
  BY DEF ValidSlots
<1>4. Live(new) = Live(md) \cup {<<e.img_id, e.SHA>>}
  BY <1>1, <1>2, <1>3 DEF Live, ValidSlots
<1> QED
  BY <1>4 DEF new

\* The entry of a name is cleared.
LEMMA LiveDelete ==
    ASSUME NEW md \in [Slots -> Entry], NEW i \in Slots, NEW e \in Entry,
           md[i].is_valid, ~e.is_valid, Unique(md)
    PROVE  Live([md EXCEPT ![i] = e]) = {p \in Live(md) : p[1] # md[i].img_id}
<1> DEFINE new == [md EXCEPT ![i] = e]
<1>1. new[i] = e /\ \A j \in Slots : j # i => new[j] = md[j]
  OBVIOUS
<1> HIDE DEF new
<1>2. ValidSlots(new) = ValidSlots(md) \ {i}
  BY <1>1 DEF ValidSlots
<1>3. \A j \in ValidSlots(md) : md[j].img_id = md[i].img_id <=> j = i
  BY DEF Unique, ValidSlots
<1>4. Live(new) = {p \in Live(md) : p[1] # md[i].img_id}
  BY <1>1, <1>2, <1>3 DEF Live, ValidSlots
<1> QED
  BY <1>4 DEF new

LEMMA LiveIds ==
    ASSUME NEW md
    PROVE  Database!Ids(Live(md)) = {md[i].img_id : i \in ValidSlots(md)}
<1>1. ASSUME NEW p \in Live(md) PROVE \E i \in ValidSlots(md) : p[1] = md[i].img_id
  BY <1>1 DEF Live
<1>2. ASSUME NEW i \in ValidSlots(md) PROVE \E p \in Live(md) : p[1] = md[i].img_id
  <2>1. <<md[i].img_id, md[i].SHA>> \in Live(md)
    BY DEF Live
  <2>2. <<md[i].img_id, md[i].SHA>>[1] = md[i].img_id
    OBVIOUS
  <2> QED
    BY <2>1, <2>2
<1> QED
  BY <1>1, <1>2 DEF Database!Ids

\* The names of the images do not depend on when they are looked at.
LEMMA LivePrimed ==
    /\ Live(stream.metadata)' = Live(stream'.metadata)
    /\ Live(disk.metadata)' = Live(disk'.metadata)
  BY DEF Live, ValidSlots
-----------------------------------------------------------------------------
(***************************************************************************)
(* What a call in progress knows.                                          *)
(***************************************************************************)
\* The slot i holds the image p, or nothing.
Holds(md, i, id, img) == md[i].is_valid /\ md[i].img_id = id /\ md[i].SHA = img

CallInv ==
    /\ pc = "idle" => call = NoCall
    /\ pc = "return" => call.ret # "pending"
    /\ pc \in {"insert_header", "insert_entry"} =>
        /\ call \in Database!Inserts /\ call.img \in Images
        /\ Holds(metadata, slot, call.id, call.img)
        /\ ~stream.metadata[slot].is_valid
    /\ pc = "delete_entry" =>
        /\ call \in Database!Deletes
        /\ ~metadata[slot].is_valid
        /\ stream.metadata[slot].is_valid
        /\ stream.metadata[slot].img_id = call.id
    /\ pc \in {"resize_header", "read_fetch"} =>
        /\ call \in Database!Reads
        /\ metadata[slot].is_valid /\ metadata[slot].img_id = call.id

DatabaseInv == ContentsInv /\ CallInv

\* The requests of the store are those of the database.
LEMMA RequestTypes ==
    /\ NoCall = Database!NoCall
    /\ \A id \in ImgIds, img \in Images \cup NonImages :
        /\ InsertCall(id, img) \in Database!Inserts
        /\ InsertCall(id, img).id = id /\ InsertCall(id, img).img = img
    /\ \A id \in ImgIds : DeleteCall(id) \in Database!Deletes /\ DeleteCall(id).id = id
    /\ \A id \in ImgIds, res \in Resolutions :
        /\ ReadCall(id, res) \in Database!Reads
        /\ ReadCall(id, res).id = id /\ ReadCall(id, res).res = res
    /\ Call("STDOUT") \in Database!Lists("STDOUT")
    /\ Call("JSON") \in Database!Lists("JSON")
<1> USE DEF NoCall, Call
<1>1. NoCall = Database!NoCall
  BY DEF Database!NoCall
<1>2. ASSUME NEW id \in ImgIds, NEW img \in Images \cup NonImages
      PROVE  /\ InsertCall(id, img) \in Database!Inserts
             /\ InsertCall(id, img).id = id /\ InsertCall(id, img).img = img
  BY DEF InsertCall, Database!Inserts, Database!Call
<1>3. ASSUME NEW id \in ImgIds
      PROVE  DeleteCall(id) \in Database!Deletes /\ DeleteCall(id).id = id
  BY DEF DeleteCall, Database!Deletes, Database!Call
<1>4. ASSUME NEW id \in ImgIds, NEW res \in Resolutions
      PROVE  /\ ReadCall(id, res) \in Database!Reads
             /\ ReadCall(id, res).id = id /\ ReadCall(id, res).res = res
  BY DEF ReadCall, Database!Reads, Database!Call
<1>5. /\ Call("STDOUT") \in Database!Lists("STDOUT")
      /\ Call("JSON") \in Database!Lists("JSON")
  BY DEF Database!Lists, Database!Call, Resolutions
<1> QED
  BY <1>1, <1>2, <1>3, <1>4, <1>5

-----------------------------------------------------------------------------
(***************************************************************************)
(* The steps.                                                              *)
(***************************************************************************)
\* A step that changes no entry of the file and flushes, or does not.
Quiet == /\ stream'.metadata = stream.metadata
         /\ disk'.metadata \in {disk.metadata, stream.metadata}

LEMMA QuietSync ==
    ASSUME Quiet
    PROVE  Database!MaySync /\ UNCHANGED Live(stream.metadata)
  BY LivePrimed DEF Quiet, Database!MaySync

\* A refusal keeps the request and says why.
LEMMA RefuseAnswers ==
    ASSUME NEW c \in Database!Inserts \cup Database!Deletes \cup Database!Reads,
           NEW r, Refuse(c, r), r # "pending"
    PROVE  /\ call' = [c EXCEPT !.ret = r]
           /\ call'.ret # "pending" /\ pc' = "return"
  BY DEF Refuse, Answer, Database!Inserts, Database!Deletes, Database!Reads, Database!Call

LEMMA RefuseInsert ==
    ASSUME call = NoCall, Quiet, NEW c \in Database!Inserts, NEW r, Refuse(c, r),
           \/ r \in {"ERR_IO", "ERR_IMGFS_FULL"}
           \/ r = "ERR_IMGLIB" /\ c.img \in NonImages
           \/ r = "ERR_DUPLICATE_ID" /\ c.id \in Database!Ids(Live(stream.metadata))
    PROVE  CallInv' /\ Database!Next
<1>1. /\ call' = [c EXCEPT !.ret = r]
      /\ call'.ret # "pending" /\ pc' = "return"
  BY RefuseAnswers
<1>2. Database!Answer(c, r)
  BY <1>1, RequestTypes DEF Database!Answer, Database!Serving
<1>3. Database!Refuse
  BY <1>2, QuietSync DEF Database!Refuse
<1> QED
  BY <1>1, <1>3 DEF CallInv, Database!Next

LEMMA RefuseDelete ==
    ASSUME call = NoCall, Quiet, NEW c \in Database!Deletes,
           NEW r \in {"ERR_IO", "ERR_IMAGE_NOT_FOUND"}, Refuse(c, r)
    PROVE  CallInv' /\ Database!Next
<1>1. /\ call' = [c EXCEPT !.ret = r]
      /\ call'.ret # "pending" /\ pc' = "return"
  BY RefuseAnswers
<1>2. Database!Answer(c, r)
  BY <1>1, RequestTypes DEF Database!Answer, Database!Serving
<1>3. Database!Refuse
  BY <1>2, QuietSync DEF Database!Refuse
<1> QED
  BY <1>1, <1>3 DEF CallInv, Database!Next

LEMMA RefuseRead ==
    ASSUME NEW c \in Database!Reads, call \in {NoCall, c}, Quiet,
           NEW r \in {"ERR_IO", "ERR_IMAGE_NOT_FOUND", "ERR_INVALID_IMGID"}, Refuse(c, r)
    PROVE  CallInv' /\ Database!Next
<1>1. /\ call' = [c EXCEPT !.ret = r]
      /\ call'.ret # "pending" /\ pc' = "return"
  BY RefuseAnswers
<1>2. Database!Answer(c, r)
  BY <1>1, RequestTypes DEF Database!Answer, Database!Serving
<1>3. Database!Refuse
  BY <1>2, QuietSync DEF Database!Refuse
<1> QED
  BY <1>1, <1>3 DEF CallInv, Database!Next

\* A request that is taken.
LEMMA BeginCall ==
    ASSUME call = NoCall, Quiet,
           call' \in Database!Inserts \cup Database!Deletes \cup Database!Reads
    PROVE  Database!Next
  BY QuietSync, RequestTypes DEF Database!Begin, Database!Next

\* Closing or dying: what is left is a file of now or of before.
LEMMA ForgetStep ==
    ASSUME Forget, disk'.metadata \in {disk.metadata, stream.metadata}
    PROVE  CallInv' /\ Database!Next
<1>1. call' = Database!NoCall /\ pc' = "idle" /\ stream' = disk' /\ call' = NoCall
  BY RequestTypes DEF Forget
<1>2. Database!MaySync /\ Live(stream.metadata)' = Live(disk.metadata)'
  BY <1>1, LivePrimed DEF Database!MaySync
<1>3. Database!Crash
  BY <1>1, <1>2 DEF Database!Crash
<1> QED
  BY <1>1, <1>3 DEF CallInv, Database!Next

\* Between calls the file has the images of memory.
LEMMA IdleSame ==
    ASSUME DatabaseInv, Idle
    PROVE  /\ call = NoCall /\ TypeOK
           /\ \A j \in Slots : SameImage(metadata[j], stream.metadata[j])
           /\ Live(metadata) = Live(stream.metadata)
<1>1. \A j \in Slots : SameImage(metadata[j], stream.metadata[j])
  BY DEF DatabaseInv, ContentsInv, NamesInv, Idle, InFlight
<1> QED
  BY <1>1, LiveSame DEF DatabaseInv, CallInv, Idle, ContentsInv, NamesInv, TypeInv, KindInv

LEMMA InsertStep ==
    ASSUME faults' = 0, DatabaseInv, ContentsInv',
           NEW id \in ImgIds, NEW img \in Images \cup NonImages, Insert(id, img)
    PROVE  CallInv' /\ Database!Next
<1>0. Idle
  BY DEF Insert, InsertRefused, InsertRejected, InsertCopy, InsertNew, Acceptable, Insertable
<1>1. TypeOK /\ call = NoCall /\ Live(metadata) = Live(stream.metadata)
  BY <1>0, IdleSame
<1>2. CASE InsertRefused(id, img)
  <2>1. Quiet /\ \E r \in {"ERR_IO", "ERR_IMGFS_FULL"} : Refuse(InsertCall(id, img), r)
    BY <1>2 DEF InsertRefused, Quiet
  <2> QED
    BY <1>1, <2>1, RefuseInsert, RequestTypes
<1>3. CASE InsertRejected(id, img)
  <2>1. PICK i \in Slots :
          \/ img \in NonImages /\ Refuse(InsertCall(id, img), "ERR_IMGLIB")
          \/ Namesakes(i, id) # {} /\ Refuse(InsertCall(id, img), "ERR_DUPLICATE_ID")
    BY <1>3 DEF InsertRejected
  <2>2. Namesakes(i, id) # {} => id \in Database!Ids(Live(stream.metadata))
    BY <1>1, LiveIds DEF Namesakes
  <2>3. Quiet
    BY <1>3 DEF InsertRejected, Quiet
  <2>4. /\ InsertCall(id, img) \in Database!Inserts
        /\ InsertCall(id, img).id = id /\ InsertCall(id, img).img = img
    BY RequestTypes
  <2> QED
    BY <1>1, <2>1, <2>2, <2>3, <2>4, RefuseInsert
<1>4. ASSUME NEW i \in Slots, NEW offset \in [Resolutions -> Nat],
             Acceptable(i, id, img), Commit(i, id, img, offset), Quiet
      PROVE  CallInv' /\ Database!Next
  <2>1. pc' = "insert_header" /\ slot' = i /\ call' = InsertCall(id, img)
    BY <1>4 DEF Commit, Continue
  <2>2. /\ call' \in Database!Inserts /\ call'.id = id /\ call'.img = img
    BY <2>1, RequestTypes
  <2>3. FreshEntry(id, img, offset) \in Entry
    BY <1>1, <1>4, EntryTypes
  <2>4. metadata'[i].is_valid /\ metadata'[i].img_id = id /\ metadata'[i].SHA = img
    BY <1>1, <1>4, <2>3 DEF Commit, FreshEntry, TypeOK, Entry
  <2>5. ~stream'.metadata[i].is_valid
    BY <1>4, InsertSlot DEF Acceptable, Quiet, DatabaseInv, ContentsInv
  <2>6. img \in Images
    BY <1>4 DEF Acceptable
  <2> QED
    BY <1>1, <1>4, <2>1, <2>2, <2>4, <2>5, <2>6, BeginCall DEF CallInv, Holds
<1>5. CASE InsertCopy(id, img)
  <2>1. PICK i \in Slots : \E offset \in DedupOffsets(i, id, img) :
          Acceptable(i, id, img) /\ Commit(i, id, img, offset)
    BY <1>5 DEF InsertCopy
  <2>2. PICK offset \in DedupOffsets(i, id, img) :
          Acceptable(i, id, img) /\ Commit(i, id, img, offset)
    BY <2>1
  <2>3. offset \in [Resolutions -> Nat]
    BY <1>1, <2>2, EntryTypes
  <2>4. Quiet
    BY <1>5 DEF InsertCopy, Quiet
  <2> QED
    BY <1>4, <2>2, <2>3, <2>4
<1>6. CASE InsertNew(id, img)
  <2>1. PICK i \in Slots : \E offset \in DedupOffsets(i, id, img) :
          /\ Acceptable(i, id, img)
          /\ disk' = stream /\ stream' = AppendBlob(stream, img, "orig")
          /\ Commit(i, id, img, [offset EXCEPT !["orig"] = EndOf(stream)])
    BY <1>1, <1>6, NoFault DEF InsertNew, Flush
  <2>2. PICK offset \in DedupOffsets(i, id, img) :
          /\ Acceptable(i, id, img)
          /\ disk' = stream /\ stream' = AppendBlob(stream, img, "orig")
          /\ Commit(i, id, img, [offset EXCEPT !["orig"] = EndOf(stream)])
    BY <2>1
  <2>3. offset \in [Resolutions -> Nat] /\ EndOf(stream) \in Nat
    BY <1>1, <2>2, EntryTypes, WriteTypes DEF TypeOK
  <2>4. [offset EXCEPT !["orig"] = EndOf(stream)] \in [Resolutions -> Nat]
    BY <2>3
  <2>5. Quiet
    BY <1>1, <2>2, WriteKeepsMetadata DEF Quiet, TypeOK
  <2> QED
    BY <1>4, <2>2, <2>4, <2>5
<1> QED
  BY <1>2, <1>3, <1>5, <1>6 DEF Insert

LEMMA InsertHeaderStep ==
    ASSUME faults' = 0, DatabaseInv, InsertHeader
    PROVE  CallInv' /\ Database!Next
<1>1. /\ disk' = stream /\ stream' = WriteHeader(stream, header)
      /\ pc' = "insert_entry" /\ UNCHANGED <<call, slot, metadata>> /\ pc = "insert_header"
  BY NoFault DEF InsertHeader, Flush, Continue, DatabaseInv, ContentsInv, NamesInv, TypeInv, KindInv
<1>2. stream'.metadata = stream.metadata
  BY <1>1, WriteKeepsMetadata DEF DatabaseInv, ContentsInv, NamesInv, TypeInv, KindInv, TypeOK
<1>3. Database!Sync
  BY <1>1, <1>2, LivePrimed DEF Database!Sync
<1> QED
  BY <1>1, <1>2, <1>3 DEF DatabaseInv, CallInv, Holds, Database!Next

\* The entry of an insertion reaches the file: its name is new there too.
LEMMA InsertEntryStep ==
    ASSUME faults' = 0, DatabaseInv, InsertEntry
    PROVE  CallInv' /\ Database!Next
<1>0. TypeOK /\ ContentsInv /\ UniqueIds /\ pc = "insert_entry" /\ slot \in Slots
  BY DEF InsertEntry, DatabaseInv, ContentsInv, NamesInv, TypeInv, KindInv, TypeOK
<1>1. /\ disk' = stream /\ stream' = WriteEntry(stream, slot, metadata[slot])
      /\ Refuse(call, "ERR_NONE")
  BY <1>0, NoFault DEF InsertEntry, Flush
<1>2. /\ call \in Database!Inserts /\ call.img \in Images
      /\ Holds(metadata, slot, call.id, call.img)
      /\ ~stream.metadata[slot].is_valid
  BY <1>0 DEF DatabaseInv, CallInv
<1>3. stream'.metadata = [stream.metadata EXCEPT ![slot] = metadata[slot]]
  BY <1>0, <1>1, WriteKeepsMetadata DEF TypeOK
<1>4. Live(stream'.metadata) = Live(stream.metadata) \cup {<<call.id, call.img>>}
  BY <1>0, <1>2, <1>3, FileTypes, LiveInsert DEF Holds, ContentsInv
<1>5. call.id \notin Database!Ids(Live(stream.metadata))
  <2>1. ASSUME NEW j \in ValidSlots(stream.metadata), stream.metadata[j].img_id = call.id
        PROVE  FALSE
    <3>1. j \in Slots /\ j # slot /\ stream.metadata[j].is_valid
      BY <1>2, <2>1 DEF ValidSlots
    <3>2. SameImage(metadata[j], stream.metadata[j])
      BY <1>0, <3>1 DEF ContentsInv, NamesInv, TypeInv, KindInv
    <3> QED
      BY <1>0, <1>2, <2>1, <3>1, <3>2 DEF SameImage, Holds, UniqueIds, Unique, ValidSlots
  <2> QED
    BY <2>1, LiveIds
<1>6. /\ call' = [call EXCEPT !.ret = "ERR_NONE"]
      /\ call'.ret # "pending" /\ pc' = "return"
  BY <1>1, <1>2, RefuseAnswers
<1>7. Live(stream.metadata)' = Live(stream.metadata) \cup {<<call.id, call.img>>}
  BY <1>4, LivePrimed
<1>8. Live(disk.metadata)' = Live(stream.metadata)
  BY <1>1, LivePrimed
<1>9. Database!Insert
  BY <1>2, <1>5, <1>6, <1>7, <1>8 DEF Database!Insert, Database!Answer, Database!Serving
<1> QED
  BY <1>6, <1>9 DEF CallInv, Database!Next

LEMMA DeleteStep ==
    ASSUME faults' = 0, DatabaseInv, ContentsInv', NEW id \in ImgIds, Delete(id)
    PROVE  CallInv' /\ Database!Next
<1>0. Idle
  BY DEF Delete, DeleteRefused, DeleteHeader
<1>1. /\ TypeOK /\ call = NoCall
      /\ \A j \in Slots : SameImage(metadata[j], stream.metadata[j])
  BY <1>0, IdleSame
<1>2. CASE DeleteRefused(id)
  <2>1. Quiet /\ \E r \in {"ERR_IO", "ERR_IMAGE_NOT_FOUND"} : Refuse(DeleteCall(id), r)
    BY <1>2 DEF DeleteRefused, Quiet
  <2> QED
    BY <1>1, <2>1, RefuseDelete, RequestTypes
<1>3. CASE DeleteHeader(id)
  <2>1. PICK i \in Slots :
          /\ metadata[i].is_valid /\ metadata[i].img_id = id
          /\ metadata' = [metadata EXCEPT ![i].is_valid = FALSE]
          /\ pc' = "delete_entry" /\ slot' = i /\ call' = DeleteCall(id)
    BY <1>3 DEF DeleteHeader, FirstOf, Named, Continue
  <2>2. disk' = stream /\ stream' = WriteHeader(stream, header')
    BY <1>1, <1>3, NoFault DEF DeleteHeader, Flush
  <2>3. stream'.metadata = stream.metadata
    BY <1>1, <2>2, WriteKeepsMetadata DEF TypeOK
  <2>4. Quiet
    BY <2>2, <2>3 DEF Quiet
  <2>5. ~metadata'[i].is_valid
    BY <1>1, <2>1 DEF TypeOK, Entry
  <2>6. stream'.metadata[i].is_valid /\ stream'.metadata[i].img_id = id
    BY <1>1, <2>1, <2>3 DEF SameImage
  <2>7. call' \in Database!Deletes /\ call'.id = id
    BY <2>1, RequestTypes
  <2> QED
    BY <1>1, <2>1, <2>4, <2>5, <2>6, <2>7, BeginCall DEF CallInv
<1> QED
  BY <1>2, <1>3 DEF Delete

\* The cleared entry reaches the file: no other entry there has its name.
LEMMA DeleteEntryStep ==
    ASSUME faults' = 0, DatabaseInv, DeleteEntry
    PROVE  CallInv' /\ Database!Next
<1>0. TypeOK /\ ContentsInv /\ UniqueIds /\ pc = "delete_entry" /\ slot \in Slots
  BY DEF DeleteEntry, DatabaseInv, ContentsInv, NamesInv, TypeInv, KindInv, TypeOK
<1>1. /\ disk' = stream /\ stream' = WriteEntry(stream, slot, metadata[slot])
      /\ Refuse(call, "ERR_NONE")
  BY <1>0, NoFault DEF DeleteEntry, Flush
<1>2. /\ call \in Database!Deletes /\ ~metadata[slot].is_valid
      /\ stream.metadata[slot].is_valid /\ stream.metadata[slot].img_id = call.id
  BY <1>0 DEF DatabaseInv, CallInv
<1>3. stream'.metadata = [stream.metadata EXCEPT ![slot] = metadata[slot]]
  BY <1>0, <1>1, WriteKeepsMetadata DEF TypeOK
<1>4. Live(stream'.metadata) = {p \in Live(stream.metadata) : p[1] # call.id}
  BY <1>0, <1>2, <1>3, FileTypes, LiveDelete DEF UniqueIds, ContentsInv
<1>5. call.id \in Database!Ids(Live(stream.metadata))
  BY <1>0, <1>2, LiveIds DEF ValidSlots
<1>6. /\ call' = [call EXCEPT !.ret = "ERR_NONE"]
      /\ call'.ret # "pending" /\ pc' = "return"
  BY <1>1, <1>2, RefuseAnswers
<1>7. Live(stream.metadata)' = {p \in Live(stream.metadata) : p[1] # call.id}
  BY <1>4, LivePrimed
<1>8. Live(disk.metadata)' = Live(stream.metadata)
  BY <1>1, LivePrimed
<1>9. Database!Delete
  BY <1>2, <1>5, <1>6, <1>7, <1>8 DEF Database!Delete, Database!Answer, Database!Serving
<1> QED
  BY <1>6, <1>9 DEF CallInv, Database!Next

\* fread() at the offset of an entry gets the image of the entry, or nothing.
LEMMA FetchStep ==
    ASSUME faults' = 0, ContentsInv, NEW c \in Database!Reads, call \in {NoCall, c},
           NEW i \in Slots, Fetch(c, metadata[i].offset[c.res]),
           metadata[i].is_valid, metadata[i].img_id = c.id,
           \A j \in Slots : SameImage(metadata[j], stream.metadata[j])
    PROVE  CallInv' /\ Database!Next
<1> DEFINE offset == metadata[i].offset[c.res]
<1>0. TypeOK /\ c.res \in Resolutions /\ c.data = NoImage /\ c.ids = {}
  BY DEF ContentsInv, NamesInv, TypeInv, KindInv, Database!Reads, Database!Call
<1>1. /\ disk' = stream /\ stream' = stream
      /\ IF Readable(stream, offset)
         THEN Answer(c, "ERR_NONE", stream.contents[offset], {})
         ELSE Refuse(c, "ERR_IO")
  <2>1. ~FlushFails
    BY <1>0, NoFault
  <2>2. stream.intact
    BY <2>1 DEF Fetch, Flush, ContentsInv, NamesInv, TypeInv, IntactInv
  <2> QED
    BY <2>1, <2>2 DEF Fetch, Flush
<1>2. Quiet
  BY <1>1 DEF Quiet
<1>3. CASE ~Readable(stream, offset)
  BY <1>1, <1>2, <1>3, RefuseRead
<1>4. CASE Readable(stream, offset)
  <2>1. offset # 0
    BY <1>4 DEF Readable
  <2>2. stream.contents[offset] = [img |-> metadata[i].SHA, res |-> c.res]
    BY <1>0, <2>1, StoredPoints DEF ContentsInv, ContentsMatch, ValidSlots, Points
  <2> HIDE DEF offset
  <2>3. Answer(c, "ERR_NONE", [img |-> metadata[i].SHA, res |-> c.res], {})
    BY <1>1, <1>4, <2>2
  <2>4. /\ call' = [c EXCEPT !.ret = "ERR_NONE",
                            !.data = [img |-> metadata[i].SHA, res |-> c.res]]
        /\ call'.ret # "pending" /\ pc' = "return"
    BY <1>0, <2>3 DEF Answer, Database!Reads, Database!Call
  <2>5. <<c.id, metadata[i].SHA>> \in Live(stream.metadata)
    BY DEF SameImage, Live, ValidSlots
  <2>6. PICK p \in Live(stream.metadata) : p[1] = c.id /\ p[2] = metadata[i].SHA
    BY <2>5
  <2>7. Database!Serving(c)
    BY RequestTypes DEF Database!Serving
  <2>8. Database!Read
    BY <1>2, <2>4, <2>6, <2>7, QuietSync DEF Database!Read
  <2> QED
    BY <2>4, <2>8 DEF CallInv, Database!Next
<1> QED
  BY <1>3, <1>4

LEMMA ReadStep ==
    ASSUME faults' = 0, DatabaseInv, ContentsInv',
           NEW id \in ImgIds, NEW res \in Resolutions, Read(id, res)
    PROVE  CallInv' /\ Database!Next
<1>0. Idle
  BY DEF Read, ReadRefused, ReadStored, ReadResize
<1>1. /\ TypeOK /\ call = NoCall
      /\ \A j \in Slots : SameImage(metadata[j], stream.metadata[j])
  BY <1>0, IdleSame
<1>2. /\ ReadCall(id, res) \in Database!Reads
      /\ ReadCall(id, res).id = id /\ ReadCall(id, res).res = res
  BY RequestTypes
<1>3. CASE ReadRefused(id, res)
  <2>1. Quiet /\ \E r \in {"ERR_IO", "ERR_IMAGE_NOT_FOUND", "ERR_INVALID_IMGID"} :
          Refuse(ReadCall(id, res), r)
    BY <1>3 DEF ReadRefused, Quiet
  <2> QED
    BY <1>1, <1>2, <2>1, RefuseRead
<1>4. CASE ReadStored(id, res)
  <2>1. PICK i \in Slots :
          /\ metadata[i].is_valid /\ metadata[i].img_id = id
          /\ Fetch(ReadCall(id, res), metadata[i].offset[res])
    BY <1>4 DEF ReadStored, FirstOf, Named
  <2> QED
    BY <1>1, <1>2, <2>1, FetchStep DEF DatabaseInv
<1>5. CASE ReadResize(id, res)
  <2>1. PICK i \in Slots :
          /\ metadata[i].is_valid /\ metadata[i].img_id = id
          /\ disk' = stream
          /\ slot' = i /\ call' = ReadCall(id, res)
          /\ \/ /\ stream' = AppendBlob(stream,
                       stream.contents[metadata[i].offset["orig"]].img, res)
                /\ metadata' = [metadata EXCEPT ![i].offset[res] = EndOf(stream)]
                /\ pc' = "resize_header"
             \/ stream' = stream /\ metadata' = metadata /\ pc' = "read_fetch"
    BY <1>1, <1>5, NoFault DEF ReadResize, Flush, Continue, FirstOf, Named
  <2>2. stream'.metadata = stream.metadata
    BY <1>1, <2>1, WriteKeepsMetadata DEF TypeOK
  <2>3. Quiet
    BY <2>1, <2>2 DEF Quiet
  <2>4. metadata'[i].is_valid /\ metadata'[i].img_id = id
    BY <1>1, <2>1 DEF TypeOK, Entry
  <2> QED
    BY <1>1, <1>2, <2>1, <2>3, <2>4, BeginCall DEF CallInv
<1> QED
  BY <1>3, <1>4, <1>5 DEF Read

\* lazily_resize() writes an entry that the file has already.
LEMMA ResizeHeaderStep ==
    ASSUME faults' = 0, DatabaseInv, ContentsInv', ResizeHeader
    PROVE  CallInv' /\ Database!Next
<1>1. /\ disk' = stream /\ pc' = "read_fetch" /\ pc = "resize_header"
      /\ UNCHANGED <<mode, call, slot, metadata>> /\ mode # "closed"
  BY NoFault DEF ResizeHeader, Flush, Continue, DatabaseInv, ContentsInv, NamesInv, TypeInv, KindInv
<1>2. \A j \in Slots : SameImage(metadata[j], stream.metadata[j])
  BY <1>1 DEF DatabaseInv, ContentsInv, NamesInv, InFlight
<1>3. \A j \in Slots : SameImage(metadata[j], stream'.metadata[j])
  BY <1>1 DEF ContentsInv, NamesInv, InFlight
<1>4. Live(stream'.metadata) = Live(stream.metadata)
  BY <1>2, <1>3, LiveSame
<1>5. Database!Sync
  BY <1>1, <1>4, LivePrimed DEF Database!Sync
<1> QED
  BY <1>1, <1>5 DEF DatabaseInv, CallInv, Database!Next

LEMMA ReadFetchStep ==
    ASSUME faults' = 0, DatabaseInv, ReadFetch
    PROVE  CallInv' /\ Database!Next
<1>1. pc = "read_fetch" /\ mode # "closed" /\ slot \in Slots /\ ContentsInv
  BY DEF ReadFetch, DatabaseInv, ContentsInv, NamesInv, TypeInv, KindInv, TypeOK
<1>2. \A j \in Slots : SameImage(metadata[j], stream.metadata[j])
  BY <1>1 DEF ContentsInv, NamesInv, InFlight
<1>3. /\ call \in Database!Reads /\ metadata[slot].is_valid
      /\ metadata[slot].img_id = call.id
  BY <1>1 DEF DatabaseInv, CallInv
<1>4. Fetch(call, metadata[slot].offset[call.res])
  BY DEF ReadFetch
<1> QED
  BY <1>1, <1>2, <1>3, <1>4, FetchStep

LEMMA ListStep ==
    ASSUME DatabaseInv, NEW output \in {"STDOUT", "JSON"}, List(output)
    PROVE  CallInv' /\ Database!Next
<1>1. /\ call = NoCall /\ Live(metadata) = Live(stream.metadata) /\ Quiet
  BY IdleSame DEF List, Quiet
<1>2. ListedIds = Database!Ids(Live(stream.metadata))
  BY <1>1, LiveIds DEF ListedIds
<1>3. PICK ids \in {{}, ListedIds} :
        /\ output = "JSON" => ids = ListedIds
        /\ Answer(Call(output), "ERR_NONE", NoImage, ids)
  BY DEF List
<1>4. /\ call' = [Call(output) EXCEPT !.ret = "ERR_NONE", !.ids = ids]
      /\ call'.ret # "pending" /\ pc' = "return"
  <2>1. Call(output) \in Database!Lists(output)
    BY RequestTypes
  <2> QED
    BY <1>3, <2>1 DEF Answer, Database!Lists, Database!Call
<1>5. Database!Serving(Call(output))
  BY <1>1, RequestTypes DEF Database!Serving
<1>6. Database!List
  BY <1>1, <1>2, <1>3, <1>4, <1>5, QuietSync, RequestTypes DEF Database!List
<1> QED
  BY <1>4, <1>6 DEF CallInv, Database!Next

LEMMA ReturnStep ==
    ASSUME DatabaseInv, Return
    PROVE  CallInv' /\ Database!Next
<1>1. call.ret # "pending" /\ call' = NoCall /\ pc' = "idle" /\ Quiet
  BY DEF Return, DatabaseInv, CallInv, Quiet
<1>2. Database!Return
  BY <1>1, QuietSync, RequestTypes DEF Database!Return
<1> QED
  BY <1>1, <1>2 DEF CallInv, Database!Next

LEMMA NextStep ==
    ASSUME faults' = 0, DatabaseInv, [Next]_vars
    PROVE  DatabaseInv' /\ [Database!Next]_Database!vars
<1>0. ContentsInv'
  BY NextContents DEF DatabaseInv
<1>1. CASE (\E m \in {"rb", "rb+"} : Open(m)) \/ UNCHANGED vars
  <2>1. UNCHANGED <<stream, disk, call, slot, pc>>
    BY <1>1 DEF Open, vars
  <2>2. UNCHANGED Database!vars
    BY <2>1, LivePrimed DEF Database!vars
  <2>3. CallInv'
    <3>1. CASE \E m \in {"rb", "rb+"} : Open(m)
      BY <2>1, <3>1 DEF Open, CallInv, DatabaseInv, ContentsInv, NamesInv, TypeInv, KindInv
    <3>2. CASE UNCHANGED vars
      BY <3>2 DEF vars, CallInv, DatabaseInv, Holds
    <3> QED
      BY <1>1, <3>1, <3>2
  <2> QED
    BY <1>0, <2>2, <2>3 DEF DatabaseInv
<1>2. CASE Close \/ Crash
  <2>1. disk'.metadata \in {disk.metadata, stream.metadata} /\ Forget
    BY <1>2, DropKeepsMetadata, NoFault
    DEF Close, Crash, Flush, DatabaseInv, ContentsInv, NamesInv, TypeInv, KindInv
  <2> QED
    BY <1>0, <2>1, ForgetStep DEF DatabaseInv
<1>3. CASE \E id \in ImgIds, img \in Images \cup NonImages : Insert(id, img)
  BY <1>0, <1>3, InsertStep DEF DatabaseInv
<1>4. CASE \E id \in ImgIds : Delete(id)
  BY <1>0, <1>4, DeleteStep DEF DatabaseInv
<1>5. CASE \E id \in ImgIds, res \in Resolutions : Read(id, res)
  BY <1>0, <1>5, ReadStep DEF DatabaseInv
<1>6. CASE \E output \in {"STDOUT", "JSON"} : List(output)
  BY <1>0, <1>6, ListStep DEF DatabaseInv
<1>7. CASE Step
  BY <1>0, <1>7, InsertHeaderStep, InsertEntryStep, DeleteEntryStep,
     ResizeHeaderStep, ReadFetchStep, ReturnStep DEF Step, DatabaseInv
<1>8. ~Create
  BY NoCreate DEF DatabaseInv
<1> QED
  BY <1>1, <1>2, <1>3, <1>4, <1>5, <1>6, <1>7, <1>8 DEF Next

LEMMA InitStep == Init => DatabaseInv /\ Database!Init
<1>1. Live(EmptyMetadata) = {}
  BY DEF Live, ValidSlots, EmptyMetadata, EmptyEntry
<1> QED
  BY <1>1, InitContents, RequestTypes
  DEF Init, DatabaseInv, CallInv, EmptyFile, Database!Init

\* As long as no flush fails, do_open, do_close, do_insert, do_delete, do_read
\* and do_list, cut short anywhere by a crash, are the operations of a database
\* of images of which a crash takes back at most the last change.
THEOREM IsImageDatabaseCorrect == Spec /\ []NothingFailed => IsImageDatabase
<1>1. Init => DatabaseInv /\ Database!Init
  BY InitStep
<1>2. DatabaseInv /\ NothingFailed' /\ [Next]_vars
      => DatabaseInv' /\ [Database!Next]_Database!vars
  BY NextStep DEF NothingFailed
<1> QED
  BY <1>1, <1>2, PTL DEF Spec, IsImageDatabase, Database!Spec
-----------------------------------------------------------------------------
(***************************************************************************)
(* What the refinement says of a crash: it takes back one change at most.  *)
(***************************************************************************)
OneBehind(db, durable) ==
    \E change : db \in {durable, durable \cup {change}, durable \ {change}}
Behind == OneBehind(Live(stream.metadata), Live(disk.metadata))

LEMMA NoneBehind == \A db : OneBehind(db, db)
  BY DEF OneBehind

\* Whatever the database does keeps its durable copy at most one change behind.
LEMMA BehindStep ==
    ASSUME Behind, UniqueIds, [Database!Next]_Database!vars
    PROVE  Behind'
<1> DEFINE db == Live(stream.metadata)
           durable == Live(disk.metadata)
<1>1. db' = Live(stream'.metadata) /\ durable' = Live(disk'.metadata)
  BY LivePrimed
<1>2. \A p, q \in db : p[1] = q[1] => p = q
  BY DEF UniqueIds, Unique, Live
<1>3. ASSUME NEW p \in db PROVE {q \in db : q[1] # p[1]} = db \ {p}
  BY <1>2
<1> SUFFICES OneBehind(db', durable')
  BY <1>1 DEF Behind
<1>4. OneBehind(db, durable)
  BY DEF Behind
<1>5. CASE Database!MaySync /\ db' = db
  BY <1>4, <1>5, NoneBehind DEF Database!MaySync
<1>6. CASE Database!Crash \/ Database!Sync
  BY <1>6, NoneBehind DEF Database!Crash, Database!Sync
<1>7. CASE Database!Insert
  BY <1>7 DEF Database!Insert, OneBehind
<1>8. CASE Database!Delete
  <2>1. PICK p \in db : p[1] = call.id
    BY <1>8 DEF Database!Delete, Database!Ids
  <2>2. db' = db \ {p} /\ durable' = db
    BY <1>3, <1>8, <2>1 DEF Database!Delete
  <2> QED
    BY <2>2 DEF OneBehind
<1>9. CASE UNCHANGED Database!vars
  BY <1>4, <1>9 DEF Database!vars
<1> QED
  BY <1>5, <1>6, <1>7, <1>8, <1>9
  DEF Database!Next, Database!Begin, Database!Read, Database!List, Database!Refuse, Database!Return

\* Until a flush fails, what a crash leaves lacks at most one change of what the
\* FILE holds, at any point of any call; and between calls that is what memory
\* holds, so a caller whose call has returned loses at most that call, however
\* often the process died before.
THEOREM CrashTakesBackOne ==
    Spec => [](NothingFailed =>
        /\ \E change : Live(stream.metadata) \in {Live(disk.metadata),
                          Live(disk.metadata) \cup {change}, Live(disk.metadata) \ {change}}
        /\ Idle => Live(metadata) = Live(stream.metadata))
<1> DEFINE Known == NothingFailed => DatabaseInv /\ Behind
<1>1. Init => TypeInv /\ Known
  BY InitStep, NoneBehind, InitTypes DEF Init, Behind
<1>2. TypeInv /\ Known /\ [Next]_vars => TypeInv' /\ Known'
  <2> SUFFICES ASSUME TypeInv, Known, [Next]_vars, NothingFailed' PROVE DatabaseInv' /\ Behind'
    BY NextTypes
  <2>1. DatabaseInv /\ Behind
    BY FaultsGrow DEF TypeInv, NothingFailed
  <2>2. DatabaseInv' /\ [Database!Next]_Database!vars
    BY <2>1, NextStep DEF NothingFailed
  <2>3. UniqueIds
    BY <2>1 DEF DatabaseInv, ContentsInv, NamesInv
  <2> QED
    BY <2>1, <2>2, <2>3, BehindStep
<1>3. ASSUME DatabaseInv, Idle PROVE Live(metadata) = Live(stream.metadata)
  BY <1>3, IdleSame
<1> HIDE DEF Known
<1>4. Known => (NothingFailed =>
        /\ \E change : Live(stream.metadata) \in {Live(disk.metadata),
                          Live(disk.metadata) \cup {change}, Live(disk.metadata) \ {change}}
        /\ Idle => Live(metadata) = Live(stream.metadata))
  BY <1>3 DEF Known, Behind, OneBehind
<1> QED
  BY <1>1, <1>2, <1>4, PTL DEF Spec
=============================================================================
