------------------------ MODULE ImgfsCountsProofs -------------------------
(***************************************************************************)
(* Theorems of Imgfs: which entries can hide others in the file, and how   *)
(* far the counters can be from the entries.                               *)
(***************************************************************************)
EXTENDS ImgfsProofs, FiniteSetTheorems
-----------------------------------------------------------------------------
(***************************************************************************)
(* A theorem of Imgfs until the first flush that fails, whatever the       *)
(* number of crashes: in the file, only slot 0 can hide an image from      *)
(* do_read and do_delete, which stop at the first entry of a name.         *)
(*                                                                         *)
(* do_insert fills the first free slot, so an entry that becomes valid has *)
(* only valid entries before it; do_delete leaves a name no other valid    *)
(* entry has.  The refused names do_insert leaves in memory reach the file *)
(* only through lazily_resize(), which writes the first entry.             *)
(***************************************************************************)
\* Only the first slot of a table hides an image.
Visible(md) == \A i, j \in Slots : Shadows(md, i, j) => i = 0

\* The inductive invariant: the slot of an insertion is valid and has no free
\* slot before it, the name of a deletion is gone.
VisibleInv ==
    /\ NamesInv
    /\ Visible(stream.metadata)
    /\ Visible(disk.metadata)
    /\ pc \in {"insert_header", "insert_entry"} =>
        \A j \in Slots : j <= slot => metadata[j].is_valid
    /\ pc = "delete_entry" =>
        /\ ~metadata[slot].is_valid
        /\ \A j \in ValidSlots(metadata) : metadata[j].img_id # metadata[slot].img_id

LEMMA InitVisible == Init => VisibleInv
  BY InitNames DEF Init, VisibleInv, Visible, Shadows, EmptyFile, EmptyMetadata, EmptyEntry

\* A step that changes neither the entries of the file nor a call in flight.
LEMMA SameVisible ==
    ASSUME VisibleInv, NamesInv',
           stream'.metadata \in {stream.metadata, disk'.metadata},
           disk'.metadata \in {disk.metadata, stream.metadata},
           ~InFlight'
    PROVE  VisibleInv'
<1>1. Visible(disk'.metadata) /\ Visible(stream'.metadata)
  BY DEF VisibleInv
<1>2. Visible(disk.metadata)' /\ Visible(stream.metadata)'
  BY <1>1 DEF Visible, Shadows
<1> QED
  BY <1>2 DEF VisibleInv, InFlight

LEMMA CloseVisible ==
    ASSUME faults' = 0, VisibleInv, NamesInv', Close \/ Crash
    PROVE  VisibleInv'
<1>1. TypeOK
  BY DEF VisibleInv, NamesInv, TypeInv, KindInv
<1>2. disk'.metadata \in {disk.metadata, stream.metadata}
  BY <1>1, DropKeepsMetadata, NoFault DEF Close, Crash, Flush
<1>3. stream' = disk' /\ ~InFlight'
  BY DEF Close, Crash, Forget, InFlight
<1> QED
  BY <1>2, <1>3, SameVisible

LEMMA InsertVisible ==
    ASSUME faults' = 0, VisibleInv, NamesInv',
           NEW id \in ImgIds, NEW img \in Images \cup NonImages, Insert(id, img)
    PROVE  VisibleInv'
<1>0. TypeOK
  BY DEF VisibleInv, NamesInv, TypeInv, KindInv
<1>1. CASE InsertRefused(id, img) \/ InsertRejected(id, img)
  <2>1. pc' = "return" /\ stream' = stream /\ disk' = disk
    BY <1>1 DEF InsertRefused, InsertRejected, Refuse, Answer
  <2> QED
    BY <2>1, SameVisible DEF InFlight
<1>2. CASE InsertCopy(id, img) \/ InsertNew(id, img)
  <2>1. PICK i \in Slots : \E offset \in [Resolutions -> Nat] :
          Acceptable(i, id, img) /\ Commit(i, id, img, offset)
    <3>1. CASE InsertCopy(id, img)
      BY <1>0, <3>1, EntryTypes DEF InsertCopy
    <3>2. CASE InsertNew(id, img)
      <4>1. PICK i \in Slots : \E offset \in DedupOffsets(i, id, img) :
              /\ Acceptable(i, id, img)
              /\ Commit(i, id, img, [offset EXCEPT !["orig"] = EndOf(stream)])
        BY <1>0, <3>2, NoFault DEF InsertNew
      <4>2. PICK offset \in DedupOffsets(i, id, img) :
              /\ Acceptable(i, id, img)
              /\ Commit(i, id, img, [offset EXCEPT !["orig"] = EndOf(stream)])
        BY <4>1
      <4>3. offset \in [Resolutions -> Nat] /\ EndOf(stream) \in Nat
        BY <1>0, <4>2, EntryTypes, WriteTypes DEF TypeOK
      <4>4. [offset EXCEPT !["orig"] = EndOf(stream)] \in [Resolutions -> Nat]
        BY <4>3
      <4> QED
        BY <4>2, <4>4
    <3> QED
      BY <1>2, <3>1, <3>2
  <2>2. PICK offset \in [Resolutions -> Nat] :
          Acceptable(i, id, img) /\ Commit(i, id, img, offset)
    BY <2>1
  <2>3. pc' = "insert_header" /\ slot' = i
    BY <2>2 DEF Commit, Continue
  <2>4. \A j \in Slots : j < i => metadata[j].is_valid
    BY <2>2 DEF Acceptable, Insertable, FirstOf, FreeSlots, ValidSlots, Slots
  <2>5. \A j \in Slots : j < i => metadata'[j] = metadata[j]
    BY <1>0, <2>2 DEF Commit, TypeOK, Slots
  <2>6. metadata'[i].is_valid
    <3>1. FreshEntry(id, img, offset) \in Entry
      BY <1>0, <2>2, EntryTypes
    <3> QED
      BY <1>0, <2>2, <3>1 DEF Commit, FreshEntry, TypeOK, Entry
  <2>7. \A j \in Slots : j <= i => metadata'[j].is_valid
    BY <2>4, <2>5, <2>6 DEF Slots
  <2>8. /\ stream'.metadata = stream.metadata
        /\ disk'.metadata \in {disk.metadata, stream.metadata}
    <3>1. CASE InsertCopy(id, img)
      BY <3>1 DEF InsertCopy
    <3>2. CASE InsertNew(id, img)
      <4>1. disk' = stream /\ stream' = AppendBlob(stream, img, "orig")
        BY <1>0, <3>2, NoFault DEF InsertNew, Flush
      <4> QED
        BY <1>0, <4>1, WriteKeepsMetadata DEF TypeOK
    <3> QED
      BY <1>2, <3>1, <3>2
  <2>9. Visible(stream.metadata)' /\ Visible(disk.metadata)'
    BY <2>8 DEF VisibleInv, Visible, Shadows
  <2> QED
    BY <2>3, <2>7, <2>9 DEF VisibleInv
<1> QED
  BY <1>1, <1>2 DEF Insert

LEMMA InsertHeaderVisible ==
    ASSUME faults' = 0, VisibleInv, NamesInv', InsertHeader
    PROVE  VisibleInv'
<1>1. /\ disk' = stream /\ stream' = WriteHeader(stream, header)
      /\ pc' = "insert_entry" /\ slot' = slot /\ metadata' = metadata
  BY NoFault DEF InsertHeader, Flush, Continue, VisibleInv, NamesInv, TypeInv, KindInv
<1>2. stream'.metadata = stream.metadata
  BY <1>1, WriteKeepsMetadata DEF VisibleInv, NamesInv, TypeInv, KindInv, TypeOK
<1>3. Visible(stream.metadata)' /\ Visible(disk.metadata)'
  BY <1>1, <1>2 DEF VisibleInv, Visible, Shadows
<1>4. pc = "insert_header"
  BY DEF InsertHeader
<1> QED
  BY <1>1, <1>3, <1>4 DEF VisibleInv

\* The entry of a call reaches the file.
LEMMA EntryVisible ==
    ASSUME VisibleInv, NamesInv', NEW i \in Slots,
           stream'.metadata = [stream.metadata EXCEPT ![i] = metadata[i]],
           disk' = stream, metadata' = metadata, mode' # "closed", ~InFlight',
           \/ i = 0
           \/ metadata[i].is_valid
           \/ /\ ~metadata[i].is_valid
              /\ \A j \in ValidSlots(metadata) : metadata[j].img_id # metadata[i].img_id,
           metadata[i].is_valid => \A j \in Slots : j < i => metadata[j].is_valid
    PROVE  VisibleInv'
<1>1. \A j \in Slots : SameImage(metadata[j], stream'.metadata[j])
  BY DEF NamesInv
<1>2. /\ stream'.metadata[i] = metadata[i]
      /\ \A j \in Slots : j # i => stream'.metadata[j] = stream.metadata[j]
  BY DEF VisibleInv, NamesInv, TypeInv, KindInv, TypeOK, File
<1>3. ASSUME NEW k \in Slots, NEW j \in Slots, Shadows(stream'.metadata, k, j), k # 0
      PROVE  FALSE
  <2>1. /\ k < j /\ ~stream'.metadata[k].is_valid /\ stream'.metadata[j].is_valid
        /\ stream'.metadata[k].img_id = stream'.metadata[j].img_id
    BY <1>3 DEF Shadows
  <2>2. CASE k # i /\ j # i
    BY <1>2, <1>3, <2>2 DEF VisibleInv, Visible, Shadows
  <2>3. CASE j = i
    BY <1>1, <1>2, <2>1, <2>3 DEF SameImage
  <2>4. CASE k = i
    BY <1>1, <1>2, <1>3, <2>1, <2>4 DEF SameImage, ValidSlots
  <2> QED
    BY <2>2, <2>3, <2>4
<1>4. Visible(stream.metadata)'
  BY <1>3 DEF Visible, Shadows
<1>5. Visible(disk.metadata)'
  BY DEF VisibleInv, Visible, Shadows
<1> QED
  BY <1>4, <1>5 DEF VisibleInv, InFlight

LEMMA InsertEntryVisible ==
    ASSUME faults' = 0, VisibleInv, NamesInv', InsertEntry
    PROVE  VisibleInv'
<1>1. /\ disk' = stream /\ stream' = WriteEntry(stream, slot, metadata[slot])
      /\ pc' = "return" /\ UNCHANGED <<mode, metadata>>
  BY NoFault DEF InsertEntry, Flush, Refuse, Answer, VisibleInv, NamesInv, TypeInv, KindInv
<1>2. pc = "insert_entry" /\ slot \in Slots /\ mode' # "closed" /\ stream \in File
  BY <1>1 DEF InsertEntry, VisibleInv, NamesInv, TypeInv, KindInv, TypeOK
<1>3. \A j \in Slots : j < slot => metadata[j].is_valid
  BY <1>2 DEF VisibleInv, Slots
<1>4. metadata[slot].is_valid
  BY <1>2 DEF VisibleInv, Slots
<1>5. stream'.metadata = [stream.metadata EXCEPT ![slot] = metadata[slot]]
  BY <1>1, <1>2, WriteKeepsMetadata
<1> QED
  BY <1>1, <1>2, <1>3, <1>4, <1>5, EntryVisible DEF InFlight

LEMMA DeleteEntryVisible ==
    ASSUME faults' = 0, VisibleInv, NamesInv', DeleteEntry
    PROVE  VisibleInv'
<1>1. /\ disk' = stream /\ stream' = WriteEntry(stream, slot, metadata[slot])
      /\ pc' = "return" /\ UNCHANGED <<mode, metadata>>
  BY NoFault DEF DeleteEntry, Flush, Refuse, Answer, VisibleInv, NamesInv, TypeInv, KindInv
<1>2. pc = "delete_entry" /\ slot \in Slots /\ mode' # "closed" /\ stream \in File
  BY <1>1 DEF DeleteEntry, VisibleInv, NamesInv, TypeInv, KindInv, TypeOK
<1>3. /\ ~metadata[slot].is_valid
      /\ \A j \in ValidSlots(metadata) : metadata[j].img_id # metadata[slot].img_id
  BY <1>2 DEF VisibleInv
<1>4. stream'.metadata = [stream.metadata EXCEPT ![slot] = metadata[slot]]
  BY <1>1, <1>2, WriteKeepsMetadata
<1> QED
  BY <1>1, <1>2, <1>3, <1>4, EntryVisible DEF InFlight

\* The name that do_delete frees is that of no other valid entry.
LEMMA DeleteVisible ==
    ASSUME faults' = 0, VisibleInv, NamesInv', NEW id \in ImgIds, Delete(id)
    PROVE  VisibleInv'
<1>0. TypeOK
  BY DEF VisibleInv, NamesInv, TypeInv, KindInv
<1>1. CASE DeleteRefused(id)
  <2>1. pc' = "return" /\ stream' = stream /\ disk' = disk
    BY <1>1 DEF DeleteRefused, Refuse, Answer
  <2> QED
    BY <2>1, SameVisible DEF InFlight
<1>2. CASE DeleteHeader(id)
  <2>1. PICK i \in Slots :
          /\ metadata[i].is_valid
          /\ metadata' = [metadata EXCEPT ![i].is_valid = FALSE]
          /\ pc' = "delete_entry" /\ slot' = i
    BY <1>2 DEF DeleteHeader, FirstOf, Named, Continue
  <2>2. /\ ~metadata'[i].is_valid /\ metadata'[i].img_id = metadata[i].img_id
        /\ \A j \in Slots : j # i => metadata'[j] = metadata[j]
    BY <1>0, <2>1 DEF TypeOK, Entry
  <2>3. Unique(metadata)
    BY DEF VisibleInv, NamesInv, UniqueIds
  <2>4. \A j \in ValidSlots(metadata') : metadata'[j].img_id # metadata'[i].img_id
    BY <2>1, <2>2, <2>3 DEF Unique, ValidSlots
  <2>5. disk' = stream /\ stream' = WriteHeader(stream, header')
    BY <1>2, NoFault DEF DeleteHeader, Flush, VisibleInv, NamesInv, TypeInv, KindInv
  <2>6. stream'.metadata = stream.metadata
    BY <1>0, <2>5, WriteKeepsMetadata DEF TypeOK
  <2>7. Visible(stream.metadata)' /\ Visible(disk.metadata)'
    BY <2>5, <2>6 DEF VisibleInv, Visible, Shadows
  <2> QED
    BY <2>1, <2>2, <2>4, <2>7 DEF VisibleInv, ValidSlots
<1> QED
  BY <1>1, <1>2 DEF Delete

LEMMA FetchVisible ==
    ASSUME faults' = 0, VisibleInv, NamesInv', NEW c, NEW offset, Fetch(c, offset)
    PROVE  VisibleInv'
<1>1. disk' = stream /\ stream' = stream /\ pc' = "return"
  BY NoFault DEF Fetch, Flush, Answer, Refuse, VisibleInv, NamesInv, TypeInv, KindInv
<1> QED
  BY <1>1, SameVisible DEF InFlight

LEMMA ReadVisible ==
    ASSUME faults' = 0, VisibleInv, NamesInv',
           NEW id \in ImgIds, NEW res \in Resolutions, Read(id, res)
    PROVE  VisibleInv'
<1>0. TypeOK
  BY DEF VisibleInv, NamesInv, TypeInv, KindInv
<1>1. CASE ReadRefused(id, res)
  <2>1. pc' = "return" /\ stream' = stream /\ disk' = disk
    BY <1>1 DEF ReadRefused, Refuse, Answer
  <2> QED
    BY <2>1, SameVisible DEF InFlight
<1>2. CASE ReadStored(id, res)
  <2>1. \E c, offset : Fetch(c, offset)
    BY <1>2 DEF ReadStored
  <2> QED
    BY <2>1, FetchVisible
<1>3. CASE ReadResize(id, res)
  <2>1. /\ disk' = stream /\ pc' \in {"resize_header", "read_fetch"}
        /\ stream' = stream \/ \E img : stream' = AppendBlob(stream, img, res)
    BY <1>0, <1>3, NoFault DEF ReadResize, Flush, Continue
  <2>2. stream'.metadata = stream.metadata /\ disk'.metadata = stream.metadata
    BY <1>0, <2>1, WriteKeepsMetadata DEF TypeOK
  <2> QED
    BY <2>1, <2>2, SameVisible DEF InFlight
<1> QED
  BY <1>1, <1>2, <1>3 DEF Read

\* lazily_resize() writes slot 0, with whatever name memory has there.
LEMMA ResizeHeaderVisible ==
    ASSUME faults' = 0, VisibleInv, NamesInv', ResizeHeader
    PROVE  VisibleInv'
<1>0. TypeOK
  BY DEF VisibleInv, NamesInv, TypeInv, KindInv
<1>1. /\ disk' = stream
      /\ stream' = WriteFirstEntry(WriteHeader(stream, header))
      /\ pc' = "read_fetch" /\ UNCHANGED <<mode, metadata>> /\ mode # "closed"
  BY <1>0, NoFault DEF ResizeHeader, Flush, Continue, VisibleInv, NamesInv, TypeInv, KindInv
<1>2. 0 \in Slots /\ WriteHeader(stream, header) \in File
  <2>1. 0 \in Slots
    BY SizesAssumption DEF Slots
  <2>2. stream \in File /\ header \in Header
    BY <1>0 DEF TypeOK
  <2> QED
    BY <2>1, <2>2, WriteTypes
<1>3. WriteHeader(stream, header).metadata = stream.metadata
  BY <1>0, WriteKeepsMetadata DEF TypeOK
<1>4. stream'.metadata = [stream.metadata EXCEPT ![0] = metadata[0]]
  BY <1>1, <1>2, <1>3, WriteKeepsMetadata DEF WriteFirstEntry
<1>5. \A j \in Slots : ~(j < 0)
  BY DEF Slots
<1> QED
  BY <1>1, <1>2, <1>4, <1>5, EntryVisible DEF InFlight

LEMMA NextVisible ==
    ASSUME VisibleInv, [Next]_vars, faults' = 0
    PROVE  VisibleInv'
<1>0. NamesInv'
  BY NextNames DEF VisibleInv
<1>1. CASE Close \/ Crash
  BY <1>0, <1>1, CloseVisible
<1>8. CASE Create
  BY <1>8, FaultsGrow DEF Create, VisibleInv, NamesInv, TypeInv, IntactInv
<1>2. CASE \E id \in ImgIds, img \in Images \cup NonImages : Insert(id, img)
  BY <1>0, <1>2, InsertVisible
<1>3. CASE \E id \in ImgIds : Delete(id)
  BY <1>0, <1>3, DeleteVisible
<1>4. CASE \E id \in ImgIds, res \in Resolutions : Read(id, res)
  BY <1>0, <1>4, ReadVisible
<1>5. CASE \/ \E m \in {"rb", "rb+"} : Open(m)
          \/ \E output \in {"STDOUT", "JSON"} : List(output)
          \/ Return
  <2>1. UNCHANGED <<stream, disk>> /\ ~InFlight'
    BY <1>5 DEF Open, List, Answer, Return, InFlight, VisibleInv, NamesInv, TypeInv, KindInv
  <2> QED
    BY <1>0, <2>1, SameVisible
<1>6. CASE Step
  BY <1>0, <1>5, <1>6, InsertHeaderVisible, InsertEntryVisible,
     DeleteEntryVisible, ResizeHeaderVisible, FetchVisible DEF Step, ReadFetch
<1>7. CASE UNCHANGED vars
  <2>1. UNCHANGED <<metadata, stream, disk, slot, pc>>
    BY <1>7 DEF vars
  <2> QED
    BY <1>0, <2>1 DEF VisibleInv, Visible, Shadows, ValidSlots
<1> QED
  BY <1>1, <1>2, <1>3, <1>4, <1>5, <1>6, <1>7, <1>8 DEF Next

\* Until a flush fails no entry of the file but the first hides another from
\* do_read and do_delete: opening the store again makes every other image
\* visible.
THEOREM OnlyFirstSlotShadowsCorrect == Spec => [](NothingFailed => OnlyFirstSlotShadows)
<1>1. VisibleInv => OnlyFirstSlotShadows
  BY DEF VisibleInv, Visible, OnlyFirstSlotShadows
<1>2. Init => TypeInv /\ (NothingFailed => VisibleInv)
  BY InitTypes, InitVisible
<1>3. /\ TypeInv /\ (NothingFailed => VisibleInv)
      /\ [Next]_vars
      => TypeInv' /\ (NothingFailed => VisibleInv)'
  BY NextTypes, NextVisible, FaultsGrow DEF NothingFailed, TypeInv
<1> QED
  BY <1>1, <1>2, <1>3, PTL DEF Spec
-----------------------------------------------------------------------------
(***************************************************************************)
(* Theorems of Imgfs whatever crashes and whichever flushes fail: how far  *)
(* header.nb_files can be from the number of valid entries, and that as    *)
(* long as nothing fails the answers that follow it are right.             *)
(*                                                                         *)
(* Memory, the file seen through the FILE and the file of the kernel may   *)
(* hold three different sets of valid entries, and an entry goes back to   *)
(* the file alone (do_insert, do_delete, lazily_resize), long after its    *)
(* neighbours were lost.  So the invariant is about every set of slots T   *)
(* that may have been written back: with the entries of memory in T and    *)
(* those of the file outside, the counter of memory is off by at most one  *)
(* for each crash and two for each flush that failed.  T = Slots is the    *)
(* table of memory, T = {} the table of the file.                          *)
(*                                                                         *)
(* A crash loses one write.  A flush that fails can lose two: the entry    *)
(* the previous call left in the buffer, and that of the call it hits, in  *)
(* do_insert one that stays valid and counted in memory, in do_delete the  *)
(* header or the entry that went to the wrong place.                       *)
(***************************************************************************)
(***************************************************************************)
(* The number of valid entries.                                            *)
(***************************************************************************)
LEMMA SlotsFinite == IsFiniteSet(Slots) /\ Cardinality(Slots) = MaxFiles
<1>1. 0 \in Int /\ MaxFiles - 1 \in Int /\ ~(0 > MaxFiles - 1) /\ MaxFiles - 1 - 0 + 1 = MaxFiles
  BY SizesAssumption
<1> QED
  BY <1>1, FS_Interval DEF Slots

LEMMA ValidFinite ==
    ASSUME NEW md
    PROVE  /\ IsFiniteSet(ValidSlots(md))
           /\ Cardinality(ValidSlots(md)) \in 0 .. MaxFiles
           /\ Cardinality(ValidSlots(md)) = 0 => ValidSlots(md) = {}
           /\ Cardinality(ValidSlots(md)) = MaxFiles => ValidSlots(md) = Slots
<1>1. ValidSlots(md) \in SUBSET Slots
  BY DEF ValidSlots
<1>2. /\ IsFiniteSet(ValidSlots(md))
      /\ Cardinality(ValidSlots(md)) <= Cardinality(Slots)
      /\ Cardinality(Slots) = Cardinality(ValidSlots(md)) => Slots = ValidSlots(md)
  BY <1>1, SlotsFinite, FS_Subset
<1>3. Cardinality(ValidSlots(md)) \in Nat
  BY <1>2, FS_CardinalityType
<1>4. Cardinality(ValidSlots(md)) = 0 => ValidSlots(md) = {}
  BY <1>2, FS_EmptySet
<1> QED
  BY <1>2, <1>3, <1>4, SlotsFinite, SizesAssumption

-----------------------------------------------------------------------------
(***************************************************************************)
(* A counter n and a set of slots.                                         *)
(***************************************************************************)
\* n is at most k off the size of S.
Off(n, S, k) == n - Cardinality(S) \in -k .. k

\* The slots valid in a file with the table W, once the entries of T were
\* written back from a memory with the table V.
Mix(V, W, T) == (V \cap T) \cup (W \ T)

\* That holds whichever entries are written back; those of F will be.
Tracks(n, V, W, F, k) ==
    \A T \in SUBSET Slots : F \subseteq T => Off(n, Mix(V, W, T), k)

LEMMA SlotsCardinality ==
    ASSUME NEW S \in SUBSET Slots
    PROVE  IsFiniteSet(S) /\ Cardinality(S) \in Nat
  BY SlotsFinite, FS_Subset, FS_CardinalityType

LEMMA OffMore ==
    ASSUME NEW n \in Int, NEW S \in SUBSET Slots, NEW k \in Nat, NEW l \in Nat,
           k <= l, Off(n, S, k)
    PROVE  Off(n, S, l)
  BY SlotsCardinality DEF Off

\* A slot more or less puts the counter one further off at most.
LEMMA OffDiffer ==
    ASSUME NEW n \in Int, NEW S \in SUBSET Slots, NEW T \in SUBSET Slots, NEW k \in Nat,
           NEW x, S \ {x} = T \ {x}, Off(n, S, k)
    PROVE  Off(n, T, k + 1)
<1> DEFINE s == Cardinality(S)
           t == Cardinality(T)
           r == Cardinality(S \ {x})
<1>1. s \in Nat /\ t \in Nat /\ IsFiniteSet(S) /\ IsFiniteSet(T)
  BY SlotsCardinality
<1>2. r \in {s, s - 1} /\ r \in {t, t - 1}
  BY <1>1, FS_RemoveElement
<1>3. n - s \in -k .. k
  BY DEF Off
<1> HIDE DEF s, t, r
<1>4. n - t \in -(k + 1) .. (k + 1)
  BY <1>1, <1>2, <1>3
<1> QED
  BY <1>4 DEF Off, t

LEMMA OffAdd ==
    ASSUME NEW n \in Int, NEW S \in SUBSET Slots, NEW k \in Nat,
           NEW x, x \notin S, Off(n, S, k)
    PROVE  Off(n + 1, S \cup {x}, k)
<1>1. Cardinality(S) \in Nat /\ Cardinality(S \cup {x}) = Cardinality(S) + 1
  BY SlotsCardinality, FS_AddElement
<1> QED
  BY <1>1 DEF Off

LEMMA OffRemove ==
    ASSUME NEW n \in Int, NEW S \in SUBSET Slots, NEW k \in Nat,
           NEW x, x \in S, Off(n, S, k)
    PROVE  Off(n - 1, S \ {x}, k)
<1>1. Cardinality(S) \in Nat /\ Cardinality(S \ {x}) = Cardinality(S) - 1
  BY SlotsCardinality, FS_RemoveElement
<1> QED
  BY <1>1 DEF Off

LEMMA MixSlots ==
    ASSUME NEW V \in SUBSET Slots, NEW W \in SUBSET Slots, NEW T \in SUBSET Slots
    PROVE  Mix(V, W, T) \in SUBSET Slots
  BY DEF Mix

\* The table of memory, that of the file, that of the file with one entry more.
LEMMA TracksTables ==
    ASSUME NEW n, NEW V \in SUBSET Slots, NEW W \in SUBSET Slots,
           NEW F \in SUBSET Slots, NEW k, Tracks(n, V, W, F, k)
    PROVE  /\ Off(n, V, k)
           /\ F = {} => Off(n, W, k)
           /\ \A i \in Slots : F \subseteq {i} => Off(n, Mix(V, W, {i}), k)
<1>1. Mix(V, W, Slots) = V /\ Mix(V, W, {}) = W
  BY DEF Mix
<1>2. Off(n, V, k)
  BY <1>1 DEF Tracks
<1>3. F = {} => Off(n, W, k)
  BY <1>1 DEF Tracks
<1> QED
  BY <1>2, <1>3 DEF Tracks

LEMMA TracksMore ==
    ASSUME NEW n \in Int, NEW V \in SUBSET Slots, NEW W \in SUBSET Slots,
           NEW F, NEW k \in Nat, NEW l \in Nat, k <= l, Tracks(n, V, W, F, k)
    PROVE  Tracks(n, V, W, F, l)
  BY MixSlots, OffMore DEF Tracks

\* do_open(): memory is the file.
LEMMA TracksSame ==
    ASSUME NEW n, NEW W \in SUBSET Slots, NEW k, Off(n, W, k)
    PROVE  Tracks(n, W, W, {}, k)
<1>1. \A T : Mix(W, W, T) = W
  BY DEF Mix
<1> QED
  BY <1>1 DEF Tracks

\* An entry becomes valid in memory and is counted; it will be written.
LEMMA TracksAdd ==
    ASSUME NEW n \in Int, NEW V \in SUBSET Slots, NEW W \in SUBSET Slots,
           NEW k \in Nat, NEW i \in Slots, i \notin V, Tracks(n, V, W, {}, k)
    PROVE  Tracks(n + 1, V \cup {i}, W, {i}, k)
<1> SUFFICES ASSUME NEW T \in SUBSET Slots, i \in T
             PROVE  Off(n + 1, Mix(V \cup {i}, W, T), k)
  BY DEF Tracks
<1>1. Mix(V \cup {i}, W, T) = Mix(V, W, T) \cup {i} /\ i \notin Mix(V, W, T)
  BY DEF Mix
<1>2. Off(n, Mix(V, W, T), k)
  BY DEF Tracks
<1> QED
  BY <1>1, <1>2, MixSlots, OffAdd

\* An entry is cleared in memory and no longer counted; it will be written.
LEMMA TracksRemove ==
    ASSUME NEW n \in Int, NEW V \in SUBSET Slots, NEW W \in SUBSET Slots,
           NEW k \in Nat, NEW i \in Slots, i \in V, Tracks(n, V, W, {}, k)
    PROVE  Tracks(n - 1, V \ {i}, W, {i}, k)
<1> SUFFICES ASSUME NEW T \in SUBSET Slots, i \in T
             PROVE  Off(n - 1, Mix(V \ {i}, W, T), k)
  BY DEF Tracks
<1>1. Mix(V \ {i}, W, T) = Mix(V, W, T) \ {i} /\ i \in Mix(V, W, T)
  BY DEF Mix
<1>2. Off(n, Mix(V, W, T), k)
  BY DEF Tracks
<1> QED
  BY <1>1, <1>2, MixSlots, OffRemove

\* An entry is written back: nothing is owed any more.
LEMMA TracksWrite ==
    ASSUME NEW n, NEW V \in SUBSET Slots, NEW W \in SUBSET Slots,
           NEW F, NEW k, NEW i \in Slots, F \subseteq {i}, Tracks(n, V, W, F, k)
    PROVE  Tracks(n, V, Mix(V, W, {i}), {}, k)
<1> SUFFICES ASSUME NEW T \in SUBSET Slots
             PROVE  Off(n, Mix(V, Mix(V, W, {i}), T), k)
  BY DEF Tracks
<1>1. Mix(V, Mix(V, W, {i}), T) = Mix(V, W, T \cup {i})
  BY DEF Mix
<1>2. T \cup {i} \in SUBSET Slots /\ F \subseteq T \cup {i}
  OBVIOUS
<1> QED
  BY <1>1, <1>2 DEF Tracks

\* The file loses what was buffered in slot x, and slot i is not written after
\* all: two off.
LEMMA TracksLose ==
    ASSUME NEW n \in Int, NEW V \in SUBSET Slots, NEW W \in SUBSET Slots,
           NEW Z \in SUBSET Slots, NEW F \in SUBSET Slots, NEW k \in Nat,
           NEW i, F \subseteq {i}, NEW x, W \ {x} = Z \ {x}, Tracks(n, V, W, F, k)
    PROVE  Tracks(n, V, Z, {}, k + 2)
<1> SUFFICES ASSUME NEW T \in SUBSET Slots
             PROVE  Off(n, Mix(V, Z, T), k + 2)
  BY DEF Tracks
<1>1. T \cup F \in SUBSET Slots
  OBVIOUS
<1>2. Off(n, Mix(V, W, T \cup F), k)
  BY <1>1 DEF Tracks
<1>3. Mix(V, W, T \cup F) \ {i} = Mix(V, W, T) \ {i}
  BY DEF Mix
<1>4. Off(n, Mix(V, W, T), k + 1)
  BY <1>1, <1>2, <1>3, MixSlots, OffDiffer
<1>5. Mix(V, W, T) \ {x} = Mix(V, Z, T) \ {x}
  BY DEF Mix
<1>6. k + 1 \in Nat /\ (k + 1) + 1 = k + 2
  OBVIOUS
<1>7. Off(n, Mix(V, Z, T), (k + 1) + 1)
  BY <1>4, <1>5, <1>6, MixSlots, OffDiffer
<1> QED
  BY <1>6, <1>7

\* The file loses what was buffered in slot x; what is owed still is.
LEMMA TracksForget ==
    ASSUME NEW n \in Int, NEW V \in SUBSET Slots, NEW W \in SUBSET Slots,
           NEW Z \in SUBSET Slots, NEW F \in SUBSET Slots, NEW k \in Nat,
           NEW x, W \ {x} = Z \ {x}, Tracks(n, V, W, F, k)
    PROVE  Tracks(n, V, Z, F, k + 1)
<1> SUFFICES ASSUME NEW T \in SUBSET Slots, F \subseteq T
             PROVE  Off(n, Mix(V, Z, T), k + 1)
  BY DEF Tracks
<1>1. Off(n, Mix(V, W, T), k)
  BY DEF Tracks
<1>2. Mix(V, W, T) \ {x} = Mix(V, Z, T) \ {x}
  BY DEF Mix
<1> QED
  BY <1>1, <1>2, MixSlots, OffDiffer

\* decr_header(): the count goes back, the entry stays valid in memory.
LEMMA TracksBack ==
    ASSUME NEW n \in Int, NEW V \in SUBSET Slots, NEW W \in SUBSET Slots,
           NEW k \in Nat, NEW i \in Slots, Tracks(n, V, W, {i}, k)
    PROVE  Tracks(n - 1, V, W, {}, k + 2)
<1> SUFFICES ASSUME NEW T \in SUBSET Slots
             PROVE  Off(n - 1, Mix(V, W, T), k + 2)
  BY DEF Tracks
<1>1. T \cup {i} \in SUBSET Slots
  OBVIOUS
<1>2. Off(n, Mix(V, W, T \cup {i}), k)
  BY <1>1 DEF Tracks
<1>3. Mix(V, W, T \cup {i}) \ {i} = Mix(V, W, T) \ {i}
  BY DEF Mix
<1>4. Off(n, Mix(V, W, T), k + 1)
  BY <1>1, <1>2, <1>3, MixSlots, OffDiffer
<1> QED
  BY <1>4, MixSlots, SlotsCardinality DEF Off
-----------------------------------------------------------------------------
(***************************************************************************)
(* The inductive invariant.                                                *)
(***************************************************************************)
\* What crashes and failed flushes can have put the counters off.
Most == crashes + 2 * faults

\* The entry the call in progress has counted and not written yet.
Pending == IF InFlight THEN {slot} ELSE {}

\* The header of the file is the old one: do_delete wrote the new one elsewhere.
HeaderAstray ==
    /\ pc = "delete_entry" /\ Most > 0
    /\ Off(stream.header.nb_files, ValidSlots(stream.metadata), Most - 1)

CountsInv ==
    /\ TypeInv
    /\ CountersTellTruth
    /\ pc \notin {"idle", "return"} => call.op # "STDOUT"
    /\ mode = "closed" =>
        /\ stream = disk
        /\ Off(disk.header.nb_files, ValidSlots(disk.metadata), Most)
    /\ mode # "closed" =>
        /\ Tracks(header.nb_files, ValidSlots(metadata), ValidSlots(stream.metadata),
                  Pending, Most)
        /\ pc \notin {"insert_entry", "delete_entry"} =>
            Off(stream.header.nb_files, ValidSlots(stream.metadata), Most)
        /\ pc \in {"insert_entry", "delete_entry"} =>
            /\ stream.metadata = disk.metadata
            /\ stream.header = header \/ HeaderAstray
        /\ Off(disk.header.nb_files, ValidSlots(disk.metadata), Most + 1)
        /\ \E x \in Slots : ValidSlots(stream.metadata) \ {x} = ValidSlots(disk.metadata) \ {x}

LEMMA CountTypes ==
    ASSUME TypeOK
    PROVE  /\ header.nb_files \in Nat /\ stream.header.nb_files \in Nat
           /\ disk.header.nb_files \in Nat
           /\ crashes \in Nat /\ faults \in Nat /\ Most \in Nat
           /\ Most = 0 <=> crashes + faults = 0
           /\ \A md : ValidSlots(md) \in SUBSET Slots
           /\ Pending \in SUBSET Slots
<1>1. /\ header.nb_files \in Nat /\ stream.header.nb_files \in Nat
      /\ disk.header.nb_files \in Nat
  BY DEF TypeOK, File, Header
<1>2. crashes \in Nat /\ faults \in Nat
  BY SizesAssumption DEF TypeOK
<1>3. Most \in Nat /\ (Most = 0 <=> crashes + faults = 0)
  BY <1>2 DEF Most
<1>4. Pending \in SUBSET Slots
  BY DEF Pending, InFlight, TypeOK
<1> QED
  BY <1>1, <1>2, <1>3, <1>4 DEF ValidSlots

LEMMA MostSteps ==
    ASSUME TypeOK
    PROVE  /\ crashes' = crashes /\ faults' = faults => Most' = Most
           /\ crashes' = crashes /\ faults' = faults + 1 => Most' = Most + 2
           /\ crashes' = crashes + 1 /\ faults' = faults => Most' = Most + 1
<1>1. crashes \in Nat /\ faults \in Nat
  BY CountTypes
<1> QED
  BY <1>1 DEF Most

\* What a step has to show when it leaves the store open.
LEMMA OpenCountsInv ==
    ASSUME TypeInv', CountersTellTruth',
           pc' \notin {"idle", "return"} => call'.op # "STDOUT",
           mode' # "closed",
           Tracks(header'.nb_files, ValidSlots(metadata'), ValidSlots(stream'.metadata),
                  Pending', Most'),
           \/ /\ pc' \notin {"insert_entry", "delete_entry"}
              /\ Off(stream'.header.nb_files, ValidSlots(stream'.metadata), Most')
           \/ /\ stream'.header = header' \/ HeaderAstray'
              /\ stream'.metadata = disk'.metadata
              /\ pc' \in {"insert_entry", "delete_entry"},
           Off(disk'.header.nb_files, ValidSlots(disk'.metadata), Most' + 1),
           NEW x \in Slots,
           ValidSlots(stream'.metadata) \ {x} = ValidSlots(disk'.metadata) \ {x}
    PROVE  CountsInv'
<1>1. Tracks(header.nb_files, ValidSlots(metadata), ValidSlots(stream.metadata),
             Pending, Most)'
  BY DEF Tracks, Off, Mix, ValidSlots
<1>2. (pc \notin {"insert_entry", "delete_entry"} =>
        Off(stream.header.nb_files, ValidSlots(stream.metadata), Most))'
  BY DEF Off, ValidSlots
<1>3. Off(disk.header.nb_files, ValidSlots(disk.metadata), Most + 1)'
  BY DEF Off, ValidSlots
<1>4. (\E y \in Slots : ValidSlots(stream.metadata) \ {y} = ValidSlots(disk.metadata) \ {y})'
  BY DEF ValidSlots
<1> QED
  BY <1>1, <1>2, <1>3, <1>4 DEF CountsInv

\* What a step has to show when it closes the store.
LEMMA ClosedCountsInv ==
    ASSUME TypeInv', Forget,
           Off(disk'.header.nb_files, ValidSlots(disk'.metadata), Most')
    PROVE  CountsInv'
<1>1. Off(disk.header.nb_files, ValidSlots(disk.metadata), Most)'
  BY DEF Off, ValidSlots
<1> QED
  BY <1>1 DEF Forget, CountsInv, CountersTellTruth

LEMMA InitCounts == Init => CountsInv
<1> SUFFICES ASSUME Init PROVE CountsInv
  OBVIOUS
<1>1. ValidSlots(EmptyMetadata) = {}
  BY DEF ValidSlots, EmptyMetadata, EmptyEntry
<1>2. Off(EmptyHeader.nb_files, ValidSlots(EmptyMetadata), Most)
  BY <1>1, FS_EmptySet DEF Init, Off, EmptyHeader, Most
<1> QED
  BY <1>2, InitTypes DEF Init, CountsInv, EmptyFile, CountersTellTruth
-----------------------------------------------------------------------------
(***************************************************************************)
(* What the steps do to the files.                                         *)
(***************************************************************************)
LEMMA DropKeeps ==
    ASSUME TypeOK, DropBuffer
    PROVE  /\ disk'.metadata = disk.metadata
           /\ \/ disk'.header = disk.header
              \/ disk'.header = stream.header /\ disk.metadata # stream.metadata
<1>1. disk \in File
  BY DEF TypeOK
<1>2. CASE disk' = disk
  BY <1>2
<1>3. CASE disk.metadata # stream.metadata /\ disk' = [disk EXCEPT !.header = stream.header]
  BY <1>1, <1>3 DEF File
<1>4. CASE disk' = Tear(disk) \/ disk' = Misplace(disk)
  BY <1>1, <1>4 DEF File, Tear, Misplace
<1> QED
  BY <1>2, <1>3, <1>4 DEF DropBuffer

\* A write that tears a blob or goes astray changes neither header nor entries.
LEMMA AstrayKeeps ==
    ASSUME NEW f \in File
    PROVE  /\ Tear(f).metadata = f.metadata /\ Tear(f).header = f.header
           /\ Misplace(f).metadata = f.metadata /\ Misplace(f).header = f.header
  BY DEF File, Tear, Misplace

\* The kernel is one off more than everything before, at most, ...
LEMMA DropCounts ==
    ASSUME CountsInv, mode # "closed", DropBuffer
    PROVE  Off(disk'.header.nb_files, ValidSlots(disk'.metadata), Most + 1)
<1>0. TypeOK
  BY DEF CountsInv, TypeInv, KindInv
<1>1. disk'.metadata = disk.metadata
  BY <1>0, DropKeeps
<1>2. CASE disk'.header = disk.header
  BY <1>1, <1>2 DEF CountsInv
<1>3. CASE disk'.header = stream.header /\ disk.metadata # stream.metadata
  <2>1. Off(stream.header.nb_files, ValidSlots(stream.metadata), Most)
    BY <1>3 DEF CountsInv
  <2>2. PICK x \in Slots :
          ValidSlots(stream.metadata) \ {x} = ValidSlots(disk.metadata) \ {x}
    BY DEF CountsInv
  <2>3. /\ stream.header.nb_files \in Int /\ Most \in Nat
        /\ ValidSlots(stream.metadata) \in SUBSET Slots
        /\ ValidSlots(disk.metadata) \in SUBSET Slots
    BY <1>0, CountTypes
  <2>4. Off(stream.header.nb_files, ValidSlots(disk.metadata), Most + 1)
    BY <2>1, <2>2, <2>3, OffDiffer
  <2> QED
    BY <1>1, <1>3, <2>4
<1> QED
  BY <1>0, <1>2, <1>3, DropKeeps

\* ... and so is the file that a flush leaves.
LEMMA StreamCounts ==
    ASSUME CountsInv, mode # "closed"
    PROVE  Off(stream.header.nb_files, ValidSlots(stream.metadata), Most + 1)
<1>0. TypeOK /\ Most \in Nat /\ Most + 1 \in Nat /\ Most <= Most + 1
  BY CountTypes DEF CountsInv, TypeInv, KindInv
<1> DEFINE V == ValidSlots(metadata)
           W == ValidSlots(stream.metadata)
<1>1. V \in SUBSET Slots /\ W \in SUBSET Slots
  BY <1>0, CountTypes
<1>4. CASE HeaderAstray
  <2>1. Most - 1 \in Nat /\ Most - 1 <= Most + 1
    BY <1>0, <1>4 DEF HeaderAstray
  <2> QED
    BY <1>0, <1>1, <1>4, <2>1, CountTypes, OffMore DEF HeaderAstray
<1>2. CASE pc \in {"insert_entry", "delete_entry"} /\ ~HeaderAstray
  <2>1. Pending = {slot} /\ slot \in Slots /\ stream.header = header
    BY <1>0, <1>2 DEF Pending, InFlight, CountsInv, TypeOK
  <2>2. Tracks(header.nb_files, V, W, {slot}, Most)
    BY <2>1 DEF CountsInv
  <2> HIDE DEF V, W
  <2>3. Off(header.nb_files, Mix(V, W, {slot}), Most)
    BY <1>1, <2>1, <2>2, TracksTables
  <2>4. Mix(V, W, {slot}) \ {slot} = W \ {slot} /\ Mix(V, W, {slot}) \in SUBSET Slots
    BY <1>1, <2>1, MixSlots DEF Mix
  <2>5. Off(stream.header.nb_files, W, Most + 1)
    BY <1>0, <1>1, <2>1, <2>3, <2>4, CountTypes, OffDiffer
  <2> QED
    BY <2>5 DEF W
<1>3. CASE pc \notin {"insert_entry", "delete_entry"}
  BY <1>0, <1>1, <1>3, CountTypes, OffMore DEF CountsInv
<1> QED
  BY <1>2, <1>3, <1>4

LEMMA MemoryCounts ==
    ASSUME CountsInv, mode # "closed"
    PROVE  Off(header.nb_files, ValidSlots(metadata), Most)
<1> DEFINE V == ValidSlots(metadata)
           W == ValidSlots(stream.metadata)
<1>1. /\ V \in SUBSET Slots /\ W \in SUBSET Slots /\ Pending \in SUBSET Slots
      /\ Tracks(header.nb_files, V, W, Pending, Most)
  BY CountTypes DEF CountsInv, TypeInv, KindInv
<1> HIDE DEF V, W
<1>2. Off(header.nb_files, V, Most)
  BY <1>1, TracksTables
<1> QED
  BY <1>2 DEF V
-----------------------------------------------------------------------------
(***************************************************************************)
(* The steps.                                                              *)
(***************************************************************************)
\* An answer that no count decided.
LEMMA OtherAnswer ==
    ASSUME NEW c \in Calls, NEW r, NEW data, NEW ids, Answer(c, r, data, ids),
           c.op # "STDOUT", r # "ERR_IMGFS_FULL"
    PROVE  CountersTellTruth' /\ pc' = "return"
<1>1. call'.op = c.op /\ call'.ret = r /\ pc' = "return"
  BY DEF Answer, Calls
<1> QED
  BY <1>1 DEF CountersTellTruth

LEMMA RequestOps ==
    /\ \A id \in ImgIds, img \in Images \cup NonImages : InsertCall(id, img).op # "STDOUT"
    /\ \A id \in ImgIds : DeleteCall(id).op # "STDOUT"
    /\ \A id \in ImgIds, res \in Resolutions : ReadCall(id, res).op # "STDOUT"
    /\ Call("JSON").op # "STDOUT"
  BY DEF InsertCall, DeleteCall, ReadCall, Call, NoCall

\* The slot do_insert fills is not valid.
LEMMA FreeSlot ==
    ASSUME NEW i \in Slots, Insertable(i)
    PROVE  ~metadata[i].is_valid /\ mode # "closed" /\ pc = "idle"
  BY DEF Insertable, Idle, FirstOf, FreeSlots, ValidSlots

\* A step that counts nothing, and whose flush, if any, does its work.
LEMMA QuietCounts ==
    ASSUME CountsInv, TypeInv', mode # "closed", mode' = mode, ~InFlight, ~InFlight',
           header' = header, stream'.header = stream.header,
           ValidSlots(metadata') = ValidSlots(metadata),
           ValidSlots(stream'.metadata) = ValidSlots(stream.metadata),
           \/ disk'.header = disk.header /\ disk'.metadata = disk.metadata
           \/ disk'.header = stream.header /\ disk'.metadata = stream.metadata,
           crashes' = crashes, faults' \in {faults, faults + 1},
           CountersTellTruth',
           pc' \notin {"idle", "return"} => call'.op # "STDOUT"
    PROVE  CountsInv'
<1> DEFINE n == header.nb_files
           V == ValidSlots(metadata)
           W == ValidSlots(stream.metadata)
           Z == ValidSlots(disk.metadata)
           Z1 == ValidSlots(disk'.metadata)
<1>0. TypeOK /\ Slots # {}
  BY SizesAssumption DEF CountsInv, TypeInv, KindInv, Slots
<1>1. /\ n \in Int /\ stream.header.nb_files \in Int /\ disk.header.nb_files \in Int
      /\ V \in SUBSET Slots /\ W \in SUBSET Slots /\ Z \in SUBSET Slots /\ Z1 \in SUBSET Slots
      /\ Most \in Nat /\ Most + 1 \in Nat /\ Most' \in Nat /\ Most' + 1 \in Nat
      /\ Most <= Most' /\ Most <= Most' + 1 /\ Most + 1 <= Most' + 1
  <2>2. Most \in Nat /\ (Most' = Most \/ Most' = Most + 2)
    BY <1>0, CountTypes, MostSteps
  <2>3. V \in SUBSET Slots /\ W \in SUBSET Slots /\ Z \in SUBSET Slots /\ Z1 \in SUBSET Slots
    BY DEF ValidSlots
  <2>4. n \in Int /\ stream.header.nb_files \in Int /\ disk.header.nb_files \in Int
    BY <1>0, CountTypes
  <2> HIDE DEF n, V, W, Z, Z1
  <2>5. /\ Most + 1 \in Nat /\ Most' \in Nat /\ Most' + 1 \in Nat
        /\ Most <= Most' /\ Most <= Most' + 1 /\ Most + 1 <= Most' + 1
    BY <2>2
  <2> QED
    BY <2>2, <2>3, <2>4, <2>5
<1>2. Pending = {} /\ Pending' = {}
  BY DEF Pending
<1>3. /\ Tracks(n, V, W, {}, Most)
      /\ Off(stream.header.nb_files, W, Most)
      /\ Off(disk.header.nb_files, Z, Most + 1)
  BY <1>2 DEF CountsInv, InFlight
<1>4. PICK x \in Slots : W \ {x} = Z \ {x}
  BY DEF CountsInv
<1>5. PICK y \in Slots : W \ {y} = Z1 \ {y}
  BY <1>0, <1>4 DEF ValidSlots
<1> HIDE DEF n, V, W, Z, Z1
<1>6. Tracks(n, V, W, {}, Most')
  BY <1>1, <1>3, TracksMore
<1>7. Off(stream.header.nb_files, W, Most')
  BY <1>1, <1>3, OffMore
<1>8. Off(disk'.header.nb_files, Z1, Most' + 1)
  <2>1. CASE disk'.header = disk.header /\ disk'.metadata = disk.metadata
    BY <1>1, <1>3, <2>1, OffMore DEF Z, Z1
  <2>2. CASE disk'.header = stream.header /\ disk'.metadata = stream.metadata
    BY <1>1, <1>3, <2>2, OffMore DEF W, Z1
  <2> QED
    BY <2>1, <2>2
<1> QED
  BY <1>2, <1>5, <1>6, <1>7, <1>8, OpenCountsInv DEF n, V, W, Z1, InFlight

\* A flush that fails and ends the call, or the resizing.
LEMMA LostCounts ==
    ASSUME CountsInv, TypeInv', mode # "closed", mode' = mode,
           ~InFlight',
           header' = header, ValidSlots(metadata') = ValidSlots(metadata),
           DropBuffer,
           stream'.header = disk'.header, stream'.metadata = disk'.metadata,
           crashes' = crashes, faults' = faults + 1,
           CountersTellTruth',
           pc' \notin {"idle", "return"} => call'.op # "STDOUT"
    PROVE  CountsInv'
<1> DEFINE n == header.nb_files
           V == ValidSlots(metadata)
           W == ValidSlots(stream.metadata)
           Z == ValidSlots(disk.metadata)
<1>0. TypeOK /\ TypeOK' /\ Slots # {}
  BY SizesAssumption DEF CountsInv, TypeInv, KindInv, Slots
<1>1. /\ n \in Int /\ disk'.header.nb_files \in Int
      /\ V \in SUBSET Slots /\ W \in SUBSET Slots /\ Z \in SUBSET Slots
      /\ Most \in Nat /\ Most' = Most + 2
  <2>2. Most \in Nat /\ Most' = Most + 2
    BY <1>0, CountTypes, MostSteps
  <2>3. disk'.header.nb_files \in Int
    BY <1>0 DEF TypeOK, File, Header
  <2> QED
    BY <1>0, <2>2, <2>3, CountTypes
<1>2. Pending' = {} /\ Pending \subseteq {slot} /\ Pending \in SUBSET Slots
  BY <1>0, CountTypes DEF Pending
<1>3. Tracks(n, V, W, Pending, Most)
  BY DEF CountsInv
<1>4. PICK x \in Slots : W \ {x} = Z \ {x}
  BY DEF CountsInv
<1>5. disk'.metadata = disk.metadata
  BY <1>0, DropKeeps
<1>6. Off(disk'.header.nb_files, Z, Most + 1)
  BY <1>5, DropCounts
<1> HIDE DEF n, V, W, Z
<1>7. Tracks(n, V, Z, {}, Most')
  <2>1. Tracks(n, V, Z, {}, Most + 2)
    BY <1>1, <1>2, <1>3, <1>4, TracksLose
  <2> QED
    BY <1>1, <2>1
<1>8. Off(disk'.header.nb_files, Z, Most') /\ Off(disk'.header.nb_files, Z, Most' + 1)
  <2>1. /\ Most + 1 \in Nat /\ Most' \in Nat /\ Most' + 1 \in Nat
        /\ Most + 1 <= Most' /\ Most + 1 <= Most' + 1
    BY <1>1
  <2> QED
    BY <1>1, <1>6, <2>1, OffMore
<1> QED
  BY <1>0, <1>2, <1>5, <1>7, <1>8, OpenCountsInv DEF n, V, Z, InFlight

\* The entry i goes back to the file: the end of do_insert and do_delete, and
\* the one lazily_resize() writes.
LEMMA WrittenCounts ==
    ASSUME CountsInv, TypeInv', mode # "closed", mode' = mode, ~InFlight',
           NEW i \in Slots, Pending \subseteq {i},
           UNCHANGED <<header, metadata, crashes, faults>>,
           disk' = stream,
           stream'.header = header \/ (HeaderAstray /\ stream'.header = stream.header),
           stream'.metadata = [stream.metadata EXCEPT ![i] = metadata[i]],
           CountersTellTruth',
           pc' \notin {"idle", "return"} => call'.op # "STDOUT"
    PROVE  CountsInv'
<1> DEFINE n == header.nb_files
           V == ValidSlots(metadata)
           W == ValidSlots(stream.metadata)
           W1 == ValidSlots(stream'.metadata)
<1>0. TypeOK
  BY DEF CountsInv, TypeInv, KindInv
<1>1. /\ V \in SUBSET Slots /\ W \in SUBSET Slots /\ Pending \in SUBSET Slots
      /\ Most' = Most
  BY <1>0, CountTypes DEF Most
<1>2. Pending' = {}
  BY DEF Pending
<1>3. Tracks(n, V, W, Pending, Most)
  BY DEF CountsInv
<1>4. W1 = Mix(V, W, {i})
  BY <1>0 DEF ValidSlots, Mix, TypeOK, File
<1>5. Off(stream.header.nb_files, W, Most + 1)
  BY StreamCounts
<1> HIDE DEF n, V, W, W1
<1>6. Tracks(n, V, W1, {}, Most)
  BY <1>1, <1>3, <1>4, TracksWrite
<1>8. W1 \ {i} = W \ {i} /\ W1 \in SUBSET Slots
  BY <1>1, <1>4, MixSlots DEF Mix
<1>7. Off(stream'.header.nb_files, W1, Most)
  <2>1. CASE stream'.header = header
    BY <1>1, <1>3, <1>4, <2>1, TracksTables DEF n
  <2>2. CASE HeaderAstray /\ stream'.header = stream.header
    <3>1. stream.header.nb_files \in Int /\ Most - 1 \in Nat /\ (Most - 1) + 1 = Most
      BY <1>0, <2>2, CountTypes DEF HeaderAstray
    <3>2. Off(stream.header.nb_files, W, Most - 1)
      BY <2>2 DEF HeaderAstray, W
    <3>3. Off(stream.header.nb_files, W1, (Most - 1) + 1)
      BY <1>1, <1>8, <3>1, <3>2, OffDiffer
    <3> QED
      BY <2>2, <3>1, <3>3
  <2> QED
    BY <2>1, <2>2
<1> QED
  BY <1>1, <1>2, <1>5, <1>6, <1>7, <1>8, OpenCountsInv DEF n, V, W, W1, InFlight

LEMMA OpenCounts ==
    ASSUME CountsInv, TypeInv', NEW m \in {"rb", "rb+"}, Open(m)
    PROVE  CountsInv'
<1> DEFINE n == disk.header.nb_files
           Z == ValidSlots(disk.metadata)
<1>0. TypeOK /\ stream = disk /\ pc = "idle" /\ Slots # {}
  BY SizesAssumption DEF Open, CountsInv, TypeInv, KindInv, Slots
<1>1. /\ header' = disk.header /\ metadata' = disk.metadata /\ mode' # "closed"
      /\ stream' = disk /\ disk' = disk /\ pc' = "idle"
      /\ crashes' = crashes /\ faults' = faults
  BY <1>0 DEF Open
<1>2. n \in Int /\ Z \in SUBSET Slots /\ Most \in Nat /\ Most' = Most
  BY <1>0, <1>1, CountTypes DEF Most
<1>3. Off(n, Z, Most)
  BY DEF Open, CountsInv
<1>4. Pending' = {} /\ CountersTellTruth'
  BY <1>1 DEF Pending, InFlight, CountersTellTruth
<1> HIDE DEF n, Z
<1>5. Tracks(n, Z, Z, {}, Most)
  BY <1>2, <1>3, TracksSame
<1>6. Off(n, Z, Most + 1)
  BY <1>2, <1>3, OffMore
<1> QED
  BY <1>0, <1>1, <1>2, <1>3, <1>4, <1>5, <1>6, OpenCountsInv DEF n, Z

\* do_create() starts again from nothing.
LEMMA CreateCounts ==
    ASSUME CountsInv, TypeInv', Create
    PROVE  CountsInv'
<1>1. ValidSlots(EmptyMetadata) = {}
  BY DEF ValidSlots, EmptyMetadata, EmptyEntry
<1>2. Most \in Nat /\ Most' = Most
  BY CountTypes DEF Create, CountsInv, TypeInv, KindInv, Most
<1> HIDE DEF Most
<1>3. Off(EmptyHeader.nb_files, ValidSlots(EmptyMetadata), Most')
  BY <1>1, <1>2, FS_EmptySet DEF Off, EmptyHeader
<1>4. /\ mode' = "closed" /\ pc' = "idle" /\ stream' = EmptyFile /\ disk' = EmptyFile
  BY DEF Create, CountsInv, TypeInv, KindInv
<1>5. Off(disk.header.nb_files, ValidSlots(disk.metadata), Most)'
  BY <1>3, <1>4 DEF Off, ValidSlots, EmptyFile
<1> QED
  BY <1>4, <1>5 DEF CountsInv, CountersTellTruth

\* do_close() keeps the drift, unless its flush fails.
LEMMA CloseCounts ==
    ASSUME CountsInv, TypeInv', Close
    PROVE  CountsInv'
<1>0. TypeOK /\ mode # "closed" /\ pc = "idle" /\ Forget /\ crashes' = crashes
  BY DEF Close, Idle, CountsInv, TypeInv, KindInv
<1>1. crashes \in Nat /\ faults \in Nat /\ Most \in Nat
  BY <1>0, CountTypes
<1>2. CASE Flush
  <2>1. Off(stream.header.nb_files, ValidSlots(stream.metadata), Most)
    BY <1>0 DEF CountsInv
  <2>2. disk' = stream /\ Most' = Most
    BY <1>0, <1>2 DEF Flush, Most
  <2> QED
    BY <1>0, <2>1, <2>2, ClosedCountsInv
<1>3. CASE FlushFails
  <2>1. Off(disk'.header.nb_files, ValidSlots(disk'.metadata), Most + 1)
    BY <1>0, <1>3, DropCounts DEF FlushFails
  <2>2. disk'.header.nb_files \in Int /\ ValidSlots(disk'.metadata) \in SUBSET Slots
    BY DEF TypeInv, KindInv, TypeOK, File, Header, ValidSlots
  <2>3. Most' \in Nat /\ Most + 1 \in Nat /\ Most + 1 <= Most'
    BY <1>0, <1>1, <1>3 DEF FlushFails, Fault, Most
  <2> HIDE DEF Most
  <2>4. Off(disk'.header.nb_files, ValidSlots(disk'.metadata), Most')
    BY <2>1, <2>2, <2>3, OffMore
  <2> QED
    BY <1>0, <2>4, ClosedCountsInv
<1> QED
  BY <1>2, <1>3 DEF Close

\* A crash can add one.
LEMMA CrashCounts ==
    ASSUME CountsInv, TypeInv', Crash
    PROVE  CountsInv'
<1>0. /\ TypeOK /\ mode # "closed" /\ crashes \in Nat /\ faults \in Nat /\ Forget
      /\ crashes' = crashes + 1 /\ faults' = faults
  BY CountTypes DEF Crash, CountsInv, TypeInv, KindInv
<1>1. Off(disk'.header.nb_files, ValidSlots(disk'.metadata), Most + 1)
  BY <1>0, DropCounts, StreamCounts DEF Crash
<1>2. Most' = Most + 1
  BY <1>0 DEF Most
<1> QED
  BY <1>0, <1>1, <1>2, ClosedCountsInv

\* Room is refused because the header counts max_files, or no slot is free.
LEMMA RefusedCounts ==
    ASSUME CountsInv, TypeInv', NEW id \in ImgIds,
           NEW img \in Images \cup NonImages, InsertRefused(id, img)
    PROVE  CountsInv'
<1>0. TypeOK /\ mode # "closed" /\ pc = "idle" /\ ~InFlight
  BY DEF InsertRefused, Idle, InFlight, CountsInv, TypeInv, KindInv
<1>1. UNCHANGED <<mode, header, metadata, stream, disk, faults, crashes>>
  BY DEF InsertRefused
<1>2. PICK r \in {"ERR_IO", "ERR_IMGFS_FULL"} :
        /\ Refuse(InsertCall(id, img), r)
        /\ r = "ERR_IMGFS_FULL" => ~HasRoom \/ FreeSlots = {}
  BY DEF InsertRefused
<1>3. InsertCall(id, img) \in Calls /\ InsertCall(id, img).op # "STDOUT"
  BY CallTypes, RequestOps
<1>4. call'.op # "STDOUT" /\ call'.ret = r /\ pc' = "return"
  BY <1>2, <1>3 DEF Refuse, Answer, Calls
<1>5. ASSUME crashes + faults = 0, ~HasRoom PROVE FreeSlots = {}
  <2>1. Off(header.nb_files, ValidSlots(metadata), 0)
    BY <1>0, <1>5, MemoryCounts, CountTypes
  <2>2. header.nb_files = MaxFiles
    BY <1>0, <1>5, SizesAssumption DEF HasRoom, TypeOK, Header
  <2>3. Cardinality(ValidSlots(metadata)) = MaxFiles
    BY <2>1, <2>2, ValidFinite, SizesAssumption DEF Off
  <2> QED
    BY <2>3, ValidFinite DEF FreeSlots
<1>6. CountersTellTruth'
  BY <1>1, <1>2, <1>4, <1>5 DEF CountersTellTruth, FreeSlots, ValidSlots
<1> QED
  BY <1>0, <1>1, <1>4, <1>6, QuietCounts DEF InFlight

\* Memory counts the image and makes its entry valid in one go.
LEMMA CommitCounts ==
    ASSUME CountsInv, TypeInv', NEW id \in ImgIds, NEW img \in Images \cup NonImages,
           NEW i \in Slots, NEW offset \in [Resolutions -> Nat],
           Insertable(i), Commit(i, id, img, offset),
           mode' = mode, crashes' = crashes, faults' = faults,
           stream'.metadata = stream.metadata, stream'.header = stream.header,
           disk' = disk \/ disk' = stream
    PROVE  CountsInv'
<1> DEFINE n == header.nb_files
           V == ValidSlots(metadata)
           V1 == ValidSlots(metadata')
           W == ValidSlots(stream.metadata)
           Z == ValidSlots(disk.metadata)
           Z1 == ValidSlots(disk'.metadata)
<1>0. TypeOK /\ mode # "closed" /\ pc = "idle" /\ i \notin V
  BY FreeSlot DEF CountsInv, TypeInv, KindInv, ValidSlots
<1>1. /\ n \in Int /\ stream.header.nb_files \in Int
      /\ V \in SUBSET Slots /\ W \in SUBSET Slots
      /\ Most \in Nat /\ Most' = Most
  BY <1>0, CountTypes, MostSteps
<1>2. /\ header' = Inserted(header) /\ pc' = "insert_header"
      /\ call' = InsertCall(id, img) /\ slot' = i
  BY DEF Commit, Continue
<1>3. header'.nb_files = n + 1
  BY <1>2 DEF Inserted
<1>4. V1 = V \cup {i}
  <2>1. FreshEntry(id, img, offset) \in Entry
    BY <1>0, EntryTypes
  <2>2. /\ metadata'[i].is_valid
        /\ \A j \in Slots : j # i => metadata'[j].is_valid = metadata[j].is_valid
    BY <1>0, <2>1 DEF Commit, FreshEntry, TypeOK, Entry
  <2> QED
    BY <2>2 DEF ValidSlots
<1>5. Pending = {} /\ Pending' = {i}
  BY <1>0, <1>2 DEF Pending, InFlight
<1>6. /\ Tracks(n, V, W, {}, Most)
      /\ Off(stream.header.nb_files, W, Most)
      /\ Off(disk.header.nb_files, Z, Most + 1)
  BY <1>0, <1>5 DEF CountsInv
<1>7. PICK x \in Slots : W \ {x} = Z \ {x}
  BY <1>0 DEF CountsInv
<1>8. Off(disk'.header.nb_files, Z1, Most + 1) /\ W \ {x} = Z1 \ {x}
  <2>1. CASE disk' = disk
    BY <1>6, <1>7, <2>1
  <2>2. CASE disk' = stream
    BY <1>0, <2>2, StreamCounts
  <2> QED
    BY <2>1, <2>2
<1>9. call'.op # "STDOUT" /\ CountersTellTruth'
  BY <1>2, RequestOps DEF CountersTellTruth
<1> HIDE DEF n, V, V1, W, Z, Z1
<1>10. Tracks(n + 1, V1, W, {i}, Most)
  BY <1>0, <1>1, <1>4, <1>6, TracksAdd
<1> QED
  BY <1>0, <1>1, <1>2, <1>3, <1>5, <1>6, <1>8, <1>9, <1>10, OpenCountsInv
  DEF V1, W, Z1

LEMMA InsertCounts ==
    ASSUME CountsInv, TypeInv',
           NEW id \in ImgIds, NEW img \in Images \cup NonImages, Insert(id, img)
    PROVE  CountsInv'
<1>0. TypeOK
  BY DEF CountsInv, TypeInv, KindInv
<1>1. CASE InsertRefused(id, img)
  BY <1>1, RefusedCounts
<1>2. ASSUME NEW i \in Slots, Insertable(i), NEW offset \in DedupOffsets(i, id, img) \cup {NoOffsets},
             metadata' = [metadata EXCEPT ![i] = FreshEntry(id, img, offset)]
      PROVE  /\ ValidSlots(metadata') = ValidSlots(metadata)
             /\ mode # "closed" /\ pc = "idle"
  <2>1. FreshEntry(id, img, offset).is_valid = FALSE
    BY DEF FreshEntry
  <2>2. ~metadata[i].is_valid /\ mode # "closed" /\ pc = "idle"
    BY <1>2, FreeSlot
  <2> QED
    BY <1>0, <1>2, <2>1, <2>2 DEF TypeOK, ValidSlots
<1>3. CASE InsertRejected(id, img)
  <2>1. PICK i \in Slots : /\ Insertable(i)
                           /\ \E offset \in DedupOffsets(i, id, img) \cup {NoOffsets} :
                                metadata' = [metadata EXCEPT ![i] = FreshEntry(id, img, offset)]
    BY <1>3 DEF InsertRejected
  <2>2. /\ ValidSlots(metadata') = ValidSlots(metadata)
        /\ mode # "closed" /\ pc = "idle"
    BY <1>2, <2>1
  <2>3. UNCHANGED <<mode, header, stream, disk, faults, crashes>>
    BY <1>3 DEF InsertRejected
  <2>4. CountersTellTruth' /\ pc' = "return"
    <3>1. \E r : Refuse(InsertCall(id, img), r) /\ r # "ERR_IMGFS_FULL"
      BY <1>3 DEF InsertRejected
    <3> QED
      BY <3>1, CallTypes, RequestOps, OtherAnswer DEF Refuse
  <2> QED
    BY <2>2, <2>3, <2>4, QuietCounts DEF InFlight
<1>4. CASE InsertCopy(id, img)
  <2>1. PICK i \in Slots : \E offset \in DedupOffsets(i, id, img) :
          Insertable(i) /\ Commit(i, id, img, offset)
    BY <1>4 DEF InsertCopy, Acceptable
  <2>2. PICK offset \in DedupOffsets(i, id, img) : Insertable(i) /\ Commit(i, id, img, offset)
    BY <2>1
  <2>3. offset \in [Resolutions -> Nat]
    BY <1>0, <2>2, EntryTypes
  <2>4. UNCHANGED <<mode, stream, disk, faults, crashes>>
    BY <1>4 DEF InsertCopy
  <2> QED
    BY <2>2, <2>3, <2>4, CommitCounts
<1>5. CASE InsertNew(id, img)
  <2>0. PICK i \in Slots : \E offset \in DedupOffsets(i, id, img) :
          /\ Insertable(i)
          /\ \/ /\ Flush
                /\ stream' = AppendBlob(stream, img, "orig")
                /\ Commit(i, id, img, [offset EXCEPT !["orig"] = EndOf(stream)])
             \/ /\ AppendFails
                /\ stream' = disk'
                /\ metadata' = [metadata EXCEPT ![i] = FreshEntry(id, img, offset)]
                /\ Refuse(InsertCall(id, img), "ERR_IO")
                /\ UNCHANGED header
    BY <1>5 DEF InsertNew, Acceptable
  <2>1. PICK offset \in DedupOffsets(i, id, img) :
          /\ Insertable(i)
          /\ \/ /\ Flush
                /\ stream' = AppendBlob(stream, img, "orig")
                /\ Commit(i, id, img, [offset EXCEPT !["orig"] = EndOf(stream)])
             \/ /\ AppendFails
                /\ stream' = disk'
                /\ metadata' = [metadata EXCEPT ![i] = FreshEntry(id, img, offset)]
                /\ Refuse(InsertCall(id, img), "ERR_IO")
                /\ UNCHANGED header
    BY <2>0
  <2>2. UNCHANGED <<mode, crashes>>
    BY <1>5 DEF InsertNew
  <2>3. CASE /\ Flush
             /\ stream' = AppendBlob(stream, img, "orig")
             /\ Commit(i, id, img, [offset EXCEPT !["orig"] = EndOf(stream)])
    <3>1. offset \in [Resolutions -> Nat] /\ EndOf(stream) \in Nat
      BY <1>0, <2>1, EntryTypes, WriteTypes DEF TypeOK
    <3>2. [offset EXCEPT !["orig"] = EndOf(stream)] \in [Resolutions -> Nat]
      BY <3>1
    <3>3. stream'.metadata = stream.metadata /\ stream'.header = stream.header
      BY <1>0, <2>3, WriteKeepsMetadata DEF TypeOK
    <3>4. disk' = stream /\ faults' = faults
      BY <2>3 DEF Flush
    <3> QED
      BY <2>1, <2>2, <2>3, <3>2, <3>3, <3>4, CommitCounts
  <2>4. CASE /\ AppendFails
             /\ stream' = disk'
             /\ metadata' = [metadata EXCEPT ![i] = FreshEntry(id, img, offset)]
             /\ Refuse(InsertCall(id, img), "ERR_IO")
             /\ UNCHANGED header
    <3>1. /\ ValidSlots(metadata') = ValidSlots(metadata)
          /\ mode # "closed" /\ pc = "idle"
      BY <1>2, <2>1, <2>4
    <3>2. CountersTellTruth' /\ pc' = "return"
      BY <2>4, CallTypes, RequestOps, OtherAnswer DEF Refuse
    <3>3. faults' = faults + 1
      BY <2>4 DEF AppendFails, Fault
    <3>4. CASE DropBuffer
      BY <2>2, <2>4, <3>1, <3>2, <3>3, <3>4, LostCounts DEF InFlight
    <3>5. CASE disk' \in {stream, Tear(stream)}
      BY <1>0, <2>2, <2>4, <3>1, <3>2, <3>3, <3>5, AstrayKeeps, QuietCounts
      DEF InFlight, TypeOK
    <3> QED
      BY <2>4, <3>4, <3>5 DEF AppendFails
  <2> QED
    BY <2>1, <2>3, <2>4
<1> QED
  BY <1>1, <1>3, <1>4, <1>5 DEF Insert

\* The header goes first: the file counts one image too many.
LEMMA InsertHeaderCounts ==
    ASSUME CountsInv, TypeInv', InsertHeader
    PROVE  CountsInv'
<1>0. /\ TypeOK /\ mode # "closed" /\ pc = "insert_header" /\ slot \in Slots
      /\ call.op # "STDOUT" /\ call \in Calls
      /\ UNCHANGED <<mode, header, metadata, crashes>>
  BY DEF InsertHeader, CountsInv, TypeInv, KindInv, TypeOK
<1>1. CASE /\ Flush
           /\ stream' = WriteHeader(stream, header)
           /\ Continue(call, slot, "insert_entry")
  <2>1. /\ disk' = stream /\ faults' = faults /\ call' = call /\ slot' = slot
        /\ pc' = "insert_entry"
    BY <1>1 DEF Flush, Continue
  <2>2. stream'.metadata = stream.metadata /\ stream'.header = header
    BY <1>0, <1>1, WriteKeepsMetadata DEF TypeOK
  <2>3. Pending = {slot} /\ Pending' = {slot} /\ Most' = Most
    BY <1>0, <2>1, MostSteps DEF Pending, InFlight
  <2>4. Tracks(header.nb_files, ValidSlots(metadata), ValidSlots(stream.metadata), {slot}, Most)
    BY <1>0, <2>3 DEF CountsInv
  <2>5. Off(disk'.header.nb_files, ValidSlots(disk'.metadata), Most + 1)
    BY <1>0, <2>1, StreamCounts
  <2>6. CountersTellTruth'
    BY <2>1 DEF CountersTellTruth
  <2> QED
    BY <1>0, <2>1, <2>2, <2>3, <2>4, <2>5, <2>6, OpenCountsInv
<1>2. CASE FlushFails /\ stream' = disk' /\ Refuse(call, "ERR_IO")
  <2>1. CountersTellTruth' /\ pc' = "return"
    BY <1>0, <1>2, OtherAnswer DEF Refuse
  <2>2. DropBuffer /\ faults' = faults + 1
    BY <1>2 DEF FlushFails, Fault
  <2> QED
    BY <1>0, <1>2, <2>1, <2>2, LostCounts DEF InFlight
<1> QED
  BY <1>1, <1>2 DEF InsertHeader

\* The entry of the call is written: the file counts as memory does.
LEMMA EntryCounts ==
    ASSUME CountsInv, TypeInv', pc \in {"insert_entry", "delete_entry"}, Flush,
           stream' = WriteEntry(stream, slot, metadata[slot]),
           Refuse(call, "ERR_NONE"), UNCHANGED <<mode, header, metadata, crashes>>
    PROVE  CountsInv'
<1>0. /\ TypeOK /\ mode # "closed" /\ slot \in Slots
      /\ header = stream.header \/ HeaderAstray
      /\ call \in Calls /\ call.op # "STDOUT"
  BY DEF CountsInv, TypeInv, KindInv, TypeOK
<1>1. CountersTellTruth' /\ pc' = "return"
  BY <1>0, OtherAnswer DEF Refuse
<1>2. /\ stream'.header = stream.header
      /\ stream'.metadata = [stream.metadata EXCEPT ![slot] = metadata[slot]]
  BY <1>0, WriteKeepsMetadata DEF TypeOK
<1>3. Pending \subseteq {slot} /\ disk' = stream /\ faults' = faults /\ ~InFlight'
  BY <1>1 DEF Pending, Flush, InFlight
<1> QED
  BY <1>0, <1>1, <1>2, <1>3, WrittenCounts

\* When that write is not reached decr_header() takes the count back, in memory
\* and in the file; the entry stays valid in memory.
LEMMA InsertEntryCounts ==
    ASSUME CountsInv, TypeInv', InsertEntry
    PROVE  CountsInv'
<1> DEFINE n == header.nb_files
           V == ValidSlots(metadata)
           W == ValidSlots(stream.metadata)
<1>0. /\ TypeOK /\ mode # "closed" /\ pc = "insert_entry" /\ slot \in Slots
      /\ call.op # "STDOUT" /\ call \in Calls
      /\ stream.metadata = disk.metadata /\ Slots # {}
      /\ UNCHANGED <<mode, metadata, crashes>>
  BY DEF InsertEntry, CountsInv, TypeInv, KindInv, TypeOK
<1>1. CASE /\ Flush
           /\ stream' = WriteEntry(stream, slot, metadata[slot])
           /\ Refuse(call, "ERR_NONE")
           /\ UNCHANGED header
  BY <1>0, <1>1, EntryCounts
<1>2. CASE /\ FlushFails
           /\ header' = Decremented(header)
           /\ stream' = WriteHeader(disk', header')
           /\ Refuse(call, "ERR_IO")
  <2>1. CountersTellTruth' /\ pc' = "return"
    BY <1>0, <1>2, OtherAnswer DEF Refuse
  <2>2. /\ disk'.metadata = stream.metadata /\ disk'.header = disk.header
        /\ faults' = faults + 1
    BY <1>0, <1>2, DropKeeps DEF FlushFails, Fault
  <2>3. stream'.metadata = stream.metadata /\ stream'.header = header'
    <3>1. disk' \in File
      BY DEF TypeInv, KindInv, TypeOK
    <3> QED
      BY <1>2, <2>2, <3>1, WriteKeepsMetadata
  <2>4. header'.nb_files = n - 1
    BY <1>2 DEF Decremented
  <2>5. /\ n \in Int /\ disk.header.nb_files \in Int
        /\ V \in SUBSET Slots /\ W \in SUBSET Slots
        /\ Most \in Nat /\ Most' = Most + 2
    BY <1>0, <2>2, CountTypes, MostSteps
  <2>6. Pending = {slot} /\ Pending' = {}
    BY <1>0, <2>1 DEF Pending, InFlight
  <2>7. Tracks(n, V, W, {slot}, Most) /\ Off(disk.header.nb_files, W, Most + 1)
    BY <1>0, <2>6 DEF CountsInv
  <2> HIDE DEF n, V, W
  <2>8. Tracks(n - 1, V, W, {}, Most')
    BY <1>0, <2>5, <2>7, TracksBack
  <2>9. Off(n - 1, W, Most')
    BY <2>5, <2>8, TracksTables
  <2>10. Off(disk.header.nb_files, W, Most' + 1)
    <3>1. Most + 1 \in Nat /\ Most' + 1 \in Nat /\ Most + 1 <= Most' + 1
      BY <2>5
    <3> QED
      BY <2>5, <2>7, <3>1, OffMore
  <2> QED
    BY <1>0, <2>1, <2>2, <2>3, <2>4, <2>6, <2>8, <2>9, <2>10, OpenCountsInv DEF V, W
<1> QED
  BY <1>1, <1>2 DEF InsertEntry

LEMMA DeleteEntryCounts ==
    ASSUME CountsInv, TypeInv', DeleteEntry
    PROVE  CountsInv'
<1>1. CASE Flush /\ stream' = WriteEntry(stream, slot, metadata[slot])
  BY <1>1, EntryCounts DEF DeleteEntry
<1>2. CASE FlushFails /\ stream' = Misplace(disk')
  <2>1. /\ mode # "closed" /\ call \in Calls /\ call.op # "STDOUT"
        /\ UNCHANGED <<mode, header, metadata, crashes>>
    BY DEF DeleteEntry, CountsInv, TypeInv, KindInv, TypeOK
  <2>2. CountersTellTruth' /\ pc' = "return"
    BY <2>1, OtherAnswer DEF DeleteEntry, Refuse
  <2>3. DropBuffer /\ faults' = faults + 1
    BY <1>2 DEF FlushFails, Fault
  <2>4. stream'.header = disk'.header /\ stream'.metadata = disk'.metadata
    BY <1>2, AstrayKeeps DEF TypeInv, KindInv, TypeOK
  <2> QED
    BY <2>1, <2>2, <2>3, <2>4, LostCounts DEF InFlight
<1> QED
  BY <1>1, <1>2 DEF DeleteEntry

\* The header goes first: the file counts one image too few.  When it goes to
\* the wrong place the file keeps its count, and lost an entry before that.
LEMMA DeleteCounts ==
    ASSUME CountsInv, TypeInv', NEW id \in ImgIds, Delete(id)
    PROVE  CountsInv'
<1>0. TypeOK /\ mode # "closed" /\ pc = "idle" /\ ~InFlight
  BY DEF Delete, DeleteRefused, DeleteHeader, Idle, InFlight, CountsInv, TypeInv, KindInv
<1>1. CASE DeleteRefused(id)
  <2>1. \E r : Refuse(DeleteCall(id), r) /\ r # "ERR_IMGFS_FULL"
    BY <1>1 DEF DeleteRefused
  <2>2. CountersTellTruth' /\ pc' = "return"
    BY <2>1, CallTypes, RequestOps, OtherAnswer DEF Refuse
  <2>3. UNCHANGED <<mode, header, metadata, stream, disk, faults, crashes>>
    BY <1>1 DEF DeleteRefused
  <2> QED
    BY <1>0, <2>2, <2>3, QuietCounts DEF InFlight
<1>2. CASE DeleteHeader(id)
  <2> DEFINE n == header.nb_files
             V == ValidSlots(metadata)
             V1 == ValidSlots(metadata')
             W == ValidSlots(stream.metadata)
             Z == ValidSlots(disk.metadata)
  <2>1. PICK i \in Slots :
          /\ metadata[i].is_valid
          /\ metadata' = [metadata EXCEPT ![i].is_valid = FALSE]
          /\ pc' = "delete_entry" /\ call' = DeleteCall(id) /\ slot' = i
    BY <1>2 DEF DeleteHeader, FirstOf, Named, Continue
  <2>2. header' = Deleted(header) /\ UNCHANGED <<mode, crashes>>
    BY <1>2 DEF DeleteHeader
  <2>4. header'.nb_files = n - 1
    BY <2>2 DEF Deleted
  <2>5. /\ n \in Int /\ V \in SUBSET Slots /\ W \in SUBSET Slots
        /\ V1 \in SUBSET Slots /\ Z \in SUBSET Slots /\ Most \in Nat
    BY <1>0, CountTypes
  <2>6. i \in V /\ V1 = V \ {i}
    BY <1>0, <2>1 DEF ValidSlots, TypeOK, Entry
  <2>7. Pending = {} /\ Pending' = {i}
    BY <1>0, <2>1 DEF Pending, InFlight
  <2>8. Tracks(n, V, W, {}, Most)
    BY <1>0, <2>7 DEF CountsInv
  <2>9. PICK x \in Slots : W \ {x} = Z \ {x}
    BY <1>0 DEF CountsInv
  <2>10. call'.op # "STDOUT" /\ CountersTellTruth'
    BY <2>1, RequestOps DEF CountersTellTruth
  <2> HIDE DEF n, V, V1, W, Z
  <2>11. Tracks(n - 1, V1, W, {i}, Most)
    BY <2>5, <2>6, <2>8, TracksRemove
  <2>12. CASE Flush /\ stream' = WriteHeader(stream, header')
    <3>1. disk' = stream /\ Most' = Most
      BY <1>0, <2>2, <2>12, MostSteps DEF Flush
    <3>2. stream'.metadata = stream.metadata /\ stream'.header = header'
      BY <1>0, <2>12, WriteKeepsMetadata DEF TypeOK
    <3>3. Off(disk'.header.nb_files, ValidSlots(disk'.metadata), Most + 1)
      BY <1>0, <3>1, StreamCounts
    <3> QED
      BY <1>0, <2>1, <2>2, <2>4, <2>5, <2>7, <2>10, <2>11, <3>1, <3>2, <3>3, OpenCountsInv
      DEF V1, W
  <2>13. CASE FlushFails /\ stream' = Misplace(disk')
    <3>1. DropBuffer /\ Most' = Most + 2
      BY <1>0, <2>2, <2>13, MostSteps DEF FlushFails, Fault
    <3>2. /\ stream'.header = disk'.header /\ stream'.metadata = disk'.metadata
          /\ disk'.header.nb_files \in Int
      BY <2>13, AstrayKeeps DEF TypeInv, KindInv, TypeOK, File, Header
    <3>3. disk'.metadata = disk.metadata
      BY <1>0, <3>1, DropKeeps
    <3>4. Off(disk'.header.nb_files, Z, Most + 1)
      BY <1>0, <3>1, <3>3, DropCounts DEF Z
    <3>5. /\ Most + 1 \in Nat /\ Most' \in Nat /\ Most' + 1 \in Nat /\ Most' > 0
          /\ Most + 1 <= Most' /\ Most + 1 <= Most' + 1 /\ Most' - 1 = Most + 1
      BY <2>5, <3>1
    <3>6. Tracks(n - 1, V1, Z, {i}, Most')
      <4>1. n - 1 \in Int /\ {i} \in SUBSET Slots
        BY <2>5
      <4>2. Tracks(n - 1, V1, Z, {i}, Most + 1)
        BY <2>5, <2>9, <2>11, <4>1, TracksForget
      <4> QED
        BY <2>5, <3>5, <4>1, <4>2, TracksMore
    <3>7. Off(disk'.header.nb_files, Z, Most' + 1)
      BY <2>5, <3>2, <3>4, <3>5, OffMore
    <3>8. ValidSlots(stream'.metadata) = Z /\ ValidSlots(disk'.metadata) = Z
      BY <3>2, <3>3 DEF Z
    <3>9. HeaderAstray'
      <4>1. Off(stream'.header.nb_files, ValidSlots(stream'.metadata), Most' - 1)
        BY <3>2, <3>4, <3>5, <3>8
      <4> QED
        BY <2>1, <3>5, <4>1 DEF HeaderAstray, Off, ValidSlots
    <3> QED
      BY <1>0, <2>1, <2>2, <2>4, <2>7, <2>10, <3>2, <3>6, <3>7, <3>8, <3>9, OpenCountsInv
      DEF V1
  <2> QED
    BY <1>2, <2>12, <2>13 DEF DeleteHeader
<1> QED
  BY <1>1, <1>2 DEF Delete

LEMMA FetchCounts ==
    ASSUME CountsInv, TypeInv', NEW c \in Calls, c.op # "STDOUT",
           NEW offset, Fetch(c, offset), mode # "closed", ~InFlight,
           UNCHANGED <<mode, header, metadata, crashes>>
    PROVE  CountsInv'
<1>0. CountersTellTruth' /\ pc' = "return"
  <2>1. \E r, data, ids : Answer(c, r, data, ids) /\ r # "ERR_IMGFS_FULL"
    BY DEF Fetch, Refuse
  <2> QED
    BY <2>1, OtherAnswer
<1>1. CASE Flush /\ UNCHANGED stream
  BY <1>0, <1>1, QuietCounts DEF InFlight, Flush
<1>2. CASE FlushFails /\ stream' = disk'
  <2>1. DropBuffer /\ faults' = faults + 1
    BY <1>2 DEF FlushFails, Fault
  <2> QED
    BY <1>0, <1>2, <2>1, LostCounts DEF InFlight
<1> QED
  BY <1>1, <1>2 DEF Fetch

LEMMA ReadCounts ==
    ASSUME CountsInv, TypeInv',
           NEW id \in ImgIds, NEW res \in Resolutions, Read(id, res)
    PROVE  CountsInv'
<1>0. TypeOK /\ mode # "closed" /\ pc = "idle" /\ ~InFlight
  BY DEF Read, ReadRefused, ReadStored, ReadResize, Idle, InFlight, CountsInv, TypeInv, KindInv
<1>1. CASE ReadRefused(id, res)
  <2>1. \E r : Refuse(ReadCall(id, res), r) /\ r # "ERR_IMGFS_FULL"
    BY <1>1 DEF ReadRefused
  <2>2. CountersTellTruth' /\ pc' = "return"
    BY <2>1, CallTypes, RequestOps, OtherAnswer DEF Refuse
  <2>3. UNCHANGED <<mode, header, metadata, stream, disk, faults, crashes>>
    BY <1>1 DEF ReadRefused
  <2> QED
    BY <1>0, <2>2, <2>3, QuietCounts DEF InFlight
<1>2. CASE ReadStored(id, res)
  <2>1. \E offset : Fetch(ReadCall(id, res), offset)
    BY <1>2 DEF ReadStored
  <2>2. UNCHANGED <<mode, header, metadata, crashes>>
    BY <1>2 DEF ReadStored
  <2> QED
    BY <1>0, <2>1, <2>2, CallTypes, RequestOps, FetchCounts
<1>3. CASE ReadResize(id, res)
  <2>1. PICK i \in Slots :
          /\ call' = ReadCall(id, res) /\ pc' \in {"resize_header", "read_fetch"}
          /\ \/ /\ Flush
                /\ \E img : stream' = AppendBlob(stream, img, res)
                /\ metadata' = [metadata EXCEPT ![i].offset[res] = EndOf(stream)]
             \/ /\ Flush \/ AppendFails
                /\ stream' = disk' /\ metadata' = metadata
    BY <1>3 DEF ReadResize, Continue, FirstOf, Named
  <2>2. UNCHANGED <<mode, header, crashes>>
    BY <1>3 DEF ReadResize
  <2>3. call'.op # "STDOUT" /\ CountersTellTruth' /\ ~InFlight'
    BY <2>1, RequestOps DEF CountersTellTruth, InFlight
  <2>4. CASE /\ Flush
             /\ \E img : stream' = AppendBlob(stream, img, res)
             /\ metadata' = [metadata EXCEPT ![i].offset[res] = EndOf(stream)]
    <3>1. stream'.metadata = stream.metadata /\ stream'.header = stream.header
      BY <1>0, <2>4, WriteKeepsMetadata DEF TypeOK
    <3>2. ValidSlots(metadata') = ValidSlots(metadata)
      BY <1>0, <2>4 DEF TypeOK, Entry, ValidSlots
    <3> QED
      BY <1>0, <2>2, <2>3, <2>4, <3>1, <3>2, QuietCounts DEF Flush
  <2>5. CASE /\ stream' = disk' /\ metadata' = metadata
             /\ Flush \/ (Fault /\ disk' \in {stream, Tear(stream)})
    BY <1>0, <2>2, <2>3, <2>5, AstrayKeeps, QuietCounts DEF Flush, Fault, TypeOK
  <2>6. CASE stream' = disk' /\ metadata' = metadata /\ Fault /\ DropBuffer
    BY <1>0, <2>2, <2>3, <2>6, LostCounts DEF Fault
  <2> QED
    BY <2>1, <2>4, <2>5, <2>6 DEF AppendFails
<1> QED
  BY <1>1, <1>2, <1>3 DEF Read

LEMMA ResizeHeaderCounts ==
    ASSUME CountsInv, TypeInv', ResizeHeader
    PROVE  CountsInv'
<1>0. TypeOK /\ mode # "closed" /\ pc = "resize_header" /\ ~InFlight /\ call.op # "STDOUT"
  BY DEF ResizeHeader, CountsInv, TypeInv, KindInv, InFlight
<1>1. /\ pc' = "read_fetch" /\ ~InFlight' /\ CountersTellTruth'
      /\ UNCHANGED <<mode, header, metadata, call, crashes>>
  BY DEF ResizeHeader, Continue, InFlight, CountersTellTruth
<1>2. CASE Flush /\ stream' = WriteFirstEntry(WriteHeader(stream, header))
  <2>1. 0 \in Slots /\ WriteHeader(stream, header) \in File
    <3>1. 0 \in Slots
      BY SizesAssumption DEF Slots
    <3>2. stream \in File /\ header \in Header
      BY <1>0 DEF TypeOK
    <3> QED
      BY <3>1, <3>2, WriteTypes
  <2>2. /\ WriteHeader(stream, header).metadata = stream.metadata
        /\ WriteHeader(stream, header).header = header
    BY <1>0, WriteKeepsMetadata DEF TypeOK
  <2>3. /\ stream'.header = header
        /\ stream'.metadata = [stream.metadata EXCEPT ![0] = metadata[0]]
    BY <1>2, <2>1, <2>2, WriteKeepsMetadata DEF WriteFirstEntry
  <2>4. Pending \subseteq {0}
    BY <1>0 DEF Pending
  <2> QED
    BY <1>0, <1>1, <1>2, <2>1, <2>3, <2>4, WrittenCounts DEF Flush
<1>3. CASE FlushFails /\ stream' = disk'
  <2>1. DropBuffer /\ faults' = faults + 1
    BY <1>3 DEF FlushFails, Fault
  <2> QED
    BY <1>0, <1>1, <1>3, <2>1, LostCounts
<1> QED
  BY <1>2, <1>3 DEF ResizeHeader

\* The list on stdout is empty when the header counts no image.
LEMMA ListCounts ==
    ASSUME CountsInv, TypeInv', NEW output \in {"STDOUT", "JSON"}, List(output)
    PROVE  CountsInv'
<1>0. TypeOK /\ mode # "closed" /\ ~InFlight /\ pc = "idle"
  BY DEF List, Idle, InFlight, CountsInv, TypeInv, KindInv
<1>1. /\ UNCHANGED <<mode, header, metadata, stream, disk, faults, crashes>>
      /\ Answer(Call(output), "ERR_NONE", NoImage,
                IF output = "STDOUT" /\ header.nb_files = 0 THEN {} ELSE ListedIds)
  BY DEF List
<1>2. /\ call'.ret = "ERR_NONE" /\ pc' = "return"
      /\ call'.ids = IF output = "STDOUT" /\ header.nb_files = 0 THEN {} ELSE ListedIds
  <2>1. Call(output) \in Calls
    BY CallTypes
  <2> QED
    BY <1>1, <2>1 DEF Answer, Calls
<1>3. ASSUME crashes + faults = 0, header.nb_files = 0 PROVE ListedIds = {}
  <2>1. Off(header.nb_files, ValidSlots(metadata), 0)
    BY <1>0, <1>3, MemoryCounts, CountTypes
  <2>2. Cardinality(ValidSlots(metadata)) = 0
    BY <1>3, <2>1, ValidFinite, SizesAssumption DEF Off
  <2>3. ValidSlots(metadata) = {}
    BY <2>2, ValidFinite
  <2> QED
    BY <2>3 DEF ListedIds
<1>4. ListedIds' = ListedIds
  BY <1>1 DEF ListedIds, ValidSlots
<1>5. CountersTellTruth'
  BY <1>1, <1>2, <1>3, <1>4 DEF CountersTellTruth
<1> QED
  BY <1>0, <1>1, <1>2, <1>5, QuietCounts DEF InFlight

LEMMA ReturnCounts ==
    ASSUME CountsInv, TypeInv', Return
    PROVE  CountsInv'
<1>1. /\ UNCHANGED <<mode, header, metadata, stream, disk, faults, crashes>>
      /\ mode # "closed" /\ pc = "return" /\ pc' = "idle"
  BY DEF Return, CountsInv, TypeInv, KindInv
<1> QED
  BY <1>1, QuietCounts DEF InFlight, CountersTellTruth

LEMMA NextCounts == CountsInv /\ [Next]_vars => CountsInv'
<1> SUFFICES ASSUME CountsInv, [Next]_vars PROVE CountsInv'
  OBVIOUS
<1>0. TypeInv' /\ TypeOK
  BY NextTypes DEF CountsInv, TypeInv, KindInv
<1>1. CASE \E m \in {"rb", "rb+"} : Open(m)
  BY <1>0, <1>1, OpenCounts
<1>2. CASE Close \/ Crash
  BY <1>0, <1>2, CloseCounts, CrashCounts
<1>10. CASE Create
  BY <1>0, <1>10, CreateCounts
<1>3. CASE \E id \in ImgIds, img \in Images \cup NonImages : Insert(id, img)
  BY <1>0, <1>3, InsertCounts
<1>4. CASE \E id \in ImgIds : Delete(id)
  BY <1>0, <1>4, DeleteCounts
<1>5. CASE \E id \in ImgIds, res \in Resolutions : Read(id, res)
  BY <1>0, <1>5, ReadCounts
<1>6. CASE \E output \in {"STDOUT", "JSON"} : List(output)
  BY <1>0, <1>6, ListCounts
<1>7. CASE ReadFetch
  <2>1. pc = "read_fetch" /\ mode # "closed" /\ call \in Calls /\ ~InFlight
    BY <1>0, <1>7 DEF ReadFetch, CountsInv, TypeInv, KindInv, TypeOK, InFlight
  <2>2. call.op # "STDOUT"
    BY <2>1 DEF CountsInv
  <2> QED
    BY <1>0, <1>7, <2>1, <2>2, FetchCounts DEF ReadFetch
<1>8. CASE Step
  BY <1>0, <1>7, <1>8, InsertHeaderCounts, InsertEntryCounts, DeleteEntryCounts,
     ResizeHeaderCounts, ReturnCounts DEF Step
<1>9. CASE UNCHANGED vars
  BY <1>0, <1>9 DEF vars, CountsInv, Tracks, Off, Mix, Most, Pending, InFlight,
     ValidSlots, CountersTellTruth, ListedIds, FreeSlots, HeaderAstray
<1> QED
  BY <1>1, <1>2, <1>3, <1>4, <1>5, <1>6, <1>8, <1>9, <1>10 DEF Next

LEMMA CountsInvariant == Spec => []CountsInv
  BY InitCounts, NextCounts, PTL DEF Spec

\* header.nb_files is never further from the number of valid entries than one
\* for each crash and two for each write that failed, in the memory of the
\* process that has the store open, also after a do_delete that wrote at the
\* wrong place, and in the file the last one left, if that file is intact.
THEOREM CountDriftCorrect == Spec => []CountDrift
<1>1. CountsInv => CountDrift
  <2> SUFFICES ASSUME CountsInv PROVE CountDrift
    OBVIOUS
  <2>1. CASE mode = "closed"
    BY <2>1 DEF CountsInv, CountDrift, Off, Drift, Most
  <2>2. CASE mode # "closed"
    BY <2>2, MemoryCounts DEF CountDrift, Off, Drift, Most
  <2> QED
    BY <2>1, <2>2
<1> QED
  BY <1>1, CountsInvariant, PTL

\* As long as the process never died and no flush failed, the answers that
\* follow header.nb_files are those the entries would give.
THEOREM CountersTellTruthCorrect == Spec => []CountersTellTruth
<1>1. CountsInv => CountersTellTruth
  BY DEF CountsInv
<1> QED
  BY <1>1, CountsInvariant, PTL
=============================================================================
