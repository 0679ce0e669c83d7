--------------------------- MODULE ImgfsProofs ----------------------------
(***************************************************************************)
(* Theorems of Imgfs, for every value of its constants: types, whatever    *)
(* fails; and, while no write fails, the names in every copy of the store. *)
(***************************************************************************)
EXTENDS Imgfs, TLAPS
-----------------------------------------------------------------------------
(***************************************************************************)
(* Lemmas on the operators.                                                *)
(***************************************************************************)
\* do_create() leaves a well-formed file, and the reset of a closed store is
\* well formed.
LEMMA EmptyTypes ==
    /\ EmptyHeader \in Header
    /\ EmptyEntry \in Entry
    /\ EmptyMetadata \in [Slots -> Entry]
    /\ EmptyFile \in File
    /\ NoCall \in Calls
<1>1. EmptyHeader \in Header
  BY SizesAssumption DEF EmptyHeader, Header
<1>2. NoOffsets \in [Resolutions -> Nat]
  BY DEF NoOffsets
<1>3. EmptyEntry \in Entry
  BY <1>2 DEF EmptyEntry, Entry
<1>4. EmptyMetadata \in [Slots -> Entry]
  BY <1>3 DEF EmptyMetadata
<1>5. <<>> \in Seq(Content \cup {Torn})
  OBVIOUS
<1>6. EmptyFile \in File
  BY <1>1, <1>4, <1>5 DEF EmptyFile, File
<1>7. NoCall \in Calls
  BY DEF NoCall, Calls, Resolutions
<1> QED
  BY <1>1, <1>3, <1>4, <1>6, <1>7

\* The counters stay in range under the guards of the callers: do_insert
\* checks that there is room, do_delete that something is counted.
LEMMA CounterTypes ==
    ASSUME NEW h \in Header
    PROVE  /\ h.nb_files < MaxFiles => Inserted(h) \in Header
           /\ h.nb_files # 0 => Deleted(h) \in Header
           /\ h.nb_files # 0 => Decremented(h) \in Header
  BY SizesAssumption
  DEF Header, Inserted, Deleted, Decremented, NextVersion, PrevVersion

\* What the fwrite() calls leave is a well-formed file.
LEMMA WriteTypes ==
    ASSUME NEW f \in File
    PROVE  /\ \A h \in Header : WriteHeader(f, h) \in File
           /\ \A i \in Slots, e \in Entry : WriteEntry(f, i, e) \in File
           /\ \A img \in Images, res \in Resolutions : AppendBlob(f, img, res) \in File
           /\ Tear(f) \in File
           /\ Misplace(f) \in File
           /\ EndOf(f) \in Nat
<1>1. ASSUME NEW h \in Header PROVE WriteHeader(f, h) \in File
  BY <1>1 DEF WriteHeader, File
<1>2. ASSUME NEW i \in Slots, NEW e \in Entry PROVE WriteEntry(f, i, e) \in File
  BY <1>2 DEF WriteEntry, File
<1>3. ASSUME NEW x \in Content \cup {Torn}
      PROVE  [f EXCEPT !.contents = Append(@, x)] \in File
  <2>1. Append(f.contents, x) \in Seq(Content \cup {Torn})
    BY <1>3 DEF File
  <2> QED
    BY <2>1 DEF File
<1>4. ASSUME NEW img \in Images, NEW res \in Resolutions
      PROVE  AppendBlob(f, img, res) \in File
  <2>1. [img |-> img, res |-> res] \in Content \cup {Torn}
    BY DEF Content
  <2> QED
    BY <2>1, <1>3 DEF AppendBlob
<1>5. EndOf(f) \in Nat
  BY DEF EndOf, File
<1>6. Tear(f) \in File
  BY <1>3 DEF Tear
<1>7. Misplace(f) \in File
  BY DEF Misplace, File
<1> QED
  BY <1>1, <1>2, <1>4, <1>5, <1>6, <1>7

\* A flush, whether it works or not, leaves a well-formed file.
LEMMA FlushTypes ==
    ASSUME TypeOK
    PROVE  /\ DropBuffer => disk' \in File
           /\ Flush => disk' \in File /\ faults' = faults
           /\ Fault => faults' \in 0 .. MaxFaults
           /\ FlushFails => disk' \in File /\ faults' \in 0 .. MaxFaults
           /\ AppendFails => disk' \in File /\ faults' \in 0 .. MaxFaults
<1>1. disk \in File /\ stream \in File /\ faults \in 0 .. MaxFaults
  BY DEF TypeOK
<1>2. ASSUME DropBuffer PROVE disk' \in File
  <2>1. stream.header \in Header
    BY <1>1 DEF File
  <2>2. [disk EXCEPT !.header = stream.header] \in File
    BY <1>1, <2>1, WriteTypes DEF WriteHeader
  <2>3. Tear(disk) \in File /\ Misplace(disk) \in File
    BY <1>1, WriteTypes
  <2> QED
    BY <1>1, <1>2, <2>2, <2>3 DEF DropBuffer
<1>3. Flush => disk' \in File /\ faults' = faults
  BY <1>1 DEF Flush
<1>4. Fault => faults' \in 0 .. MaxFaults
  BY <1>1, SizesAssumption DEF Fault
<1>5. AppendFails => disk' \in File
  BY <1>1, <1>2, WriteTypes DEF AppendFails
<1> QED
  BY <1>2, <1>3, <1>4, <1>5 DEF FlushFails, AppendFails

\* The requests are calls.
LEMMA CallTypes ==
    /\ \A id \in ImgIds, img \in Images \cup NonImages : InsertCall(id, img) \in Calls
    /\ \A id \in ImgIds : DeleteCall(id) \in Calls
    /\ \A id \in ImgIds, res \in Resolutions : ReadCall(id, res) \in Calls
    /\ \A output \in {"STDOUT", "JSON"} : Call(output) \in Calls
<1> USE EmptyTypes DEF NoCall, Call, Calls
<1>1. ASSUME NEW id \in ImgIds, NEW img \in Images \cup NonImages
      PROVE  InsertCall(id, img) \in Calls
  BY <1>1 DEF InsertCall
<1>2. ASSUME NEW id \in ImgIds PROVE DeleteCall(id) \in Calls
  BY <1>2 DEF DeleteCall
<1>3. ASSUME NEW id \in ImgIds, NEW res \in Resolutions
      PROVE  ReadCall(id, res) \in Calls
  BY <1>3 DEF ReadCall
<1>4. ASSUME NEW output \in {"STDOUT", "JSON"} PROVE Call(output) \in Calls
  BY <1>4
<1> QED
  BY <1>1, <1>2, <1>3, <1>4

\* An answer leaves a well-formed call.
LEMMA AnswerTypes ==
    ASSUME NEW c \in Calls, NEW r \in Results,
           NEW data \in Content \cup {Torn, NoImage},
           NEW ids \in SUBSET (ImgIds \cup {EmptyId}),
           Answer(c, r, data, ids)
    PROVE  call' \in Calls /\ slot' = NoSlot /\ pc' = "return"
  BY DEF Answer, Calls

LEMMA RefuseTypes ==
    ASSUME NEW c \in Calls, NEW r \in Results, Refuse(c, r)
    PROVE  call' \in Calls /\ slot' = NoSlot /\ pc' = "return"
  BY AnswerTypes DEF Refuse
-----------------------------------------------------------------------------
(***************************************************************************)
(* Type correctness.  decr_header() subtracts one from header.nb_files     *)
(* without a check: it needs that the insertion it undoes is counted.      *)
(***************************************************************************)
KindInv ==
    /\ TypeOK
    /\ mode = "closed" => pc = "idle"
    /\ pc \in {"insert_header", "insert_entry"} => header.nb_files # 0

LEMMA InitKinds == Init => KindInv
  BY EmptyTypes, SizesAssumption DEF Init, KindInv, TypeOK, NoSlot

LEMMA OpenTypes ==
    ASSUME KindInv, NEW m \in {"rb", "rb+"}, Open(m)
    PROVE  KindInv'
  BY DEF KindInv, TypeOK, Open, File

\* Closing the store, or dying with it open.
LEMMA ForgetTypes ==
    ASSUME KindInv, Forget, disk' \in File,
           faults' \in 0 .. MaxFaults, crashes' \in 0 .. MaxCrashes
    PROVE  KindInv'
  BY EmptyTypes DEF KindInv, TypeOK, Forget

LEMMA CreateTypes == KindInv /\ Create => KindInv'
  BY EmptyTypes DEF KindInv, TypeOK, Create

LEMMA CloseTypes == KindInv /\ Close => KindInv'
<1> SUFFICES ASSUME KindInv, Close PROVE KindInv'
  OBVIOUS
<1>1. disk' \in File /\ faults' \in 0 .. MaxFaults /\ crashes' \in 0 .. MaxCrashes
  BY FlushTypes DEF Close, KindInv, TypeOK
<1> QED
  BY <1>1, ForgetTypes DEF Close

LEMMA CrashTypes == KindInv /\ Crash => KindInv'
<1> SUFFICES ASSUME KindInv, Crash PROVE KindInv'
  OBVIOUS
<1>1. disk' \in File
  BY FlushTypes DEF Crash, KindInv, TypeOK
<1>2. faults' \in 0 .. MaxFaults /\ crashes' \in 0 .. MaxCrashes
  BY SizesAssumption DEF Crash, KindInv, TypeOK
<1> QED
  BY <1>1, <1>2, ForgetTypes DEF Crash

\* The entry do_insert fills.
LEMMA EntryTypes ==
    ASSUME TypeOK,
           NEW i \in Slots, NEW id \in ImgIds, NEW img \in Images \cup NonImages
    PROVE  /\ \A offset \in [Resolutions -> Nat] : FreshEntry(id, img, offset) \in Entry
           /\ \A offset \in DedupOffsets(i, id, img) : offset \in [Resolutions -> Nat]
<1>1. ASSUME NEW offset \in [Resolutions -> Nat]
      PROVE  FreshEntry(id, img, offset) \in Entry
  BY <1>1 DEF FreshEntry, Entry
<1>2. ASSUME NEW offset \in DedupOffsets(i, id, img)
      PROVE  offset \in [Resolutions -> Nat]
  <2>1. CASE Copies(i, id, img) = {}
    BY <1>2, <2>1 DEF DedupOffsets, NoOffsets
  <2>2. CASE Copies(i, id, img) # {}
    <3>1. PICK j \in LastOf(Copies(i, id, img)) : offset = metadata[j].offset
      BY <1>2, <2>2 DEF DedupOffsets
    <3>2. j \in Slots
      BY <3>1 DEF LastOf, Copies, ValidSlots
    <3> QED
      BY <3>1, <3>2 DEF TypeOK, Entry
  <2> QED
    BY <2>1, <2>2
<1> QED
  BY <1>1, <1>2

LEMMA InsertTypes ==
    ASSUME KindInv, NEW id \in ImgIds, NEW img \in Images \cup NonImages,
           Insert(id, img)
    PROVE  KindInv'
<1> DEFINE c == InsertCall(id, img)
<1>0. c \in Calls /\ TypeOK
  BY CallTypes DEF KindInv
<1> HIDE DEF c
<1>1. CASE InsertRefused(id, img)
  <2>1. call' \in Calls /\ slot' = NoSlot /\ pc' = "return"
    BY <1>0, <1>1, RefuseTypes DEF InsertRefused, Results, c
  <2> QED
    BY <1>0, <1>1, <2>1 DEF InsertRefused, Idle, KindInv, TypeOK
<1>2. CASE InsertRejected(id, img)
  <2>1. PICK i \in Slots :
          /\ Insertable(i)
          /\ \E offset \in DedupOffsets(i, id, img) \cup {NoOffsets} :
                metadata' = [metadata EXCEPT ![i] = FreshEntry(id, img, offset)]
          /\ Refuse(c, "ERR_IMGLIB") \/ Refuse(c, "ERR_DUPLICATE_ID")
    BY <1>2 DEF InsertRejected, c
  <2>2. PICK offset \in DedupOffsets(i, id, img) \cup {NoOffsets} :
          metadata' = [metadata EXCEPT ![i] = FreshEntry(id, img, offset)]
    BY <2>1
  <2>3. offset \in [Resolutions -> Nat]
    BY <1>0, <2>2, EntryTypes DEF NoOffsets
  <2>4. metadata' \in [Slots -> Entry]
    BY <1>0, <2>2, <2>3, EntryTypes DEF TypeOK
  <2>5. call' \in Calls /\ slot' = NoSlot /\ pc' = "return"
    BY <1>0, <2>1, RefuseTypes DEF Results
  <2> QED
    BY <1>0, <1>2, <2>1, <2>4, <2>5 DEF InsertRejected, Insertable, Idle, KindInv, TypeOK
<1>3. ASSUME NEW i \in Slots, NEW offset \in [Resolutions -> Nat],
             Insertable(i), Commit(i, id, img, offset)
      PROVE  /\ metadata' \in [Slots -> Entry]
             /\ header' \in Header /\ header'.nb_files # 0
             /\ call' \in Calls /\ slot' \in Slots /\ slot' # NoSlot
             /\ pc' = "insert_header"
  <2>1. FreshEntry(id, img, offset) \in Entry
    BY <1>0, <1>3, EntryTypes
  <2>2. [FreshEntry(id, img, offset) EXCEPT !.is_valid = TRUE] \in Entry
    BY <2>1 DEF Entry
  <2>3. metadata' \in [Slots -> Entry]
    BY <1>0, <1>3, <2>2 DEF Commit, TypeOK
  <2>4. header' \in Header /\ header'.nb_files # 0
    <3>1. header \in Header /\ header.nb_files < MaxFiles /\ header' = Inserted(header)
      BY <1>0, <1>3 DEF Commit, Insertable, HasRoom, TypeOK
    <3>2. header'.nb_files = header.nb_files + 1
      BY <3>1 DEF Inserted
    <3> QED
      BY <3>1, <3>2, CounterTypes, SizesAssumption DEF Header
  <2>5. call' = c /\ slot' = i /\ pc' = "insert_header"
    BY <1>3 DEF Commit, Continue, c
  <2>6. i # NoSlot
    BY SizesAssumption DEF Slots, NoSlot
  <2> QED
    BY <1>0, <2>3, <2>4, <2>5, <2>6
<1>4. CASE InsertCopy(id, img)
  <2>1. PICK i \in Slots : \E offset \in DedupOffsets(i, id, img) :
          Insertable(i) /\ Commit(i, id, img, offset)
    BY <1>4 DEF InsertCopy, Acceptable
  <2>2. PICK offset \in DedupOffsets(i, id, img) :
          Insertable(i) /\ Commit(i, id, img, offset)
    BY <2>1
  <2>3. offset \in [Resolutions -> Nat]
    BY <1>0, <2>2, EntryTypes
  <2> HIDE DEF Calls
  <2>4. /\ metadata' \in [Slots -> Entry]
        /\ header' \in Header /\ header'.nb_files # 0
        /\ call' \in Calls /\ slot' \in Slots /\ slot' # NoSlot
        /\ pc' = "insert_header"
    BY <1>3, <2>2, <2>3
  <2> QED
    BY <1>0, <1>4, <2>2, <2>4 DEF InsertCopy, Insertable, Idle, KindInv, TypeOK
<1>5. CASE InsertNew(id, img)
  <2>0. PICK i \in Slots : \E offset \in DedupOffsets(i, id, img) :
          /\ Acceptable(i, id, img)
          /\ \/ /\ Flush
                /\ stream' = AppendBlob(stream, img, "orig")
                /\ Commit(i, id, img, [offset EXCEPT !["orig"] = EndOf(stream)])
             \/ /\ AppendFails
                /\ stream' = disk'
                /\ metadata' = [metadata EXCEPT ![i] = FreshEntry(id, img, offset)]
                /\ Refuse(InsertCall(id, img), "ERR_IO")
                /\ UNCHANGED header
    BY <1>5 DEF InsertNew
  <2>1. PICK offset \in DedupOffsets(i, id, img) :
          /\ Acceptable(i, id, img)
          /\ \/ /\ Flush
                /\ stream' = AppendBlob(stream, img, "orig")
                /\ Commit(i, id, img, [offset EXCEPT !["orig"] = EndOf(stream)])
             \/ /\ AppendFails
                /\ stream' = disk'
                /\ metadata' = [metadata EXCEPT ![i] = FreshEntry(id, img, offset)]
                /\ Refuse(InsertCall(id, img), "ERR_IO")
                /\ UNCHANGED header
    BY <2>0
  <2>2. offset \in [Resolutions -> Nat]
    BY <1>0, <2>1, EntryTypes
  <2>3. stream \in File /\ EndOf(stream) \in Nat
    BY <1>0, WriteTypes DEF TypeOK
  <2>4. UNCHANGED <<mode, crashes>>
    BY <1>5 DEF InsertNew
  <2>5. CASE /\ Flush
             /\ stream' = AppendBlob(stream, img, "orig")
             /\ Commit(i, id, img, [offset EXCEPT !["orig"] = EndOf(stream)])
    <3>1. [offset EXCEPT !["orig"] = EndOf(stream)] \in [Resolutions -> Nat]
      BY <2>2, <2>3
    <3>2. /\ metadata' \in [Slots -> Entry]
          /\ header' \in Header /\ header'.nb_files # 0
          /\ call' \in Calls /\ slot' \in Slots /\ slot' # NoSlot
          /\ pc' = "insert_header"
      BY <1>3, <2>1, <2>5, <3>1 DEF Acceptable
    <3>3. stream' \in File
      <4>1. "orig" \in Resolutions /\ img \in Images
        BY <2>1 DEF Acceptable, Resolutions
      <4> QED
        BY <2>3, <2>5, <4>1, WriteTypes
    <3>4. disk' \in File /\ faults' = faults
      BY <1>0, <2>5, FlushTypes
    <3> QED
      BY <1>0, <2>1, <2>4, <3>2, <3>3, <3>4
      DEF Acceptable, Insertable, Idle, KindInv, TypeOK
  <2>6. CASE /\ AppendFails
             /\ stream' = disk'
             /\ metadata' = [metadata EXCEPT ![i] = FreshEntry(id, img, offset)]
             /\ Refuse(InsertCall(id, img), "ERR_IO")
             /\ UNCHANGED header
    <3>1. metadata' \in [Slots -> Entry]
      BY <1>0, <2>2, <2>6, EntryTypes DEF TypeOK
    <3>2. disk' \in File /\ faults' \in 0 .. MaxFaults
      BY <1>0, <2>6, FlushTypes
    <3>3. call' \in Calls /\ slot' = NoSlot /\ pc' = "return"
      BY <1>0, <2>6, RefuseTypes DEF Results, c
    <3> QED
      BY <1>0, <2>1, <2>4, <2>6, <3>1, <3>2, <3>3
      DEF Acceptable, Insertable, Idle, KindInv, TypeOK
  <2> QED
    BY <2>1, <2>5, <2>6
<1> QED
  BY <1>1, <1>2, <1>4, <1>5 DEF Insert

LEMMA InsertStepTypes == KindInv /\ (InsertHeader \/ InsertEntry) => KindInv'
<1> SUFFICES ASSUME KindInv, InsertHeader \/ InsertEntry PROVE KindInv'
  OBVIOUS
<1>0. TypeOK /\ mode # "closed" /\ header.nb_files # 0 /\ slot \in Slots
  BY DEF KindInv, TypeOK, InsertHeader, InsertEntry
<1>1. metadata[slot] \in Entry
  BY <1>0 DEF TypeOK
<1>2. ASSUME NEW h \in Header, h.nb_files # 0 PROVE Decremented(h) \in Header
  BY <1>2, CounterTypes
<1>3. CASE InsertHeader
  <2>1. CASE /\ Flush
             /\ stream' = WriteHeader(stream, header)
             /\ Continue(call, slot, "insert_entry")
    <3>1. disk' \in File /\ faults' = faults
      BY <1>0, <2>1, FlushTypes
    <3>2. stream' \in File
      BY <1>0, <2>1, WriteTypes DEF TypeOK
    <3> QED
      BY <1>0, <1>3, <2>1, <3>1, <3>2
      DEF InsertHeader, Continue, KindInv, TypeOK
  <2>2. CASE FlushFails /\ stream' = disk' /\ Refuse(call, "ERR_IO")
    <3>1. disk' \in File /\ faults' \in 0 .. MaxFaults
      BY <1>0, <2>2, FlushTypes
    <3>2. call' \in Calls /\ slot' = NoSlot /\ pc' = "return"
      BY <1>0, <2>2, RefuseTypes DEF Results, TypeOK
    <3> QED
      BY <1>0, <1>3, <2>2, <3>1, <3>2 DEF InsertHeader, KindInv, TypeOK
  <2> QED
    BY <1>3, <2>1, <2>2 DEF InsertHeader
<1>4. CASE InsertEntry
  <2>0. Refuse(call, "ERR_NONE") \/ Refuse(call, "ERR_IO")
    BY <1>4 DEF InsertEntry
  <2>1. call' \in Calls /\ slot' = NoSlot /\ pc' = "return"
    BY <1>0, <2>0, RefuseTypes DEF Results, TypeOK
  <2>2. CASE /\ Flush
             /\ stream' = WriteEntry(stream, slot, metadata[slot])
             /\ UNCHANGED header
    <3>1. disk' \in File /\ faults' = faults
      BY <1>0, <2>2, FlushTypes
    <3>2. stream' \in File
      BY <1>0, <1>1, <2>2, WriteTypes DEF TypeOK
    <3> QED
      BY <1>0, <1>4, <2>1, <2>2, <3>1, <3>2 DEF InsertEntry, KindInv, TypeOK
  <2>3. CASE /\ FlushFails
             /\ header' = Decremented(header)
             /\ stream' = WriteHeader(disk', header')
    <3>1. disk' \in File /\ faults' \in 0 .. MaxFaults
      BY <1>0, <2>3, FlushTypes
    <3>2. header' \in Header
      BY <1>0, <1>2, <2>3 DEF TypeOK
    <3>3. stream' \in File
      BY <2>3, <3>1, <3>2, WriteTypes
    <3> QED
      BY <1>0, <1>4, <2>1, <3>1, <3>2, <3>3 DEF InsertEntry, KindInv, TypeOK
  <2> QED
    BY <1>4, <2>2, <2>3 DEF InsertEntry
<1> QED
  BY <1>3, <1>4

LEMMA DeleteTypes ==
    ASSUME KindInv, NEW id \in ImgIds, Delete(id)
    PROVE  KindInv'
<1>0. TypeOK /\ DeleteCall(id) \in Calls
  BY CallTypes DEF KindInv
<1>1. CASE DeleteRefused(id)
  <2>1. /\ Idle
        /\ Refuse(DeleteCall(id), "ERR_IO") \/ Refuse(DeleteCall(id), "ERR_IMAGE_NOT_FOUND")
        /\ UNCHANGED <<mode, header, metadata, stream, disk, faults, crashes>>
    BY <1>1 DEF DeleteRefused
  <2>2. call' \in Calls /\ slot' = NoSlot /\ pc' = "return"
    BY <1>0, <2>1, RefuseTypes DEF Results
  <2> QED
    BY <1>0, <2>1, <2>2 DEF Idle, KindInv, TypeOK
<1>2. CASE DeleteHeader(id)
  <2>1. PICK i \in FirstOf(Named(id)) :
          /\ metadata' = [metadata EXCEPT ![i].is_valid = FALSE]
          /\ Continue(DeleteCall(id), i, "delete_entry")
    BY <1>2 DEF DeleteHeader
  <2>2. i \in Slots /\ i # NoSlot
    BY <2>1, SizesAssumption DEF FirstOf, Named, Slots, NoSlot
  <2>3. metadata' \in [Slots -> Entry]
    <3>1. [metadata[i] EXCEPT !.is_valid = FALSE] \in Entry
      BY <1>0, <2>2 DEF TypeOK, Entry
    <3> QED
      BY <1>0, <2>1, <2>2, <3>1 DEF TypeOK
  <2>4. header' \in Header
    BY <1>0, <1>2, CounterTypes DEF DeleteHeader, CountsNone, TypeOK
  <2>5. disk' \in File /\ faults' \in 0 .. MaxFaults
    BY <1>0, <1>2, FlushTypes DEF DeleteHeader, TypeOK
  <2>6. stream' \in File
    BY <1>0, <1>2, <2>4, <2>5, WriteTypes DEF DeleteHeader, TypeOK
  <2> QED
    BY <1>0, <1>2, <2>1, <2>2, <2>3, <2>4, <2>5, <2>6
    DEF DeleteHeader, Idle, Continue, KindInv, TypeOK
<1> QED
  BY <1>1, <1>2 DEF Delete

LEMMA DeleteStepTypes == KindInv /\ DeleteEntry => KindInv'
<1> SUFFICES ASSUME KindInv, DeleteEntry PROVE KindInv'
  OBVIOUS
<1>1. TypeOK /\ mode # "closed" /\ slot \in Slots
  BY DEF KindInv, TypeOK, DeleteEntry
<1>2. call' \in Calls /\ slot' = NoSlot /\ pc' = "return"
  BY <1>1, RefuseTypes DEF DeleteEntry, Results, TypeOK
<1>3. disk' \in File /\ faults' \in 0 .. MaxFaults
  BY <1>1, FlushTypes DEF DeleteEntry, TypeOK
<1>4. stream' \in File
  <2>1. metadata[slot] \in Entry
    BY <1>1 DEF TypeOK
  <2> QED
    BY <1>1, <1>3, <2>1, WriteTypes DEF DeleteEntry, TypeOK
<1> QED
  BY <1>1, <1>2, <1>3, <1>4 DEF DeleteEntry, KindInv, TypeOK

\* fread() gives a blob, or fails.
LEMMA FetchTypes ==
    ASSUME TypeOK, NEW c \in Calls, NEW offset \in Nat, Fetch(c, offset)
    PROVE  /\ call' \in Calls /\ slot' = NoSlot /\ pc' = "return"
           /\ disk' \in File /\ stream' \in File /\ faults' \in 0 .. MaxFaults
<1>0. stream \in File /\ faults \in 0 .. MaxFaults
  BY DEF TypeOK
<1>1. CASE /\ Flush
           /\ UNCHANGED stream
           /\ IF Readable(stream, offset)
              THEN \/ Answer(c, "ERR_NONE", stream.contents[offset], {})
                   \/ ~stream.intact /\ Answer(c, "ERR_NONE", Torn, {})
              ELSE Refuse(c, "ERR_IO")
  <2>1. disk' \in File /\ faults' = faults
    BY <1>1, FlushTypes
  <2>2. CASE Readable(stream, offset)
    <3>1. stream.contents[offset] \in Content \cup {Torn, NoImage}
      BY <1>0, <2>2 DEF Readable, File
    <3>2. {} \in SUBSET (ImgIds \cup {EmptyId}) /\ "ERR_NONE" \in Results
      BY DEF Results
    <3> QED
      BY <1>0, <1>1, <2>1, <2>2, <3>1, <3>2, AnswerTypes
  <2>3. CASE ~Readable(stream, offset)
    BY <1>0, <1>1, <2>1, <2>3, RefuseTypes DEF Results
  <2> QED
    BY <2>2, <2>3
<1>2. CASE FlushFails /\ stream' = disk' /\ Refuse(c, "ERR_IO")
  BY <1>2, FlushTypes, RefuseTypes DEF Results
<1> QED
  BY <1>1, <1>2 DEF Fetch

LEMMA ReadTypes ==
    ASSUME KindInv, NEW id \in ImgIds, NEW res \in Resolutions, Read(id, res)
    PROVE  KindInv'
<1> DEFINE c == ReadCall(id, res)
<1>0. c \in Calls /\ TypeOK
  BY CallTypes DEF KindInv
<1> HIDE DEF c
<1>1. CASE ReadRefused(id, res)
  <2>1. /\ Idle
        /\ \/ Refuse(c, "ERR_IMAGE_NOT_FOUND")
           \/ Refuse(c, "ERR_INVALID_IMGID")
           \/ Refuse(c, "ERR_IO")
        /\ UNCHANGED <<mode, header, metadata, stream, disk, faults, crashes>>
    BY <1>1 DEF ReadRefused, c
  <2>2. call' \in Calls /\ slot' = NoSlot /\ pc' = "return"
    BY <1>0, <2>1, RefuseTypes DEF Results
  <2> QED
    BY <1>0, <2>1, <2>2 DEF Idle, KindInv, TypeOK
<1>2. CASE ReadStored(id, res)
  <2>1. PICK i \in FirstOf(Named(id)) : Fetch(c, metadata[i].offset[res])
    BY <1>2 DEF ReadStored, c
  <2>2. metadata[i].offset[res] \in Nat
    BY <1>0, <2>1 DEF FirstOf, Named, TypeOK, Entry
  <2>3. /\ call' \in Calls /\ slot' = NoSlot /\ pc' = "return"
        /\ disk' \in File /\ stream' \in File /\ faults' \in 0 .. MaxFaults
    BY <1>0, <2>1, <2>2, FetchTypes
  <2> QED
    BY <1>0, <1>2, <2>3 DEF ReadStored, Idle, KindInv, TypeOK
<1>3. CASE ReadResize(id, res)
  <2>0. Idle /\ UNCHANGED <<mode, header, crashes>>
    BY <1>3 DEF ReadResize
  <2>1. PICK i \in FirstOf(Named(id)) :
          \/ /\ Flush
             /\ Decodable(stream, metadata[i].offset["orig"])
             /\ stream' = AppendBlob(stream,
                    stream.contents[metadata[i].offset["orig"]].img, res)
             /\ metadata' = [metadata EXCEPT ![i].offset[res] = EndOf(stream)]
             /\ Continue(c, i, "resize_header")
          \/ /\ Flush \/ AppendFails
             /\ stream' = disk'
             /\ Continue(c, i, "read_fetch")
             /\ UNCHANGED metadata
    BY <1>3 DEF ReadResize, c
  <2>2. i \in Slots /\ i # NoSlot
    BY <2>1, SizesAssumption DEF FirstOf, Named, Slots, NoSlot
  <2>3. stream \in File /\ metadata[i] \in Entry
    BY <1>0, <2>2 DEF TypeOK
  <2>4. CASE /\ Flush
             /\ Decodable(stream, metadata[i].offset["orig"])
             /\ stream' = AppendBlob(stream,
                    stream.contents[metadata[i].offset["orig"]].img, res)
             /\ metadata' = [metadata EXCEPT ![i].offset[res] = EndOf(stream)]
             /\ Continue(c, i, "resize_header")
    <3>1. disk' \in File /\ faults' = faults
      BY <1>0, <2>4, FlushTypes
    <3>2. stream.contents[metadata[i].offset["orig"]].img \in Images
      <4>1. stream.contents[metadata[i].offset["orig"]] \in Content
        BY <2>3, <2>4 DEF Decodable, Readable, File
      <4> QED
        BY <4>1 DEF Content
    <3>3. stream' \in File
      BY <2>3, <2>4, <3>2, WriteTypes
    <3>4. metadata' \in [Slots -> Entry]
      <4>1. [metadata[i] EXCEPT !.offset[res] = EndOf(stream)] \in Entry
        BY <2>3, WriteTypes DEF Entry
      <4> QED
        BY <1>0, <2>2, <2>4, <4>1 DEF TypeOK
    <3> QED
      BY <1>0, <2>0, <2>2, <2>4, <3>1, <3>3, <3>4
      DEF Continue, Idle, KindInv, TypeOK
  <2>5. CASE /\ Flush \/ AppendFails
             /\ stream' = disk'
             /\ Continue(c, i, "read_fetch")
             /\ UNCHANGED metadata
    <3>1. disk' \in File /\ faults' \in 0 .. MaxFaults
      BY <1>0, <2>3, <2>5, FlushTypes DEF TypeOK
    <3> QED
      BY <1>0, <2>0, <2>2, <2>5, <3>1 DEF Continue, Idle, KindInv, TypeOK
  <2> QED
    BY <2>1, <2>4, <2>5
<1> QED
  BY <1>1, <1>2, <1>3 DEF Read

LEMMA ReadStepTypes == KindInv /\ (ResizeHeader \/ ReadFetch) => KindInv'
<1> SUFFICES ASSUME KindInv, ResizeHeader \/ ReadFetch PROVE KindInv'
  OBVIOUS
<1>0. TypeOK /\ mode # "closed" /\ slot \in Slots
  BY DEF KindInv, TypeOK, ResizeHeader, ReadFetch
<1>1. metadata[slot] \in Entry /\ metadata[0] \in Entry /\ 0 \in Slots
  BY <1>0, SizesAssumption DEF TypeOK, Slots
<1>2. CASE ResizeHeader
  <2>1. CASE Flush /\ stream' = WriteFirstEntry(WriteHeader(stream, header))
    <3>1. disk' \in File /\ faults' = faults
      BY <1>0, <2>1, FlushTypes
    <3>2. WriteHeader(stream, header) \in File
      BY <1>0, WriteTypes DEF TypeOK
    <3>3. stream' \in File
      BY <1>1, <2>1, <3>2, WriteTypes DEF WriteFirstEntry
    <3> QED
      BY <1>0, <1>2, <3>1, <3>3 DEF ResizeHeader, Continue, KindInv, TypeOK
  <2>2. CASE FlushFails /\ stream' = disk'
    <3>1. disk' \in File /\ faults' \in 0 .. MaxFaults
      BY <1>0, <2>2, FlushTypes
    <3> QED
      BY <1>0, <1>2, <2>2, <3>1 DEF ResizeHeader, Continue, KindInv, TypeOK
  <2> QED
    BY <1>2, <2>1, <2>2 DEF ResizeHeader
<1>3. CASE ReadFetch
  <2>1. call \in Calls /\ metadata[slot].offset[call.res] \in Nat
    BY <1>0, <1>1 DEF TypeOK, Entry, Calls
  <2>2. /\ call' \in Calls /\ slot' = NoSlot /\ pc' = "return"
        /\ disk' \in File /\ stream' \in File /\ faults' \in 0 .. MaxFaults
    BY <1>0, <1>3, <2>1, FetchTypes DEF ReadFetch
  <2> QED
    BY <1>0, <1>3, <2>2 DEF ReadFetch, KindInv, TypeOK
<1> QED
  BY <1>2, <1>3

LEMMA ListTypes ==
    ASSUME KindInv, NEW output \in {"STDOUT", "JSON"}, List(output)
    PROVE  KindInv'
<1>0. TypeOK /\ Call(output) \in Calls
  BY CallTypes DEF KindInv
<1>1. ListedIds \subseteq ImgIds \cup {EmptyId}
  BY <1>0 DEF ListedIds, ValidSlots, TypeOK, Entry
<1>2. PICK ids \in SUBSET (ImgIds \cup {EmptyId}) :
        Answer(Call(output), "ERR_NONE", NoImage, ids)
  <2>1. CASE output = "STDOUT" /\ header.nb_files = 0
    <3>1. Answer(Call(output), "ERR_NONE", NoImage, {})
      BY <2>1 DEF List
    <3> QED
      BY <3>1
  <2>2. CASE ~(output = "STDOUT" /\ header.nb_files = 0)
    <3>1. Answer(Call(output), "ERR_NONE", NoImage, ListedIds)
      BY <2>2 DEF List
    <3> QED
      BY <1>1, <3>1
  <2> QED
    BY <2>1, <2>2
<1>3. call' \in Calls /\ slot' = NoSlot /\ pc' = "return"
  BY <1>0, <1>2, AnswerTypes DEF Results
<1> QED
  BY <1>0, <1>3 DEF List, Idle, KindInv, TypeOK

LEMMA ReturnTypes == KindInv /\ Return => KindInv'
  BY EmptyTypes DEF Return, KindInv, TypeOK

LEMMA NextKinds == KindInv /\ [Next]_vars => KindInv'
<1> SUFFICES ASSUME KindInv, [Next]_vars PROVE KindInv'
  OBVIOUS
<1>1. CASE \E m \in {"rb", "rb+"} : Open(m)
  BY <1>1, OpenTypes
<1>2. CASE Close \/ Create
  BY <1>2, CloseTypes, CreateTypes
<1>3. CASE Crash
  BY <1>3, CrashTypes
<1>4. CASE \E id \in ImgIds, img \in Images \cup NonImages : Insert(id, img)
  BY <1>4, InsertTypes
<1>5. CASE \E id \in ImgIds : Delete(id)
  BY <1>5, DeleteTypes
<1>6. CASE \E id \in ImgIds, res \in Resolutions : Read(id, res)
  BY <1>6, ReadTypes
<1>7. CASE \E output \in {"STDOUT", "JSON"} : List(output)
  BY <1>7, ListTypes
<1>8. CASE Step
  BY <1>8, InsertStepTypes, DeleteStepTypes, ReadStepTypes, ReturnTypes DEF Step
<1>9. CASE UNCHANGED vars
  BY <1>9 DEF vars, KindInv, TypeOK
<1> QED
  BY <1>1, <1>2, <1>3, <1>4, <1>5, <1>6, <1>7, <1>8, <1>9 DEF Next

-----------------------------------------------------------------------------
\* Nothing is written at the wrong place before something fails.
IntactInv == faults = 0 => disk.intact /\ stream.intact

TypeInv == KindInv /\ IntactInv

\* Nothing fails.
LEMMA NoFault ==
    ASSUME faults' = 0, TypeOK
    PROVE  ~Fault /\ ~FlushFails /\ ~AppendFails
  BY SizesAssumption DEF Fault, FlushFails, AppendFails, TypeOK

\* Failures are counted and never forgotten.
LEMMA FaultsGrow ==
    ASSUME KindInv, [Next]_vars, faults' = 0
    PROVE  faults = 0
<1>0. TypeOK
  BY DEF KindInv
<1>1. ~Fault /\ ~FlushFails /\ ~AppendFails
  BY <1>0, NoFault
<1>2. Next => faults' = faults
  BY <1>1 DEF Next, Open, Create, Close, Crash, Flush, Insert, InsertRefused, InsertRejected,
     InsertCopy, InsertNew, Delete, DeleteRefused, DeleteHeader, Read, ReadRefused,
     ReadStored, ReadResize, Fetch, List, Step, InsertHeader, InsertEntry, DeleteEntry,
     ResizeHeader, ReadFetch, Return
<1> QED
  BY <1>2 DEF vars

\* A write at its own place leaves an intact file intact.
LEMMA WriteKeepsIntact ==
    ASSUME NEW f \in File
    PROVE  /\ \A h : WriteHeader(f, h).intact = f.intact
           /\ \A i, e : WriteEntry(f, i, e).intact = f.intact
           /\ \A img, res : AppendBlob(f, img, res).intact = f.intact
           /\ \A h, i, e : WriteEntry(WriteHeader(f, h), i, e).intact = f.intact
  BY DEF File, WriteHeader, WriteEntry, AppendBlob

LEMMA NextIntact == KindInv /\ IntactInv /\ [Next]_vars => IntactInv'
<1> SUFFICES ASSUME KindInv, IntactInv, [Next]_vars, faults' = 0
             PROVE  disk'.intact /\ stream'.intact
  BY DEF IntactInv
<1>0. /\ TypeOK /\ disk \in File /\ stream \in File
      /\ disk.intact /\ stream.intact
  BY FaultsGrow DEF KindInv, TypeOK, IntactInv
<1>1. ~Fault /\ ~FlushFails /\ ~AppendFails
  BY <1>0, NoFault
<1>2. DropBuffer => disk'.intact
  BY <1>0 DEF DropBuffer, Tear, File
<1>3. Flush => disk'.intact
  BY <1>0 DEF Flush
<1>4. CASE (\E m \in {"rb", "rb+"} : Open(m)) \/ Create
  BY <1>0, <1>4 DEF Open, Create, EmptyFile
<1>5. CASE Close \/ Crash
  BY <1>0, <1>1, <1>2, <1>3, <1>5 DEF Close, Crash, Forget
<1>6. CASE \E id \in ImgIds, img \in Images \cup NonImages : Insert(id, img)
  <2>1. PICK id \in ImgIds, img \in Images \cup NonImages : Insert(id, img)
    BY <1>6
  <2>2. CASE InsertNew(id, img)
    <3>1. Flush /\ stream' = AppendBlob(stream, img, "orig")
      BY <1>1, <2>2 DEF InsertNew
    <3> QED
      BY <1>0, <1>3, <3>1, WriteKeepsIntact
  <2>3. CASE ~InsertNew(id, img)
    BY <1>0, <2>1, <2>3 DEF Insert, InsertRefused, InsertRejected, InsertCopy
  <2> QED
    BY <2>2, <2>3
<1>7. CASE \E id \in ImgIds : Delete(id)
  BY <1>0, <1>1, <1>3, <1>7, WriteKeepsIntact DEF Delete, DeleteRefused, DeleteHeader
<1>8. ASSUME NEW c, NEW offset, Fetch(c, offset) PROVE disk'.intact /\ stream'.intact
  BY <1>0, <1>1, <1>3, <1>8 DEF Fetch
<1>9. CASE \E id \in ImgIds, res \in Resolutions : Read(id, res)
  <2>1. PICK id \in ImgIds, res \in Resolutions : Read(id, res)
    BY <1>9
  <2>2. CASE ReadRefused(id, res)
    BY <1>0, <2>2 DEF ReadRefused
  <2>3. CASE ReadStored(id, res)
    BY <1>8, <2>3 DEF ReadStored
  <2>4. CASE ReadResize(id, res)
    BY <1>0, <1>1, <1>3, <2>4, WriteKeepsIntact DEF ReadResize
  <2> QED
    BY <2>1, <2>2, <2>3, <2>4 DEF Read
<1>10. CASE \E output \in {"STDOUT", "JSON"} : List(output)
  BY <1>0, <1>10 DEF List
<1>11. CASE InsertHeader \/ InsertEntry \/ DeleteEntry \/ Return
  BY <1>0, <1>1, <1>3, <1>11, WriteKeepsIntact
  DEF InsertHeader, InsertEntry, DeleteEntry, Return
<1>12. CASE ResizeHeader \/ ReadFetch
  BY <1>0, <1>1, <1>3, <1>8, <1>12, WriteKeepsIntact
  DEF ResizeHeader, ReadFetch, WriteFirstEntry
<1>13. CASE UNCHANGED vars
  BY <1>0, <1>13 DEF vars
<1> QED
  BY <1>4, <1>5, <1>6, <1>7, <1>9, <1>10, <1>11, <1>12, <1>13 DEF Next, Step

LEMMA InitTypes == Init => TypeInv
  BY InitKinds DEF Init, TypeInv, IntactInv, EmptyFile

LEMMA NextTypes == TypeInv /\ [Next]_vars => TypeInv'
  BY NextKinds, NextIntact DEF TypeInv

\* Every copy of the store keeps its type, whatever fails: header.nb_files,
\* which do_delete and decr_header() decrement, never wraps below 0 and never
\* exceeds max_files.
THEOREM TypeCorrect == Spec => []TypeOK
<1>1. Spec => []TypeInv
  BY InitTypes, NextTypes, PTL DEF Spec
<1>2. TypeInv => TypeOK
  BY DEF TypeInv, KindInv
<1> QED
  BY <1>1, <1>2, PTL
-----------------------------------------------------------------------------
(***************************************************************************)
(* Theorems of Imgfs until the first flush that fails, whatever the number *)
(* of crashes: identifiers are unique in memory and in every file a crash  *)
(* can leave, and between calls the file says what memory says.            *)
(*                                                                         *)
(* do_insert looks for the name in memory only, so uniqueness in the file  *)
(* rests on what the file and memory have in common: outside the slot a    *)
(* call is changing, every entry of the file is the one in memory, up to   *)
(* what lazily_resize() and refused insertions do not write.               *)
(***************************************************************************)
NothingFailed == faults = 0

InFlight == pc \in {"insert_header", "insert_entry", "delete_entry"}

\* The inductive invariant.
NamesInv ==
    /\ TypeInv
    /\ UniqueIds
    /\ mode = "closed" => stream = disk
    /\ mode # "closed" =>
        \A j \in Slots : \/ InFlight /\ j = slot
                         \/ SameImage(metadata[j], stream.metadata[j])
    /\ mode # "closed" /\ pc # "insert_header" => header = stream.header
-----------------------------------------------------------------------------
\* Tables that hold the same images have unique identifiers together.
LEMMA SameUnique ==
    ASSUME NEW md1 \in [Slots -> Entry], NEW md2 \in [Slots -> Entry],
           \A j \in Slots : SameImage(md1[j], md2[j]),
           Unique(md1)
    PROVE  Unique(md2)
  BY DEF Unique, ValidSlots, SameImage

\* What a crash drops is never an entry that is already in the kernel.
LEMMA DropKeepsMetadata ==
    ASSUME TypeOK, DropBuffer
    PROVE  disk'.metadata = disk.metadata
  BY DEF DropBuffer, Tear, Misplace, TypeOK, File

\* fwrite() of the header or of a blob leaves the entries alone.
LEMMA WriteKeepsMetadata ==
    ASSUME NEW f \in File
    PROVE  /\ \A h : WriteHeader(f, h).metadata = f.metadata
           /\ \A h : WriteHeader(f, h).header = h
           /\ \A img, res : AppendBlob(f, img, res).metadata = f.metadata
           /\ \A img, res : AppendBlob(f, img, res).header = f.header
           /\ \A i \in Slots : \A e : WriteEntry(f, i, e).metadata = [f.metadata EXCEPT ![i] = e]
           /\ \A i \in Slots : \A e : WriteEntry(f, i, e).header = f.header
  BY DEF File, WriteHeader, AppendBlob, WriteEntry

LEMMA InitNames == Init => NamesInv
<1> SUFFICES ASSUME Init PROVE NamesInv
  OBVIOUS
<1>1. TypeInv
  BY InitTypes
<1>2. UniqueIds
  BY DEF Init, UniqueIds, Unique, ValidSlots, EmptyFile, EmptyMetadata, EmptyEntry
<1> QED
  BY <1>1, <1>2 DEF Init, NamesInv

LEMMA OpenNames ==
    ASSUME NamesInv, TypeInv', NEW m \in {"rb", "rb+"}, Open(m)
    PROVE  NamesInv'
  BY DEF NamesInv, TypeInv, KindInv, TypeOK, Open, UniqueIds, SameImage

\* Closing or dying: what is left is a file that had unique identifiers.
LEMMA ForgetNames ==
    ASSUME NamesInv, TypeInv', Forget, Unique(disk.metadata)', disk' = stream'
    PROVE  NamesInv'
<1>1. Unique(EmptyMetadata)
  BY DEF Unique, ValidSlots, EmptyMetadata, EmptyEntry
<1>2. UniqueIds'
  BY <1>1 DEF Forget, UniqueIds, Unique, ValidSlots
<1> QED
  BY <1>2 DEF NamesInv, Forget

LEMMA CloseNames ==
    ASSUME faults' = 0, NamesInv, TypeInv', Close
    PROVE  NamesInv'
<1>1. disk' = stream /\ Forget
  BY NoFault DEF Close, Flush, NamesInv, TypeInv, KindInv
<1>2. Unique(disk.metadata)'
  BY <1>1 DEF NamesInv, UniqueIds, Unique, ValidSlots
<1> QED
  BY <1>1, <1>2, ForgetNames DEF Forget

LEMMA CrashNames == NamesInv /\ TypeInv' /\ Crash => NamesInv'
<1> SUFFICES ASSUME NamesInv, TypeInv', Crash PROVE NamesInv'
  OBVIOUS
<1>1. disk'.metadata = disk.metadata \/ disk'.metadata = stream.metadata
  BY DropKeepsMetadata DEF Crash, NamesInv, TypeInv, KindInv
<1>2. Unique(disk.metadata)'
  BY <1>1 DEF NamesInv, UniqueIds, Unique, ValidSlots
<1> QED
  BY <1>2, ForgetNames DEF Crash, Forget
-----------------------------------------------------------------------------
\* The slot do_insert takes is not in use, in memory and in the file.
LEMMA InsertSlot ==
    ASSUME NamesInv, NEW i \in Slots, Insertable(i)
    PROVE  /\ mode # "closed" /\ pc = "idle"
           /\ ~metadata[i].is_valid /\ ~stream.metadata[i].is_valid
           /\ \A j \in Slots : SameImage(metadata[j], stream.metadata[j])
<1>1. mode # "closed" /\ pc = "idle"
  BY DEF Insertable, Idle
<1>2. \A j \in Slots : SameImage(metadata[j], stream.metadata[j])
  BY <1>1 DEF NamesInv, InFlight
<1>3. ~metadata[i].is_valid
  BY DEF Insertable, FirstOf, FreeSlots, ValidSlots
<1> QED
  BY <1>1, <1>2, <1>3 DEF SameImage

\* Replacing an entry that is not valid by one that is not valid.
LEMMA RejectedNames ==
    ASSUME NEW i \in Slots, NEW e \in Entry, ~e.is_valid, ~metadata[i].is_valid,
           TypeOK, metadata' = [metadata EXCEPT ![i] = e]
    PROVE  /\ Unique(metadata) => Unique(metadata')
           /\ \A j \in Slots : \A g :
                SameImage(metadata[j], g) => SameImage(metadata'[j], g)
<1>1. metadata[i].is_valid = e.is_valid
  BY DEF TypeOK, Entry
<1>2. \A j \in Slots : j # i => metadata'[j] = metadata[j]
  BY DEF TypeOK
<1>3. metadata'[i] = e
  BY DEF TypeOK
<1>4. Unique(metadata) => Unique(metadata')
  BY <1>2, <1>3 DEF Unique, ValidSlots
<1> QED
  BY <1>1, <1>2, <1>3, <1>4 DEF SameImage

\* Replacing an entry that is not valid by one of a new name.
LEMMA CommitNames ==
    ASSUME NEW i \in Slots, NEW e \in Entry, TypeOK,
           Namesakes(i, e.img_id) = {},
           metadata' = [metadata EXCEPT ![i] = e],
           Unique(metadata)
    PROVE  /\ Unique(metadata')
           /\ \A j \in Slots : j # i => metadata'[j] = metadata[j]
<1>1. \A j \in ValidSlots(metadata) : j # i => metadata[j].img_id # e.img_id
  BY DEF Namesakes
<1> QED
  BY <1>1 DEF TypeOK, Unique, ValidSlots

LEMMA InsertNames ==
    ASSUME faults' = 0, NamesInv, TypeInv',
           NEW id \in ImgIds, NEW img \in Images \cup NonImages, Insert(id, img)
    PROVE  NamesInv'
<1>0. TypeOK /\ TypeInv /\ UniqueIds
  BY DEF NamesInv, TypeInv, KindInv
<1>1. CASE InsertRefused(id, img)
  <2>1. /\ pc' = "return" /\ pc = "idle" /\ mode # "closed"
        /\ UNCHANGED <<mode, header, metadata, stream, disk>>
    BY <1>1 DEF InsertRefused, Refuse, Answer, Idle
  <2> QED
    BY <2>1 DEF NamesInv, InFlight, UniqueIds, SameImage, Unique, ValidSlots
<1>2. CASE InsertRejected(id, img)
  <2>1. PICK i \in Slots : /\ Insertable(i)
                           /\ \E offset \in DedupOffsets(i, id, img) \cup {NoOffsets} :
                                metadata' = [metadata EXCEPT ![i] = FreshEntry(id, img, offset)]
    BY <1>2 DEF InsertRejected
  <2>2. PICK offset \in DedupOffsets(i, id, img) \cup {NoOffsets} :
          metadata' = [metadata EXCEPT ![i] = FreshEntry(id, img, offset)]
    BY <2>1
  <2>3. FreshEntry(id, img, offset) \in Entry /\ ~FreshEntry(id, img, offset).is_valid
    BY <1>0, <2>2, EntryTypes DEF FreshEntry, NoOffsets
  <2>4. /\ pc' = "return" /\ UNCHANGED <<mode, header, stream, disk>>
    BY <1>2 DEF InsertRejected, Refuse, Answer
  <2>5. /\ Unique(metadata')
        /\ \A j \in Slots : SameImage(metadata'[j], stream.metadata[j])
    BY <1>0, <2>1, <2>2, <2>3, InsertSlot, RejectedNames DEF UniqueIds
  <2>6. UniqueIds'
    BY <1>0, <2>4, <2>5 DEF UniqueIds, Unique, ValidSlots
  <2>7. header = stream.header /\ mode # "closed"
    BY <2>1, InsertSlot DEF NamesInv
  <2> QED
    BY <2>4, <2>5, <2>6, <2>7 DEF NamesInv
<1>3. ASSUME NEW i \in Slots, NEW offset \in [Resolutions -> Nat],
             Acceptable(i, id, img), Commit(i, id, img, offset),
             stream'.metadata = stream.metadata,
             disk'.metadata \in {disk.metadata, stream.metadata},
             UNCHANGED mode
      PROVE  NamesInv'
  <2> DEFINE e == [FreshEntry(id, img, offset) EXCEPT !.is_valid = TRUE]
  <2>1. e \in Entry /\ e.img_id = id
    <3>1. FreshEntry(id, img, offset) \in Entry
      BY <1>0, EntryTypes
    <3> QED
      BY <3>1 DEF FreshEntry, Entry
  <2>2. metadata' = [metadata EXCEPT ![i] = e] /\ Namesakes(i, e.img_id) = {}
    BY <1>3, <2>1 DEF Commit, Acceptable
  <2>3. pc' = "insert_header" /\ slot' = i
    BY <1>3 DEF Commit, Continue
  <2>4. \A j \in Slots : SameImage(metadata[j], stream.metadata[j])
    BY <1>3, InsertSlot DEF Acceptable
  <2> HIDE DEF e
  <2>5. /\ Unique(metadata')
        /\ \A j \in Slots : j # i => metadata'[j] = metadata[j]
    BY <1>0, <2>1, <2>2, CommitNames DEF UniqueIds
  <2>6. UniqueIds'
    BY <1>0, <1>3, <2>5 DEF UniqueIds, Unique, ValidSlots
  <2>7. \A j \in Slots : \/ InFlight' /\ j = slot'
                         \/ SameImage(metadata'[j], stream'.metadata[j])
    BY <1>3, <2>3, <2>4, <2>5 DEF InFlight
  <2>8. mode' # "closed"
    BY <1>3, InsertSlot DEF Acceptable
  <2> QED
    BY <2>3, <2>6, <2>7, <2>8 DEF NamesInv
<1>4. CASE InsertCopy(id, img)
  <2>1. PICK i \in Slots : \E offset \in DedupOffsets(i, id, img) :
          Acceptable(i, id, img) /\ Commit(i, id, img, offset)
    BY <1>4 DEF InsertCopy
  <2>2. PICK offset \in DedupOffsets(i, id, img) :
          Acceptable(i, id, img) /\ Commit(i, id, img, offset)
    BY <2>1
  <2>3. offset \in [Resolutions -> Nat]
    BY <1>0, <2>2, EntryTypes
  <2>4. UNCHANGED <<mode, stream, disk>>
    BY <1>4 DEF InsertCopy
  <2> QED
    BY <1>3, <2>2, <2>3, <2>4
<1>5. CASE InsertNew(id, img)
  <2>1. PICK i \in Slots : \E offset \in DedupOffsets(i, id, img) :
          /\ Acceptable(i, id, img)
          /\ disk' = stream
          /\ stream' = AppendBlob(stream, img, "orig")
          /\ Commit(i, id, img, [offset EXCEPT !["orig"] = EndOf(stream)])
    BY <1>0, <1>5, NoFault DEF InsertNew, Flush
  <2>2. PICK offset \in DedupOffsets(i, id, img) :
          /\ Acceptable(i, id, img)
          /\ disk' = stream
          /\ stream' = AppendBlob(stream, img, "orig")
          /\ Commit(i, id, img, [offset EXCEPT !["orig"] = EndOf(stream)])
    BY <2>1
  <2>3. stream \in File /\ EndOf(stream) \in Nat
    BY <1>0, WriteTypes DEF TypeOK
  <2>4. offset \in [Resolutions -> Nat]
    BY <1>0, <2>2, EntryTypes
  <2>5. [offset EXCEPT !["orig"] = EndOf(stream)] \in [Resolutions -> Nat]
    BY <2>3, <2>4
  <2>6. stream'.metadata = stream.metadata
    BY <2>2, <2>3, WriteKeepsMetadata
  <2>7. disk'.metadata = stream.metadata /\ UNCHANGED mode
    BY <1>5, <2>2 DEF InsertNew
  <2> QED
    BY <1>3, <2>2, <2>5, <2>6, <2>7
<1> QED
  BY <1>1, <1>2, <1>4, <1>5 DEF Insert

LEMMA InsertHeaderNames ==
    ASSUME faults' = 0, NamesInv, TypeInv', InsertHeader
    PROVE  NamesInv'
<1>1. /\ disk' = stream /\ stream' = WriteHeader(stream, header)
      /\ pc' = "insert_entry" /\ slot' = slot
      /\ UNCHANGED <<mode, header, metadata>>
  BY NoFault DEF InsertHeader, Flush, Continue, NamesInv, TypeInv, KindInv
<1>2. stream'.metadata = stream.metadata /\ stream'.header = header
  BY <1>1, WriteKeepsMetadata DEF NamesInv, TypeInv, KindInv, TypeOK
<1>3. UniqueIds'
  BY <1>1, <1>2 DEF NamesInv, UniqueIds, Unique, ValidSlots
<1>4. pc = "insert_header" /\ mode # "closed"
  BY DEF InsertHeader, NamesInv, TypeInv, KindInv
<1> QED
  BY <1>1, <1>2, <1>3, <1>4 DEF NamesInv, InFlight

\* The entry of the call reaches the file: every entry is that of memory again.
LEMMA EntryWritten ==
    ASSUME NamesInv, TypeInv', slot \in Slots, mode # "closed",
           disk' = stream, stream' = WriteEntry(stream, slot, metadata[slot]),
           pc # "insert_header", pc' = "return", UNCHANGED <<mode, header, metadata>>
    PROVE  NamesInv'
<1>1. stream \in File /\ metadata \in [Slots -> Entry]
  BY DEF NamesInv, TypeInv, KindInv, TypeOK
<1>2. /\ stream'.metadata = [stream.metadata EXCEPT ![slot] = metadata[slot]]
      /\ stream'.header = stream.header
  BY <1>1, WriteKeepsMetadata
<1>3. \A j \in Slots : SameImage(metadata'[j], stream'.metadata[j])
  BY <1>1, <1>2 DEF NamesInv, SameImage, File
<1>4. Unique(metadata) /\ Unique(stream.metadata)
  BY DEF NamesInv, UniqueIds
<1>5. stream'.metadata \in [Slots -> Entry]
  BY DEF TypeInv, KindInv, TypeOK, File
<1>6. Unique(stream'.metadata)
  BY <1>1, <1>3, <1>4, <1>5, SameUnique
<1>7. UniqueIds'
  BY <1>4, <1>6 DEF UniqueIds, Unique, ValidSlots
<1> QED
  BY <1>2, <1>3, <1>7 DEF NamesInv

LEMMA InsertEntryNames ==
    ASSUME faults' = 0, NamesInv, TypeInv', InsertEntry
    PROVE  NamesInv'
<1>1. /\ disk' = stream /\ stream' = WriteEntry(stream, slot, metadata[slot])
      /\ pc' = "return" /\ UNCHANGED <<mode, header, metadata>>
  BY NoFault DEF InsertEntry, Flush, Refuse, Answer, NamesInv, TypeInv, KindInv
<1>2. slot \in Slots /\ mode # "closed" /\ pc # "insert_header"
  BY DEF InsertEntry, NamesInv, TypeInv, KindInv, TypeOK
<1> QED
  BY <1>1, <1>2, EntryWritten

LEMMA DeleteEntryNames ==
    ASSUME faults' = 0, NamesInv, TypeInv', DeleteEntry
    PROVE  NamesInv'
<1>1. /\ disk' = stream /\ stream' = WriteEntry(stream, slot, metadata[slot])
      /\ pc' = "return" /\ UNCHANGED <<mode, header, metadata>>
  BY NoFault DEF DeleteEntry, Flush, Refuse, Answer, NamesInv, TypeInv, KindInv
<1>2. slot \in Slots /\ mode # "closed" /\ pc # "insert_header"
  BY DEF DeleteEntry, NamesInv, TypeInv, KindInv, TypeOK
<1> QED
  BY <1>1, <1>2, EntryWritten

LEMMA DeleteNames ==
    ASSUME faults' = 0, NamesInv, TypeInv', NEW id \in ImgIds, Delete(id)
    PROVE  NamesInv'
<1>0. TypeOK /\ UniqueIds
  BY DEF NamesInv, TypeInv, KindInv
<1>1. CASE DeleteRefused(id)
  <2>1. /\ pc' = "return" /\ pc = "idle" /\ mode # "closed"
        /\ UNCHANGED <<mode, header, metadata, stream, disk>>
    BY <1>1 DEF DeleteRefused, Refuse, Answer, Idle
  <2> QED
    BY <2>1 DEF NamesInv, InFlight, UniqueIds, SameImage, Unique, ValidSlots
<1>2. CASE DeleteHeader(id)
  <2>1. PICK i \in FirstOf(Named(id)) :
          /\ metadata' = [metadata EXCEPT ![i].is_valid = FALSE]
          /\ Continue(DeleteCall(id), i, "delete_entry")
    BY <1>2 DEF DeleteHeader
  <2>2. i \in Slots
    BY <2>1 DEF FirstOf, Named
  <2>3. /\ disk' = stream /\ stream' = WriteHeader(stream, header')
        /\ pc = "idle" /\ mode # "closed" /\ mode' = mode
    BY <1>0, <1>2, NoFault DEF DeleteHeader, Flush, Idle
  <2>4. stream'.metadata = stream.metadata /\ stream'.header = header'
    BY <1>0, <2>3, WriteKeepsMetadata DEF TypeOK
  <2>5. \A j \in Slots : j # i => metadata'[j] = metadata[j]
    BY <1>0, <2>1, <2>2 DEF TypeOK
  <2>6. ~metadata'[i].is_valid
    BY <1>0, <2>1, <2>2 DEF TypeOK, Entry
  <2>7. Unique(metadata')
    BY <1>0, <2>5, <2>6 DEF UniqueIds, Unique, ValidSlots
  <2>8. UniqueIds'
    BY <1>0, <2>3, <2>4, <2>7 DEF UniqueIds, Unique, ValidSlots
  <2>9. pc' = "delete_entry" /\ slot' = i
    BY <2>1 DEF Continue
  <2> QED
    BY <2>3, <2>4, <2>5, <2>8, <2>9 DEF NamesInv, InFlight
<1> QED
  BY <1>1, <1>2 DEF Delete

\* fread() changes no entry.
LEMMA FetchNames ==
    ASSUME faults' = 0, NamesInv, TypeInv', NEW c, NEW offset, Fetch(c, offset),
           mode # "closed", ~InFlight, UNCHANGED <<mode, header, metadata>>
    PROVE  NamesInv'
<1>1. disk' = stream /\ stream' = stream /\ pc' = "return"
  BY NoFault DEF Fetch, Flush, Answer, Refuse, NamesInv, TypeInv, KindInv
<1>2. UniqueIds'
  BY <1>1 DEF NamesInv, UniqueIds, Unique, ValidSlots
<1> QED
  BY <1>1, <1>2 DEF NamesInv, InFlight

LEMMA ReadNames ==
    ASSUME faults' = 0, NamesInv, TypeInv',
           NEW id \in ImgIds, NEW res \in Resolutions, Read(id, res)
    PROVE  NamesInv'
<1>0. TypeOK /\ UniqueIds
  BY DEF NamesInv, TypeInv, KindInv
<1>1. mode # "closed" /\ pc = "idle" /\ ~InFlight
  BY DEF Read, ReadRefused, ReadStored, ReadResize, Idle, InFlight
<1>2. CASE ReadRefused(id, res)
  <2>1. /\ pc' = "return"
        /\ UNCHANGED <<mode, header, metadata, stream, disk>>
    BY <1>2 DEF ReadRefused, Refuse, Answer
  <2> QED
    BY <1>1, <2>1 DEF NamesInv, InFlight, UniqueIds, SameImage, Unique, ValidSlots
<1>3. CASE ReadStored(id, res)
  <2>1. \E c, offset : Fetch(c, offset)
    BY <1>3 DEF ReadStored
  <2> QED
    BY <1>1, <1>3, <2>1, FetchNames DEF ReadStored
<1>4. CASE ReadResize(id, res)
  <2>1. PICK i \in FirstOf(Named(id)) :
          /\ disk' = stream
          /\ \/ /\ stream' = AppendBlob(stream,
                       stream.contents[metadata[i].offset["orig"]].img, res)
                /\ metadata' = [metadata EXCEPT ![i].offset[res] = EndOf(stream)]
                /\ pc' = "resize_header"
             \/ /\ stream' = stream
                /\ metadata' = metadata
                /\ pc' = "read_fetch"
    BY <1>0, <1>4, NoFault DEF ReadResize, Flush, Continue
  <2>2. i \in Slots /\ UNCHANGED <<mode, header>>
    BY <1>4, <2>1 DEF FirstOf, Named, ReadResize
  <2>3. res # "orig"
    BY <1>4, ResizedAssumption DEF ReadResize
  <2>4. \A j \in Slots : SameImage(metadata'[j], metadata[j])
    <3>1. CASE metadata' = [metadata EXCEPT ![i].offset[res] = EndOf(stream)]
      BY <1>0, <2>2, <2>3, <3>1 DEF SameImage, TypeOK, Entry, Resolutions
    <3>2. CASE metadata' = metadata
      BY <3>2 DEF SameImage
    <3> QED
      BY <2>1, <3>1, <3>2
  <2>5. stream'.metadata = stream.metadata /\ stream'.header = stream.header
    BY <1>0, <2>1, WriteKeepsMetadata DEF TypeOK
  <2>6. \A j \in Slots : SameImage(metadata'[j], stream'.metadata[j])
    BY <1>1, <2>4, <2>5 DEF NamesInv, SameImage
  <2>7. \A j \in Slots : SameImage(metadata[j], metadata'[j])
    BY <2>4 DEF SameImage
  <2>8. metadata \in [Slots -> Entry] /\ metadata' \in [Slots -> Entry]
    BY <1>0 DEF TypeInv, KindInv, TypeOK
  <2>9. Unique(metadata')
    BY <1>0, <2>7, <2>8, SameUnique DEF UniqueIds
  <2>10. UniqueIds'
    BY <1>0, <2>1, <2>5, <2>9 DEF UniqueIds, Unique, ValidSlots
  <2> QED
    BY <1>1, <2>1, <2>2, <2>5, <2>6, <2>10 DEF NamesInv
<1> QED
  BY <1>2, <1>3, <1>4 DEF Read

\* lazily_resize() writes the first entry: it was in the file already.
LEMMA ResizeHeaderNames ==
    ASSUME faults' = 0, NamesInv, TypeInv', ResizeHeader
    PROVE  NamesInv'
<1>0. TypeOK /\ UniqueIds /\ pc = "resize_header" /\ mode # "closed" /\ ~InFlight
  BY DEF NamesInv, TypeInv, KindInv, ResizeHeader, InFlight
<1>1. /\ disk' = stream
      /\ stream' = WriteFirstEntry(WriteHeader(stream, header))
      /\ pc' = "read_fetch" /\ UNCHANGED <<mode, header, metadata>>
  BY <1>0, NoFault DEF ResizeHeader, Flush, Continue
<1>2. 0 \in Slots
  BY SizesAssumption DEF Slots
<1>3. /\ stream'.metadata = [stream.metadata EXCEPT ![0] = metadata[0]]
      /\ stream'.header = header
  <2>1. WriteHeader(stream, header) \in File
    BY <1>0, WriteTypes DEF TypeOK
  <2>2. /\ WriteHeader(stream, header).metadata = stream.metadata
        /\ WriteHeader(stream, header).header = header
    BY <1>0, WriteKeepsMetadata DEF TypeOK
  <2> QED
    BY <1>1, <1>2, <2>1, <2>2, WriteKeepsMetadata DEF WriteFirstEntry
<1>4. \A j \in Slots : SameImage(metadata[j], stream.metadata[j])
  BY <1>0 DEF NamesInv
<1>5. \A j \in Slots : SameImage(metadata'[j], stream'.metadata[j])
  BY <1>0, <1>1, <1>2, <1>3, <1>4 DEF SameImage, TypeOK, File
<1>6. metadata' \in [Slots -> Entry] /\ stream'.metadata \in [Slots -> Entry]
  BY DEF TypeInv, KindInv, TypeOK, File
<1>7. Unique(metadata')
  BY <1>0, <1>1 DEF UniqueIds
<1>8. Unique(stream'.metadata)
  BY <1>5, <1>6, <1>7, SameUnique
<1>9. UniqueIds'
  BY <1>0, <1>1, <1>7, <1>8 DEF UniqueIds, Unique, ValidSlots
<1> QED
  BY <1>0, <1>1, <1>3, <1>5, <1>9 DEF NamesInv

LEMMA ReadFetchNames ==
    ASSUME faults' = 0, NamesInv, TypeInv', ReadFetch
    PROVE  NamesInv'
<1>1. mode # "closed" /\ ~InFlight
  BY DEF NamesInv, TypeInv, KindInv, ReadFetch, InFlight
<1> QED
  BY <1>1, FetchNames DEF ReadFetch

\* do_list and the end of a call change nothing.
LEMMA QuietNames ==
    ASSUME NamesInv, TypeInv', ~InFlight, ~InFlight', mode # "closed",
           UNCHANGED <<mode, header, metadata, stream, disk>>,
           pc' # "insert_header"
    PROVE  NamesInv'
  BY DEF NamesInv, InFlight, UniqueIds, SameImage, Unique, ValidSlots

LEMMA NextNames ==
    ASSUME NamesInv, [Next]_vars, faults' = 0
    PROVE  NamesInv'
<1>0. TypeInv'
  BY NextTypes DEF NamesInv
<1>1. CASE \E m \in {"rb", "rb+"} : Open(m)
  BY <1>0, <1>1, OpenNames
<1>2. CASE Close
  BY <1>0, <1>2, CloseNames
<1>11. CASE Create
  BY <1>11, FaultsGrow DEF Create, NamesInv, TypeInv, IntactInv
<1>3. CASE Crash
  BY <1>0, <1>3, CrashNames
<1>4. CASE \E id \in ImgIds, img \in Images \cup NonImages : Insert(id, img)
  BY <1>0, <1>4, InsertNames
<1>5. CASE \E id \in ImgIds : Delete(id)
  BY <1>0, <1>5, DeleteNames
<1>6. CASE \E id \in ImgIds, res \in Resolutions : Read(id, res)
  BY <1>0, <1>6, ReadNames
<1>7. CASE \E output \in {"STDOUT", "JSON"} : List(output)
  <2>1. /\ UNCHANGED <<mode, header, metadata, stream, disk>>
        /\ mode # "closed" /\ pc = "idle" /\ pc' = "return"
    BY <1>7 DEF List, Idle, Answer
  <2> QED
    BY <1>0, <2>1, QuietNames DEF InFlight
<1>8. CASE Return
  <2>1. /\ UNCHANGED <<mode, header, metadata, stream, disk>>
        /\ mode # "closed" /\ pc = "return" /\ pc' = "idle"
    BY <1>8 DEF Return, NamesInv, TypeInv, KindInv
  <2> QED
    BY <1>0, <2>1, QuietNames DEF InFlight
<1>9. CASE Step
  BY <1>0, <1>8, <1>9, InsertHeaderNames, InsertEntryNames, DeleteEntryNames,
     ResizeHeaderNames, ReadFetchNames DEF Step
<1>10. CASE UNCHANGED vars
  BY <1>0, <1>10 DEF vars, NamesInv, InFlight, UniqueIds, SameImage, Unique, ValidSlots
<1> QED
  BY <1>1, <1>2, <1>3, <1>4, <1>5, <1>6, <1>7, <1>9, <1>10, <1>11 DEF Next

\* So an invariant of the steps that do not fail holds until one fails.
LEMMA NamesInvariant == Spec => [](NothingFailed => NamesInv)
<1>1. Init => TypeInv /\ (NothingFailed => NamesInv)
  BY InitTypes, InitNames
<1>2. /\ TypeInv /\ (NothingFailed => NamesInv)
      /\ [Next]_vars
      => TypeInv' /\ (NothingFailed => NamesInv)'
  BY NextTypes, NextNames, FaultsGrow DEF NothingFailed, TypeInv
<1> QED
  BY <1>1, <1>2, PTL DEF Spec

\* Until a flush fails no two valid entries have the same identifier, in
\* memory and in any file a crash can leave, although do_insert looks at
\* memory only.
THEOREM UniqueIdsCorrect == Spec => [](NothingFailed => UniqueIds)
<1>1. NamesInv => UniqueIds
  BY DEF NamesInv
<1> QED
  BY <1>1, NamesInvariant, PTL

\* Until a flush fails the counters and the images of the file, with what is
\* still buffered, are between calls those of memory: what do_close() leaves is
\* what was answered.
THEOREM FileFollowsMemoryCorrect == Spec => [](NothingFailed => FileFollowsMemory)
<1>1. NamesInv => FileFollowsMemory
  BY DEF NamesInv, FileFollowsMemory, Idle, InFlight
<1> QED
  BY <1>1, NamesInvariant, PTL
=============================================================================
