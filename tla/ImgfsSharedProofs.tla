------------------------- MODULE ImgfsSharedProofs -------------------------
(***************************************************************************)
(* Theorems of ImgfsShared, for any number of processes on one file.       *)
(***************************************************************************)
EXTENDS ImgfsShared, SequenceTheorems, TLAPS
-----------------------------------------------------------------------------
(***************************************************************************)
(* The invariant.                                                          *)
(***************************************************************************)
\* The file as the FILE of p shows it.
View(p) == Written(disk, pending[p])

\* The types of Imgfs, which are those of every process.
Header == Proc(One)!Header
Entry == Proc(One)!Entry
Content == Proc(One)!Content
File == Proc(One)!File
Calls == Proc(One)!Calls
Pcs == {"idle", "return", "open", "insert_header", "insert_entry",
        "delete_entry", "resize_header", "read_fetch"}

HeaderWrites == [to : {"header"}, at : {0}, value : Header]
EntryWrites == [to : {"entry"}, at : Slots, value : Entry]
BlobWrites(n) == [to : {"blob"}, at : 1 .. n, value : Content]
Writes == HeaderWrites \cup EntryWrites \cup [to : {"blob"}, at : Nat, value : Content]

\* What a FILE has buffered, by where its process is: nothing, an entry, a blob
\* for the end of the file or before it, a header, or a header and an entry.
Buffered(p) ==
    LET ws == pending[p]
    IN  \/ ws = <<>> /\ pc[p] \in {"idle", "return", "open", "insert_header"}
        \/ /\ Len(ws) = 1 /\ ws[1] \in EntryWrites
           /\ pc[p] \in {"idle", "return", "insert_header"}
        \/ /\ Len(ws) = 1 /\ ws[1] \in BlobWrites(Len(disk.contents) + 1)
           /\ pc[p] \in {"insert_header", "resize_header"}
        \/ Len(ws) = 1 /\ ws[1] \in HeaderWrites /\ pc[p] \in {"insert_entry", "delete_entry"}
        \/ /\ Len(ws) = 2 /\ ws[1] \in HeaderWrites /\ ws[2] \in EntryWrites
           /\ pc[p] = "read_fetch"

Local(p) ==
    /\ Buffered(p)
    /\ mode[p] = "closed" => pc[p] = "idle" /\ pending[p] = <<>>
    /\ slot[p] = NoSlot <=> pc[p] \in {"idle", "return", "open"}

TypesInv ==
    /\ disk \in File
    /\ mode \in [Procs -> {"closed", "rb", "rb+"}]
    /\ header \in [Procs -> Header]
    /\ metadata \in [Procs -> [Slots -> Entry]]
    /\ call \in [Procs -> Calls]
    /\ slot \in [Procs -> Slots \cup {NoSlot}]
    /\ pc \in [Procs -> Pcs]
    /\ pending \in [Procs -> Seq(Writes)]
    /\ stale \in [Procs -> BOOLEAN] /\ torn \in [Procs -> BOOLEAN]
    /\ inserted \subseteq ImgIds \X Images
    /\ spoiled \in BOOLEAN
    /\ crashes \in 0 .. MaxCrashes /\ changes \in 0 .. MaxChanges
    /\ \A p \in Procs : Local(p)

\* An entry that points past no end of a file of n blobs.
Reaches(e, n) == e.is_valid => \A r \in Resolutions : e.offset[r] <= n

\* OffsetsInFile, and what is buffered for an entry points into the file itself.
OffsetsInv ==
    /\ TypesInv
    /\ OffsetsInFile
    /\ \A p \in Procs : \A n \in DOMAIN pending[p] :
        pending[p][n].to = "entry" => Reaches(pending[p][n].value, Len(disk.contents))

-----------------------------------------------------------------------------
(***************************************************************************)
(* As long as no process changes the file from a stale copy.               *)
(***************************************************************************)
\* Every offset of entry e is that of a blob of its image (Stored, of Imgfs).
Holds(e, contents) ==
    \A r \in Resolutions :
        \/ r # "orig" /\ e.offset[r] = 0
        \/ /\ e.offset[r] \in 1 .. Len(contents)
           /\ contents[e.offset[r]] = [img |-> e.SHA, res |-> r]
HoldsAll(md, contents) == \A i \in Slots : md[i].is_valid => Holds(md[i], contents)
Distinct(md) ==
    \A i, j \in Slots :
        md[i].is_valid /\ md[j].is_valid /\ md[i].img_id = md[j].img_id => i = j

\* The file f holds a store, of images that were inserted.
Sound(f, images) ==
    /\ Distinct(f.metadata)
    /\ HoldsAll(f.metadata, f.contents)
    /\ \A i \in Slots : f.metadata[i].is_valid => <<f.metadata[i].img_id, f.metadata[i].SHA>> \in images

\* One process at a time changes the file, and all the others are stale.
OneChanges ==
    \A p \in Procs : Changing(p) =>
        /\ ~stale[p]
        /\ \A q \in Procs \ {p} : ~Changing(q) /\ (mode[q] # "closed" => stale[q])

\* An image was stored under a name: under some name, if the table that says so
\* was changed while it was read.
Once(id, img, images, cut) == \E image \in images : image[2] = img /\ (cut \/ image[1] = id)

\* What p has in memory was true once.
InFlight(p) == pc[p] \in {"insert_header", "insert_entry", "delete_entry"}
ReadTrue(c, images, cut) ==
    c.op = "read" /\ c.ret = "ERR_NONE" =>
        c.data.res = c.res /\ Once(c.id, c.data.img, images, cut)
Remembers(p) ==
    /\ HoldsAll(metadata[p], View(p).contents)
    /\ \A i \in Slots : metadata[p][i].is_valid =>
        Once(metadata[p][i].img_id, metadata[p][i].SHA, inserted, torn[p])
    /\ InFlight(p) => call[p].op # "read"
    /\ pc[p] \in {"resize_header", "read_fetch"} =>
        /\ call[p].op = "read" /\ metadata[p][slot[p]].is_valid
        /\ metadata[p][slot[p]].img_id = call[p].id
    /\ pc[p] = "return" => ReadTrue(call[p], inserted, torn[p])

\* Two entries of the same image, or two that are not valid.
Alike(e, f) ==
    /\ e.is_valid = f.is_valid
    /\ e.is_valid => e.img_id = f.img_id /\ e.SHA = f.SHA

\* An entry that takes no image from the file f but one its process deletes.
Keeps(w, f) ==
    \/ ~f.metadata[w.at].is_valid
    \/ Alike(w.value, f.metadata[w.at])
    \/ ~w.value.is_valid /\ w.value.img_id = f.metadata[w.at].img_id

\* What a process that is not stale says is what the file says, but for the
\* slot it is changing.
Follows(p) ==
    /\ ~torn[p]
    /\ pc[p] = "open" => metadata[p] = disk.metadata
    /\ Distinct(metadata[p])
    /\ Sound(View(p), inserted)
    /\ \A i \in Slots : (InFlight(p) /\ i = slot[p]) \/ Alike(metadata[p][i], View(p).metadata[i])
    /\ pc[p] \in {"insert_header", "insert_entry"} =>
        metadata[p][slot[p]].is_valid /\ ~View(p).metadata[slot[p]].is_valid
    /\ pc[p] = "delete_entry" =>
        /\ ~metadata[p][slot[p]].is_valid
        /\ metadata[p][slot[p]].img_id = View(p).metadata[slot[p]].img_id
    /\ \A n \in DOMAIN pending[p] :
        /\ pending[p][n].to = "entry" => Keeps(pending[p][n], disk)
        /\ pending[p][n].to = "blob" => pending[p][n].at = Len(disk.contents) + 1

Knows(p) ==
    /\ mode[p] = "closed" => ~torn[p]
    /\ mode[p] # "closed" => Remembers(p) /\ (~stale[p] => Follows(p))

SoundInv ==
    /\ OneChanges
    /\ Sound(disk, inserted)
    /\ \A p \in Procs : Knows(p)

SharedInv == OffsetsInv /\ (~spoiled => SoundInv)
-----------------------------------------------------------------------------
(***************************************************************************)
(* Written: a fold over what is buffered, which is two writes at most.     *)
(***************************************************************************)
LEMMA MaxSmall == Max({1}) = 1 /\ Max({2}) = 2 /\ Max({1, 2}) = 2
  BY DEF Max

LEMMA WrittenNone == ASSUME NEW f PROVE Written(f, <<>>) = f
<1> DEFINE Step(iter, s) == IF s = {} THEN f ELSE LET x == Max(s) IN Write(iter[s \ {x}], <<>>[x])
           Iter(iter) == [s \in SUBSET (DOMAIN <<>>) |-> Step(iter, s)]
           iter == CHOOSE iter : iter = Iter(iter)
<1>1. Written(f, <<>>) = iter[DOMAIN <<>>]
  BY DEF Written, FoldLeft, MapThenFoldSet
<1>2. \E g : g = Iter(g)
  <2> DEFINE g == [s \in SUBSET (DOMAIN <<>>) |-> f]
  <2>1. g = Iter(g)
    OBVIOUS
  <2> QED
    BY <2>1
<1>3. iter = Iter(iter)
  BY <1>2
<1> HIDE DEF iter
<1> QED
  BY <1>1, <1>3

LEMMA WrittenOne == ASSUME NEW f, NEW w PROVE Written(f, <<w>>) = Write(f, w)
<1> DEFINE ws == <<w>>
           Step(iter, s) == IF s = {} THEN f ELSE LET x == Max(s) IN Write(iter[s \ {x}], ws[x])
           Iter(iter) == [s \in SUBSET (DOMAIN ws) |-> Step(iter, s)]
           iter == CHOOSE iter : iter = Iter(iter)
<1>1. DOMAIN ws = {1} /\ ws[1] = w
  OBVIOUS
<1>2. Written(f, ws) = iter[DOMAIN ws]
  BY DEF Written, FoldLeft, MapThenFoldSet
<1>3. Written(f, <<w>>) = Written(f, ws)
  OBVIOUS
<1> HIDE DEF ws
<1>4. {1} # {} /\ {1} \ {1} = {} /\ \A s \in SUBSET {1} : s \in {{}, {1}}
  OBVIOUS
<1>5. {} \in SUBSET (DOMAIN ws) /\ {1} \in SUBSET (DOMAIN ws)
  BY <1>1
<1>6. \E g : g = Iter(g)
  <2> DEFINE g == [s \in SUBSET (DOMAIN ws) |-> IF s = {} THEN f ELSE Write(f, w)]
  <2>1. ASSUME NEW s \in SUBSET (DOMAIN ws) PROVE g[s] = Step(g, s)
    <3>1. s \in {{}, {1}}
      BY <1>1, <1>4
    <3> QED
      BY <3>1, <1>1, <1>4, <1>5, MaxSmall
  <2>2. g = Iter(g)
    BY <2>1
  <2> QED
    BY <2>2
<1>7. iter = Iter(iter)
  BY <1>6
<1> HIDE DEF iter
<1>8. \A s \in SUBSET (DOMAIN ws) : iter[s] = Step(iter, s)
  BY <1>7
<1>9. iter[{1}] = Write(f, w)
  BY <1>8, <1>5, <1>1, <1>4, MaxSmall
<1> QED
  BY <1>1, <1>2, <1>3, <1>9

LEMMA WrittenTwo ==
    ASSUME NEW f, NEW v, NEW w
    PROVE  Written(f, <<v, w>>) = Write(Write(f, v), w)
<1> DEFINE ws == <<v, w>>
           Step(iter, s) == IF s = {} THEN f ELSE LET x == Max(s) IN Write(iter[s \ {x}], ws[x])
           Iter(iter) == [s \in SUBSET (DOMAIN ws) |-> Step(iter, s)]
           iter == CHOOSE iter : iter = Iter(iter)
<1>1. DOMAIN ws = {1, 2} /\ ws[1] = v /\ ws[2] = w
  OBVIOUS
<1>2. Written(f, ws) = iter[DOMAIN ws]
  BY DEF Written, FoldLeft, MapThenFoldSet
<1>3. Written(f, <<v, w>>) = Written(f, ws)
  OBVIOUS
<1> HIDE DEF ws
<1>4. \A s \in SUBSET {1, 2} : s \in {{}, {1}, {2}, {1, 2}}
  OBVIOUS
<1>5. {1} \ {1} = {} /\ {2} \ {2} = {} /\ {1, 2} \ {2} = {1}
  OBVIOUS
<1>6. {1} # {} /\ {2} # {} /\ {1, 2} # {} /\ {1} # {2} /\ {1} # {1, 2} /\ {2} # {1, 2}
  OBVIOUS
<1>7. {} \in SUBSET (DOMAIN ws) /\ {1} \in SUBSET (DOMAIN ws) /\ {1, 2} \in SUBSET (DOMAIN ws)
  BY <1>1
<1>8. \E g : g = Iter(g)
  <2> DEFINE g == [s \in SUBSET (DOMAIN ws) |->
                    IF s = {} THEN f ELSE IF s = {1} THEN Write(f, v)
                    ELSE IF s = {2} THEN Write(f, w) ELSE Write(Write(f, v), w)]
  <2>1. ASSUME NEW s \in SUBSET (DOMAIN ws) PROVE g[s] = Step(g, s)
    <3>1. s \in {{}, {1}, {2}, {1, 2}}
      BY <1>1, <1>4
    <3> QED
      BY <3>1, <1>1, <1>5, <1>6, <1>7, MaxSmall
  <2>2. g = Iter(g)
    BY <2>1
  <2> QED
    BY <2>2
<1>9. iter = Iter(iter)
  BY <1>8
<1> HIDE DEF iter
<1>10. \A s \in SUBSET (DOMAIN ws) : iter[s] = Step(iter, s)
  BY <1>9
<1>11. iter[{}] = f
  BY <1>10, <1>7
<1>12. iter[{1}] = Write(f, v)
  BY <1>10, <1>11, <1>7, <1>1, <1>5, <1>6, MaxSmall
<1>13. iter[{1, 2}] = Write(Write(f, v), w)
  BY <1>10, <1>12, <1>7, <1>1, <1>5, <1>6, MaxSmall
<1> QED
  BY <1>1, <1>2, <1>3, <1>13
-----------------------------------------------------------------------------
(***************************************************************************)
(* Write, one kind of write at a time.                                     *)
(***************************************************************************)
LEMMA FileIs == File = [header : Header, metadata : [Slots -> Entry], contents : Seq(Content \cup {Torn}),
                       intact : BOOLEAN]
  BY DEF File, Header, Entry, Content, Slots, Proc!File, Proc!Header, Proc!Entry, Proc!Content,
         Proc!Slots

LEMMA HeaderWritten ==
    ASSUME NEW f \in File, NEW w \in HeaderWrites
    PROVE  Write(f, w) = [f EXCEPT !.header = w.value] /\ Write(f, w) \in File
  BY FileIs DEF Write, HeaderWrites

LEMMA EntryWritten ==
    ASSUME NEW f \in File, NEW w \in EntryWrites
    PROVE  Write(f, w) = [f EXCEPT !.metadata[w.at] = w.value] /\ Write(f, w) \in File
  BY FileIs DEF Write, EntryWrites

\* A blob goes over another, or behind the last.
LEMMA BlobWritten ==
    ASSUME NEW f \in File, NEW at \in Nat \ {0}, NEW b \in Content \cup {Torn}
    PROVE  LET g == Write(f, BlobWrite(at, b))
           IN  /\ g \in File /\ g.header = f.header /\ g.metadata = f.metadata
               /\ at <= Len(f.contents) => Len(g.contents) = Len(f.contents)
               /\ at > Len(f.contents) =>
                    g.contents = Append(f.contents, b) /\ Len(g.contents) = Len(f.contents) + 1
<1> DEFINE w == BlobWrite(at, b)
           g == Write(f, w)
<1>1. w.to = "blob" /\ w.at = at /\ w.value = b
  BY DEF BlobWrite
<1>2. f.contents \in Seq(Content \cup {Torn}) /\ DOMAIN f.contents = 1 .. Len(f.contents)
      /\ Len(f.contents) \in Nat
  BY FileIs
<1> HIDE DEF w
<1>3. CASE at <= Len(f.contents)
  <2> DEFINE cs == [f.contents EXCEPT ![at] = b]
  <2>1. g = [f EXCEPT !.contents = cs]
    BY <1>1, <1>2, <1>3 DEF Write
  <2>2. cs \in Seq(Content \cup {Torn}) /\ Len(cs) = Len(f.contents)
    BY <1>2, <1>3, ExceptSeq
  <2> HIDE DEF cs, g
  <2>3. g \in File /\ g.header = f.header /\ g.metadata = f.metadata /\ g.contents = cs
    BY <2>1, <2>2, FileIs
  <2> QED
    BY <2>2, <2>3, <1>3, <1>2 DEF g, w
<1>4. CASE at > Len(f.contents)
  <2> DEFINE cs == Append(f.contents, b)
  <2>1. g = [f EXCEPT !.contents = cs]
    BY <1>1, <1>2, <1>4 DEF Write
  <2>2. cs \in Seq(Content \cup {Torn})
    BY <1>2
  <2> HIDE DEF cs, g
  <2>3. g \in File /\ g.header = f.header /\ g.metadata = f.metadata /\ g.contents = cs
    BY <2>1, <2>2, FileIs
  <2> QED
    BY <2>3, <1>4, <1>2 DEF g, w, cs
<1> QED
  BY <1>2, <1>3, <1>4
-----------------------------------------------------------------------------
(***************************************************************************)
(* The file as a process sees it.                                          *)
(***************************************************************************)
LEMMA OneOf ==
    ASSUME NEW S, NEW ws \in Seq(S)
    PROVE  /\ Len(ws) = 1 => ws = <<ws[1]>>
           /\ Len(ws) = 2 => ws = <<ws[1], ws[2]>>
  OBVIOUS

LEMMA Shapes ==
    ASSUME TypesInv, NEW p \in Procs
    PROVE
      \/ /\ pending[p] = <<>> /\ View(p) = disk
         /\ pc[p] \in {"idle", "return", "open", "insert_header"}
      \/ \E w \in EntryWrites :
            /\ pending[p] = <<w>> /\ View(p) = Write(disk, w)
            /\ pc[p] \in {"idle", "return", "insert_header"}
      \/ \E w \in BlobWrites(Len(disk.contents) + 1) :
            /\ pending[p] = <<w>> /\ View(p) = Write(disk, w)
            /\ pc[p] \in {"insert_header", "resize_header"}
      \/ \E w \in HeaderWrites :
            /\ pending[p] = <<w>> /\ View(p) = Write(disk, w)
            /\ pc[p] \in {"insert_entry", "delete_entry"}
      \/ \E v \in HeaderWrites, w \in EntryWrites :
            /\ pending[p] = <<v, w>> /\ View(p) = Write(Write(disk, v), w)
            /\ pc[p] = "read_fetch"
<1> DEFINE ws == pending[p]
<1>1. ws \in Seq(Writes) /\ Buffered(p)
  BY DEF TypesInv, Local
<1>2. /\ Len(ws) = 1 => ws = <<ws[1]>>
      /\ Len(ws) = 2 => ws = <<ws[1], ws[2]>>
  BY <1>1, OneOf
<1>3. /\ ws = <<>> => View(p) = disk
      /\ Len(ws) = 1 => View(p) = Write(disk, ws[1])
      /\ Len(ws) = 2 => View(p) = Write(Write(disk, ws[1]), ws[2])
  BY <1>2, WrittenNone, WrittenOne, WrittenTwo DEF View
<1> QED
  BY <1>1, <1>2, <1>3 DEF Buffered

\* A FILE never shows less than the file holds.
LEMMA ViewTypes ==
    ASSUME TypesInv, NEW p \in Procs
    PROVE  /\ View(p) \in File
           /\ Len(disk.contents) \in Nat /\ Len(View(p).contents) \in Nat
           /\ Len(View(p).contents) >= Len(disk.contents)
<1> USE FileIs
<1>1. disk \in File /\ disk.contents \in Seq(Content \cup {Torn})
  BY DEF TypesInv
<1>2. ASSUME NEW w \in EntryWrites, View(p) = Write(disk, w) PROVE View(p) \in File /\ View(p).contents = disk.contents
  BY <1>1, <1>2, EntryWritten
<1>3. ASSUME NEW w \in BlobWrites(Len(disk.contents) + 1), View(p) = Write(disk, w)
      PROVE  View(p) \in File /\ Len(View(p).contents) >= Len(disk.contents)
  <2>1. w = BlobWrite(w.at, w.value) /\ w.at \in Nat \ {0} /\ w.value \in Content \cup {Torn}
    BY <1>1 DEF BlobWrites, BlobWrite
  <2>2. View(p) = Write(disk, BlobWrite(w.at, w.value))
    BY <1>3, <2>1
  <2>3. Len(disk.contents) \in Nat
    BY <1>1
  <2> QED
    BY <1>1, <2>1, <2>2, <2>3, BlobWritten
<1>4. ASSUME NEW w \in HeaderWrites, View(p) = Write(disk, w)
      PROVE  View(p) \in File /\ View(p).contents = disk.contents
  BY <1>1, <1>4, HeaderWritten
<1>5. ASSUME NEW v \in HeaderWrites, NEW w \in EntryWrites, View(p) = Write(Write(disk, v), w)
      PROVE  View(p) \in File /\ View(p).contents = disk.contents
  <2>1. Write(disk, v) \in File /\ Write(disk, v).contents = disk.contents
    BY <1>1, HeaderWritten
  <2> QED
    BY <1>5, <2>1, EntryWritten
<1> QED
  BY <1>1, <1>2, <1>3, <1>4, <1>5, Shapes
-----------------------------------------------------------------------------
(***************************************************************************)
(* Types.                                                                  *)
(***************************************************************************)
\* What the processes share of Imgfs is the same for each.
LEMMA TypesAre ==
    /\ Slots = 0 .. MaxFiles - 1
    /\ NoSlot = MaxFiles /\ NoSlot \notin Slots
    /\ Resolutions = Resized \cup {"orig"}
    /\ Content = [img : Images, res : Resolutions]
    /\ Header = [version : 0 .. VersionModulus - 1, nb_files : 0 .. MaxFiles]
    /\ Entry = [img_id : ImgIds \cup {EmptyId}, SHA : Images \cup NonImages \cup {NoImage},
                offset : [Resolutions -> Nat], is_valid : BOOLEAN]
  BY SharedAssumption
     DEF Slots, NoSlot, Resolutions, Content, Header, Entry, Proc!Slots, Proc!NoSlot,
         Proc!Resolutions, Proc!Content, Proc!Header, Proc!Entry

\* The counters stay those of a header.
LEMMA CountersTypes ==
    ASSUME NEW p, NEW h \in Header
    PROVE  /\ h.nb_files < MaxFiles => Proc(p)!Inserted(h) \in Header
           /\ h.nb_files # 0 => Proc(p)!Deleted(h) \in Header
<1>1. /\ MaxFiles \in Nat \ {0} /\ VersionModulus \in Nat \ {0}
      /\ h.version \in 0 .. VersionModulus - 1 /\ h.nb_files \in 0 .. MaxFiles
  BY TypesAre, SharedAssumption
<1>2. Proc(p)!NextVersion(h.version) \in 0 .. VersionModulus - 1
  BY <1>1 DEF Proc!NextVersion
<1>3. h.nb_files < MaxFiles => h.nb_files + 1 \in 0 .. MaxFiles
  BY <1>1
<1>4. h.nb_files # 0 => h.nb_files - 1 \in 0 .. MaxFiles
  BY <1>1
<1> QED
  BY <1>2, <1>3, <1>4, TypesAre DEF Proc!Inserted, Proc!Deleted

LEMMA ProcIs ==
    ASSUME NEW p
    PROVE  /\ Proc(p)!Slots = Slots /\ Proc(p)!NoSlot = NoSlot
           /\ Proc(p)!Resolutions = Resolutions
  BY DEF Slots, NoSlot, Resolutions, Proc!Slots, Proc!NoSlot, Proc!Resolutions

LEMMA CallsAre ==
    Calls = [op : {"none", "insert", "delete", "read", "STDOUT", "JSON"},
             id : ImgIds \cup {EmptyId}, img : Images \cup NonImages \cup {NoImage},
             res : Resolutions,
             ret : {"ERR_NONE", "ERR_IO", "ERR_IMGFS_FULL", "ERR_IMGLIB", "ERR_DUPLICATE_ID",
                    "ERR_IMAGE_NOT_FOUND", "ERR_INVALID_IMGID"} \cup {"pending"},
             data : Content \cup {Torn, NoImage}, ids : SUBSET (ImgIds \cup {EmptyId})]
  BY DEF Calls, Content, Resolutions, Proc!Calls, Proc!Results, Proc!Content, Proc!Resolutions

LEMMA EmptyTypes == EmptyFile \in File /\ NoCall \in Calls /\ EmptyFile.contents = <<>>
<1> DEFINE e == Proc(One)!EmptyEntry
<1>1. Proc(One)!EmptyHeader \in Header
  BY TypesAre, SharedAssumption DEF Proc!EmptyHeader
<1>2. e \in Entry
  BY ProcIs, TypesAre DEF Proc!EmptyEntry, Proc!NoOffsets
<1> HIDE DEF e
<1>3. Proc(One)!EmptyMetadata \in [Slots -> Entry]
  BY <1>2, ProcIs DEF Proc!EmptyMetadata, e
<1>4. <<>> \in Seq(Content \cup {Torn})
  OBVIOUS
<1>5. EmptyFile \in File /\ EmptyFile.contents = <<>>
  BY <1>1, <1>3, <1>4, FileIs DEF EmptyFile, Proc!EmptyFile
<1>6. NoCall \in Calls
  BY CallsAre, TypesAre DEF NoCall, Proc!NoCall
<1> QED
  BY <1>5, <1>6

LEMMA RequestTypes ==
    ASSUME NEW p
    PROVE  /\ \A id \in ImgIds, img \in Images :
                /\ Proc(p)!InsertCall(id, img) \in Calls
                /\ Proc(p)!InsertCall(id, img).op = "insert"
           /\ \A id \in ImgIds :
                Proc(p)!DeleteCall(id) \in Calls /\ Proc(p)!DeleteCall(id).op = "delete"
           /\ \A id \in ImgIds, res \in Resolutions :
                LET c == Proc(p)!ReadCall(id, res)
                IN  c \in Calls /\ c.op = "read" /\ c.id = id /\ c.res = res
  BY CallsAre, TypesAre
     DEF Proc!InsertCall, Proc!DeleteCall, Proc!ReadCall, Proc!Call, Proc!NoCall
-----------------------------------------------------------------------------
\* A step of p leaves the other processes alone.
Apart(p) ==
    \A q \in Procs \ {p} :
        /\ mode'[q] = mode[q] /\ header'[q] = header[q] /\ metadata'[q] = metadata[q]
        /\ call'[q] = call[q] /\ slot'[q] = slot[q] /\ pc'[q] = pc[q]
        /\ pending'[q] = pending[q] /\ torn'[q] = torn[q]

\* The file never gets shorter.
Grows == disk' \in File /\ Len(disk'.contents) >= Len(disk.contents)

LEMMA TypesPreserved ==
    ASSUME TypesInv, NEW p \in Procs, Apart(p), Grows,
           mode' \in [Procs -> {"closed", "rb", "rb+"}],
           header' \in [Procs -> Header],
           metadata' \in [Procs -> [Slots -> Entry]],
           call' \in [Procs -> Calls],
           slot' \in [Procs -> Slots \cup {NoSlot}],
           pc' \in [Procs -> Pcs],
           pending' \in [Procs -> Seq(Writes)],
           stale' \in [Procs -> BOOLEAN], torn' \in [Procs -> BOOLEAN],
           inserted' \subseteq ImgIds \X Images,
           spoiled' \in BOOLEAN,
           crashes' \in 0 .. MaxCrashes, changes' \in 0 .. MaxChanges,
           Local(p)'
    PROVE  TypesInv'
<1>1. Len(disk.contents) \in Nat /\ Len(disk'.contents) \in Nat /\ Len(disk'.contents) >= Len(disk.contents)
  BY FileIs DEF TypesInv, Grows
<1>2. BlobWrites(Len(disk.contents) + 1) \subseteq BlobWrites(Len(disk'.contents) + 1)
  BY <1>1 DEF BlobWrites
<1>3. ASSUME NEW q \in Procs \ {p} PROVE Local(q)'
  BY <1>2 DEF TypesInv, Local, Buffered, Apart
<1>4. (\A q \in Procs : Local(q))'
  BY <1>3
<1> QED
  BY <1>4 DEF TypesInv, Grows, File, Header, Entry, Calls, Slots, NoSlot, Writes, HeaderWrites, EntryWrites, Content

LEMMA ContinueTypes ==
    ASSUME TypesInv, NEW p \in Procs, NEW c \in Calls, NEW i \in Slots \cup {NoSlot},
           NEW where \in Pcs, Continue(p, c, i, where)
    PROVE  /\ call' \in [Procs -> Calls] /\ call'[p] = c
           /\ slot' \in [Procs -> Slots \cup {NoSlot}] /\ slot'[p] = i
           /\ pc' \in [Procs -> Pcs] /\ pc'[p] = where
           /\ \A q \in Procs \ {p} : call'[q] = call[q] /\ slot'[q] = slot[q] /\ pc'[q] = pc[q]
  BY DEF TypesInv, Continue

LEMMA AnswerTypes ==
    ASSUME NEW c \in Calls, NEW data \in Content \cup {Torn, NoImage}
    PROVE  /\ [c EXCEPT !.ret = "ERR_NONE", !.data = data] \in Calls
           /\ [c EXCEPT !.ret = "ERR_IO"] \in Calls
  BY CallsAre

LEMMA BufferTypes ==
    ASSUME TypesInv, NEW p \in Procs, NEW ws \in Seq(Writes), Buffer(p, ws)
    PROVE  /\ pending' \in [Procs -> Seq(Writes)] /\ pending'[p] = ws
           /\ \A q \in Procs \ {p} : pending'[q] = pending[q]
  BY DEF TypesInv, Buffer

LEMMA ChangesTypes ==
    ASSUME TypesInv, NEW p \in Procs, Changes(p)
    PROVE  /\ mode' = mode /\ torn' = torn /\ crashes' = crashes
           /\ changes' \in 0 .. MaxChanges
           /\ stale' \in [Procs -> BOOLEAN] /\ spoiled' \in BOOLEAN
<1>1. mode' = mode /\ torn' = torn /\ crashes' = crashes
  BY DEF Changes
<1>2. changes' \in 0 .. MaxChanges
  BY SharedAssumption DEF Changes, TypesInv
<1>3. stale' \in [Procs -> BOOLEAN]
  BY DEF Changes, TypesInv
<1>4. spoiled' \in BOOLEAN
  BY DEF Changes, TypesInv
<1> QED
  BY <1>1, <1>2, <1>3, <1>4

LEMMA FlushGrows ==
    ASSUME TypesInv, NEW p \in Procs
    PROVE  /\ Flush(p) => disk' = View(p) /\ Grows
           /\ UNCHANGED disk => Grows
  BY ViewTypes DEF Flush, View, Grows, TypesInv

LEMMA WritesAre ==
    /\ \A h \in Header : HeaderWrite(h) \in HeaderWrites
    /\ \A i \in Slots, e \in Entry : EntryWrite(i, e) \in EntryWrites
    /\ \A n \in Nat : \A at \in 1 .. n, b \in Content :
            BlobWrite(at, b) \in BlobWrites(n) /\ BlobWrite(at, b) \in Writes
    /\ HeaderWrites \subseteq Writes /\ EntryWrites \subseteq Writes
  BY DEF HeaderWrite, EntryWrite, BlobWrite, HeaderWrites, EntryWrites, BlobWrites, Writes
-----------------------------------------------------------------------------
LEMMA InitTypes == Init => TypesInv
<1> SUFFICES ASSUME Init PROVE TypesInv
  OBVIOUS
<1>1. disk \in File /\ EmptyFile.header \in Header /\ EmptyFile.metadata \in [Slots -> Entry] /\ NoCall \in Calls
  BY EmptyTypes, FileIs DEF Init
<1>2. <<>> \in Seq(Writes) /\ "idle" \in Pcs
  BY DEF Pcs
<1>3. crashes \in 0 .. MaxCrashes /\ changes \in 0 .. MaxChanges
  BY SharedAssumption DEF Init
<1>4. \A p \in Procs : Local(p)
  BY DEF Init, Local, Buffered
<1> QED
  BY <1>1, <1>2, <1>3, <1>4 DEF Init, TypesInv

LEMMA OpenHeaderTypes ==
    ASSUME TypesInv, NEW p \in Procs, NEW m \in {"rb", "rb+"}, OpenHeader(p, m)
    PROVE  TypesInv' /\ Apart(p) /\ Grows
<1>1. disk.header \in Header /\ disk.metadata \in [Slots -> Entry] /\ "open" \in Pcs
  BY FileIs DEF TypesInv, Pcs
<1>2. pending[p] = <<>> /\ pc[p] = "idle" /\ slot[p] = NoSlot
  BY DEF OpenHeader, TypesInv, Local
<1>3. mode' \in [Procs -> {"closed", "rb", "rb+"}] /\ header' \in [Procs -> Header]
      /\ metadata' \in [Procs -> [Slots -> Entry]] /\ pc' \in [Procs -> Pcs] /\ stale' \in [Procs -> BOOLEAN]
  BY <1>1 DEF OpenHeader, TypesInv
<1>4. Local(p)'
  BY <1>2 DEF OpenHeader, TypesInv, Local, Buffered
<1>5. Apart(p) /\ Grows
  BY FlushGrows DEF OpenHeader, TypesInv, Apart
<1> QED
  BY <1>3, <1>4, <1>5, TypesPreserved DEF OpenHeader, TypesInv

\* However the reads are cut, the table is made of entries of the two.
Cut(table, old, new) ==
    \A i \in Slots :
        \/ table[i] = old[i]
        \/ table[i] = new[i]
        \/ table[i] = [new[i] EXCEPT !.img_id = old[i].img_id]

LEMMA CutTypes ==
    ASSUME NEW old \in [Slots -> Entry], NEW new \in [Slots -> Entry], NEW b \in Slots
    PROVE  /\ CutBefore(b, old, new) \in [Slots -> Entry] /\ Cut(CutBefore(b, old, new), old, new)
           /\ CutWithin(b, old, new) \in [Slots -> Entry] /\ Cut(CutWithin(b, old, new), old, new)
<1> USE TypesAre
<1>1. CutBefore(b, old, new) \in [Slots -> Entry]
  BY DEF CutBefore
<1>2. CutWithin(b, old, new) = [CutBefore(b, old, new) EXCEPT ![b] = [new[b] EXCEPT !.img_id = old[b].img_id]]
  <2>1. CutBefore(b, old, new)[b] = new[b]
    BY DEF CutBefore
  <2> QED
    BY <2>1, <1>1 DEF CutWithin
<1>3. [new[b] EXCEPT !.img_id = old[b].img_id] \in Entry
  OBVIOUS
<1>4. CutWithin(b, old, new) \in [Slots -> Entry]
  BY <1>1, <1>2, <1>3
<1>5. \A i \in Slots : CutBefore(b, old, new)[i] \in {old[i], new[i]}
  BY DEF CutBefore
<1>6. \A i \in Slots : CutWithin(b, old, new)[i] \in {CutBefore(b, old, new)[i], [new[i] EXCEPT !.img_id = old[i].img_id]}
  BY <1>1, <1>2
<1> QED
  BY <1>1, <1>4, <1>5, <1>6 DEF Cut

LEMMA OpenTableIs ==
    ASSUME TypesInv, NEW p \in Procs, OpenTable(p)
    PROVE  \E table \in [Slots -> Entry] :
                /\ metadata' = [metadata EXCEPT ![p] = table]
                /\ Cut(table, metadata[p], disk.metadata)
<1> DEFINE old == metadata[p]
           new == disk.metadata
<1>1. old \in [Slots -> Entry] /\ new \in [Slots -> Entry]
  BY FileIs DEF TypesInv
<1>2. PICK b \in Slots : \E table \in {CutBefore(b, old, new), CutWithin(b, old, new)} :
            metadata' = [metadata EXCEPT ![p] = table]
  BY DEF OpenTable
<1> HIDE DEF old, new
<1>3. PICK table \in {CutBefore(b, old, new), CutWithin(b, old, new)} :
            metadata' = [metadata EXCEPT ![p] = table]
  BY <1>2
<1>4. table \in [Slots -> Entry] /\ Cut(table, old, new)
  BY <1>1, CutTypes
<1> QED
  BY <1>3, <1>4 DEF old, new

LEMMA OpenTableTypes ==
    ASSUME TypesInv, NEW p \in Procs, OpenTable(p)
    PROVE  TypesInv' /\ Apart(p) /\ Grows
<1>1. metadata[p] \in [Slots -> Entry] /\ disk.metadata \in [Slots -> Entry] /\ "idle" \in Pcs
  BY FileIs DEF TypesInv, Pcs
<1>3. PICK table \in [Slots -> Entry] : metadata' = [metadata EXCEPT ![p] = table]
  BY OpenTableIs
<1>4. metadata' \in [Procs -> [Slots -> Entry]] /\ pc' \in [Procs -> Pcs] /\ torn' \in [Procs -> BOOLEAN]
  BY <1>1, <1>3 DEF OpenTable, TypesInv
<1>5. pending[p] = <<>> /\ pc[p] = "open" /\ slot[p] = NoSlot /\ mode[p] # "closed"
  BY DEF OpenTable, TypesInv, Local, Buffered
<1>6. Local(p)'
  BY <1>5 DEF OpenTable, TypesInv, Local, Buffered
<1>7. Apart(p) /\ Grows
  BY <1>3, FlushGrows DEF OpenTable, TypesInv, Apart
<1> QED
  BY <1>4, <1>6, <1>7, TypesPreserved DEF OpenTable, TypesInv

LEMMA ForgetTypes ==
    ASSUME TypesInv, NEW p \in Procs, Forget(p), Grows, crashes' \in 0 .. MaxCrashes
    PROVE  /\ TypesInv' /\ Apart(p)
           /\ mode'[p] = "closed" /\ pending'[p] = <<>> /\ pc'[p] = "idle"
<1>1. NoCall \in Calls /\ "idle" \in Pcs /\ EmptyFile.header \in Header
      /\ EmptyFile.metadata \in [Slots -> Entry] /\ <<>> \in Seq(Writes)
  BY EmptyTypes, FileIs DEF Pcs
<1>2. /\ call' \in [Procs -> Calls] /\ slot' \in [Procs -> Slots \cup {NoSlot}] /\ slot'[p] = NoSlot
      /\ pc' \in [Procs -> Pcs] /\ pc'[p] = "idle"
      /\ \A q \in Procs \ {p} : call'[q] = call[q] /\ slot'[q] = slot[q] /\ pc'[q] = pc[q]
  <2>1. NoSlot \in Slots \cup {NoSlot} /\ Continue(p, NoCall, NoSlot, "idle")
    BY DEF Forget
  <2>2. NoCall \in Calls /\ "idle" \in Pcs
    BY <1>1
  <2> QED
    BY <2>1, <2>2, ContinueTypes
<1>3. /\ pending' \in [Procs -> Seq(Writes)] /\ pending'[p] = <<>>
      /\ \A q \in Procs \ {p} : pending'[q] = pending[q]
  BY <1>1, BufferTypes DEF Forget
<1>4. /\ mode' \in [Procs -> {"closed", "rb", "rb+"}] /\ mode'[p] = "closed"
      /\ header' \in [Procs -> Header] /\ metadata' \in [Procs -> [Slots -> Entry]]
      /\ stale' \in [Procs -> BOOLEAN] /\ torn' \in [Procs -> BOOLEAN]
  BY <1>1 DEF Forget, TypesInv
<1>5. Apart(p)
  BY <1>2, <1>3 DEF Forget, Apart, TypesInv
<1>6. Local(p)'
  BY <1>2, <1>3, <1>4 DEF Local, Buffered
<1> QED
  BY <1>2, <1>3, <1>4, <1>5, <1>6, TypesPreserved DEF Forget, TypesInv

LEMMA CloseTypes ==
    ASSUME TypesInv, NEW p \in Procs, Close(p)
    PROVE  TypesInv' /\ Apart(p) /\ Grows
<1>1. Grows
  BY FlushGrows DEF Close
<1> QED
  BY <1>1, ForgetTypes DEF Close, TypesInv

LEMMA ShortPrefixes ==
    ASSUME NEW S, NEW ws \in Seq(S)
    PROVE  /\ SubSeq(ws, 1, 0) = <<>> /\ SubSeq(ws, 1, Len(ws)) = ws
           /\ Len(ws) > 0 => SubSeq(ws, 1, 1) = <<ws[1]>>
<1>1. SubSeq(ws, 1, 0) = <<>>
  BY SubSeqEmpty
<1>2. SubSeq(ws, 1, Len(ws)) = ws
  BY SubSeqFull
<1>3. Len(ws) > 0 => SubSeq(ws, 1, 1) = <<ws[1]>>
  <2> SUFFICES ASSUME Len(ws) > 0 PROVE SubSeq(ws, 1, 1) = <<ws[1]>>
    OBVIOUS
  <2> DEFINE s == SubSeq(ws, 1, 1)
  <2>1. s \in Seq(S) /\ Len(s) = 1 /\ s[1] = ws[1]
    OBVIOUS
  <2> HIDE DEF s
  <2>2. s = <<s[1]>>
    BY <2>1, OneOf
  <2> QED
    BY <2>1, <2>2 DEF s
<1> QED
  BY <1>1, <1>2, <1>3

\* What a process that dies has written: nothing, all, or a part of what it had
\* buffered.
LEMMA CrashWrites ==
    ASSUME TypesInv, NEW p \in Procs, Crash(p)
    PROVE  \/ disk' = disk
           \/ disk' = View(p)
           \/ \E v \in HeaderWrites : pc[p] = "read_fetch" /\ disk' = Write(disk, v)
           \/ \E w \in BlobWrites(Len(disk.contents) + 1) :
                pending[p] = <<w>> /\ disk' = Write(disk, BlobWrite(w.at, Torn))
<1>1. CASE \E n \in 0 .. Len(pending[p]) : disk' = Written(disk, SubSeq(pending[p], 1, n))
  <2>1. PICK n \in 0 .. Len(pending[p]) : disk' = Written(disk, SubSeq(pending[p], 1, n))
    BY <1>1
  <2>2. pending[p] \in Seq(Writes)
    BY DEF TypesInv
  <2>3. /\ SubSeq(pending[p], 1, 0) = <<>> /\ SubSeq(pending[p], 1, Len(pending[p])) = pending[p]
        /\ Len(pending[p]) > 0 => SubSeq(pending[p], 1, 1) = <<pending[p][1]>>
    BY <2>2, ShortPrefixes
  <2>4. CASE n = 0
    BY <2>1, <2>3, <2>4, WrittenNone
  <2>5. CASE n = Len(pending[p])
    BY <2>1, <2>3, <2>5 DEF View
  <2>6. CASE n # 0 /\ n # Len(pending[p])
    <3>1. Len(pending[p]) \in Nat /\ Len(pending[p]) > 1
      BY <2>2, <2>6
    <3>2. pending[p] # <<>> /\ \A w : pending[p] # <<w>>
      <4>1. pending[p] # <<>>
        BY <3>1
      <4>2. ASSUME NEW w, pending[p] = <<w>> PROVE FALSE
        <5>1. Len(<<w>>) = 1
          OBVIOUS
        <5>2. Len(pending[p]) = 1
          BY <4>2, <5>1, Zenon
        <5> QED
          BY <5>2, <3>1
      <4> QED
        BY <4>1, <4>2
    <3>3. Len(pending[p]) = 2 /\ pending[p][1] \in HeaderWrites /\ pc[p] = "read_fetch"
      <4>1. \E v \in HeaderWrites, w \in EntryWrites : pending[p] = <<v, w>> /\ pc[p] = "read_fetch"
        BY <3>2, Shapes
      <4> QED
        BY <4>1
    <3>4. n = 1
      BY <3>3, <2>6
    <3>5. SubSeq(pending[p], 1, n) = <<pending[p][1]>>
      BY <3>3, <3>4, <2>3
    <3>6. disk' = Write(disk, pending[p][1])
      BY <3>5, <2>1, WrittenOne
    <3> QED
      BY <3>3, <3>6
  <2> QED
    BY <2>4, <2>5, <2>6
<1>2. CASE \E w \in Range(pending[p]) :
            w.to = "blob" /\ disk' = Write(disk, BlobWrite(w.at, Torn))
  <2>1. PICK w \in Range(pending[p]) : w.to = "blob" /\ disk' = Write(disk, BlobWrite(w.at, Torn))
    BY <1>2
  <2>2. \A v \in HeaderWrites \cup EntryWrites : v.to # "blob"
    BY DEF HeaderWrites, EntryWrites
  <2>3. /\ pending[p] = <<>> => Range(pending[p]) = {}
        /\ \A v : pending[p] = <<v>> => Range(pending[p]) = {v}
        /\ \A u, v : pending[p] = <<u, v>> => Range(pending[p]) = {u, v}
    BY DEF Range
  <2> QED
    BY <2>1, <2>2, <2>3, Shapes
<1> QED
  BY <1>1, <1>2 DEF Crash

LEMMA CrashTypes ==
    ASSUME TypesInv, NEW p \in Procs, Crash(p)
    PROVE  TypesInv' /\ Apart(p) /\ Grows
<1>1. disk \in File /\ Len(disk.contents) \in Nat
  BY FileIs DEF TypesInv
<1>2. ASSUME NEW v \in HeaderWrites, disk' = Write(disk, v) PROVE Grows
  BY <1>1, <1>2, HeaderWritten, FileIs DEF Grows
<1>3. ASSUME NEW w \in BlobWrites(Len(disk.contents) + 1), disk' = Write(disk, BlobWrite(w.at, Torn))
      PROVE  Grows
  <2>1. w.at \in Nat \ {0}
    BY <1>1 DEF BlobWrites
  <2> QED
    BY <1>1, <1>3, <2>1, BlobWritten DEF Grows
<1>4. Grows
  BY <1>1, <1>2, <1>3, CrashWrites, ViewTypes DEF Grows
<1>5. crashes' \in 0 .. MaxCrashes
  BY SharedAssumption DEF Crash, TypesInv
<1> QED
  BY <1>4, <1>5, ForgetTypes DEF Crash

LEMMA ReturnTypes ==
    ASSUME TypesInv, NEW p \in Procs, Return(p)
    PROVE  TypesInv' /\ Apart(p) /\ Grows
<1>1. NoCall \in Calls /\ "idle" \in Pcs
  BY EmptyTypes DEF Pcs
<1>2. /\ call' \in [Procs -> Calls] /\ slot' \in [Procs -> Slots \cup {NoSlot}] /\ slot'[p] = NoSlot
      /\ pc' \in [Procs -> Pcs] /\ pc'[p] = "idle"
      /\ \A q \in Procs \ {p} : call'[q] = call[q] /\ slot'[q] = slot[q] /\ pc'[q] = pc[q]
  BY <1>1, ContinueTypes DEF Return
<1>3. Local(p)'
  BY <1>2 DEF Return, KeepsHistory, Local, Buffered, TypesInv
<1>4. Apart(p) /\ Grows
  BY <1>2, FlushGrows DEF Return, KeepsHistory, Apart
<1> QED
  BY <1>2, <1>3, <1>4, TypesPreserved DEF Return, KeepsHistory, TypesInv

(***************************************************************************)
(* do_insert(), as the proofs use it: the slot it fills, and the offsets   *)
(* of the copy it found, if it found one.                                  *)
(***************************************************************************)
FreshEntry(id, img, offset) == [img_id |-> id, SHA |-> img, is_valid |-> TRUE, offset |-> offset]
Original(img) == [img |-> img, res |-> "orig"]

Appends(p, i, id, img, offset) ==
    /\ offset["orig"] = 0 /\ Flush(p)
    /\ Buffer(p, <<BlobWrite(EndOf(p, disk'), Original(img))>>)
    /\ metadata' = [metadata EXCEPT ![p][i] =
            FreshEntry(id, img, [offset EXCEPT !["orig"] = EndOf(p, disk')])]
Copies(p, i, id, img, offset) ==
    /\ offset["orig"] # 0 /\ UNCHANGED <<disk, pending>>
    /\ metadata' = [metadata EXCEPT ![p][i] = FreshEntry(id, img, offset)]
    /\ \E j \in Slots : /\ metadata[p][j].is_valid /\ metadata[p][j].SHA = img
                        /\ offset = metadata[p][j].offset
Inserts(p, i, id, img, offset) ==
    /\ pc[p] = "idle" /\ mode[p] = "rb+" /\ header[p].nb_files < MaxFiles
    /\ ~metadata[p][i].is_valid
    /\ \A j \in Slots : metadata[p][j].is_valid => metadata[p][j].img_id # id
    /\ \/ offset = [r \in Resolutions |-> 0]
       \/ \E j \in Slots : /\ metadata[p][j].is_valid /\ metadata[p][j].SHA = img
                           /\ offset = metadata[p][j].offset
    /\ header' = [header EXCEPT ![p] = Proc(p)!Inserted(@)]
    /\ Continue(p, Proc(p)!InsertCall(id, img), i, "insert_header")
    /\ inserted' = inserted \cup {<<id, img>>}
    /\ Changes(p)
    /\ Appends(p, i, id, img, offset) \/ Copies(p, i, id, img, offset)

LEMMA InsertIs ==
    ASSUME TypesInv, NEW p \in Procs, NEW id \in ImgIds, NEW img \in Images, Insert(p, id, img)
    PROVE  \E i \in Slots : \E offset \in [Resolutions -> Nat] : Inserts(p, i, id, img, offset)
<1> USE ProcIs
<1> DEFINE Body(i, offset) ==
        /\ Proc(p)!Acceptable(i, id, img)
        /\ LET new == offset["orig"] = 0
               at == IF new THEN EndOf(p, disk') ELSE offset["orig"]
           IN  /\ IF new THEN Flush(p) ELSE UNCHANGED disk
               /\ IF new
                  THEN Buffer(p, <<BlobWrite(at, [img |-> img, res |-> "orig"])>>)
                  ELSE UNCHANGED pending
               /\ metadata' = [metadata EXCEPT ![p][i] =
                    [img_id |-> id, SHA |-> img, is_valid |-> TRUE,
                     offset |-> [offset EXCEPT !["orig"] = at]]]
        /\ header' = [header EXCEPT ![p] = Proc(p)!Inserted(@)]
        /\ Continue(p, Proc(p)!InsertCall(id, img), i, "insert_header")
<1>1. PICK i \in Slots : \E offset \in Proc(p)!DedupOffsets(i, id, img) : Body(i, offset)
  BY DEF Insert
<1>2. PICK offset \in Proc(p)!DedupOffsets(i, id, img) : Body(i, offset)
  BY <1>1
<1>3. /\ pc[p] = "idle" /\ mode[p] = "rb+" /\ header[p].nb_files < MaxFiles
      /\ ~metadata[p][i].is_valid
      /\ \A j \in Slots : metadata[p][j].is_valid => metadata[p][j].img_id # id
  BY <1>2 DEF Proc!Acceptable, Proc!Insertable, Proc!Idle, Proc!Writable, Proc!HasRoom, Proc!FirstOf,
              Proc!FreeSlots, Proc!ValidSlots, Proc!Namesakes
<1>4. \/ offset = [r \in Resolutions |-> 0]
      \/ \E j \in Slots : /\ metadata[p][j].is_valid /\ metadata[p][j].SHA = img
                          /\ offset = metadata[p][j].offset
  BY <1>2 DEF Proc!DedupOffsets, Proc!Copies, Proc!LastOf, Proc!ValidSlots, Proc!NoOffsets
<1>5. "orig" \in Resolutions
  BY TypesAre
<1>6. \A e \in Entry : e.offset \in [Resolutions -> Nat]
  BY TypesAre
<1>7. offset \in [Resolutions -> Nat]
  BY <1>4, <1>6 DEF TypesInv
<1>8. ASSUME offset["orig"] = 0 PROVE Appends(p, i, id, img, offset)
  BY <1>2, <1>8 DEF Appends, FreshEntry, Original
<1>9. ASSUME offset["orig"] # 0 PROVE Copies(p, i, id, img, offset)
  <2>1. [offset EXCEPT !["orig"] = offset["orig"]] = offset
    BY <1>7
  <2>2. metadata' = [metadata EXCEPT ![p][i] = FreshEntry(id, img, offset)] /\ UNCHANGED <<disk, pending>>
    BY <1>2, <1>9, <2>1 DEF FreshEntry
  <2> QED
    BY <1>4, <1>5, <1>9, <2>2 DEF Copies
<1>10. Appends(p, i, id, img, offset) \/ Copies(p, i, id, img, offset)
  BY <1>8, <1>9
<1>11. Inserts(p, i, id, img, offset)
  BY <1>2, <1>3, <1>4, <1>10 DEF Insert, Inserts
<1> QED
  BY <1>7, <1>11

\* The entry do_insert() makes, and what it leaves of the rest of the table.
LEMMA TableTypes ==
    ASSUME TypesInv, NEW p \in Procs, NEW i \in Slots, NEW e \in Entry,
           metadata' = [metadata EXCEPT ![p][i] = e]
    PROVE  /\ metadata' \in [Procs -> [Slots -> Entry]]
           /\ \A q \in Procs \ {p} : metadata'[q] = metadata[q]
           /\ metadata'[p][i] = e
           /\ \A j \in Slots \ {i} : metadata'[p][j] = metadata[p][j]
  BY DEF TypesInv

LEMMA InsertTypes ==
    ASSUME TypesInv, NEW p \in Procs, NEW id \in ImgIds, NEW img \in Images, Insert(p, id, img)
    PROVE  TypesInv' /\ Apart(p) /\ Grows
<1>1. PICK i \in Slots, offset \in [Resolutions -> Nat] : Inserts(p, i, id, img, offset)
  BY InsertIs
<1>2. Grows
  BY <1>1, FlushGrows DEF Inserts, Appends, Copies
<1>3. Len(disk'.contents) \in Nat
  BY <1>2, FileIs DEF Grows
<1> DEFINE at == EndOf(p, disk')
           w == BlobWrite(at, Original(img))
<1>4. at \in 1 .. Len(disk'.contents) + 1 /\ at \in Nat
  BY <1>3 DEF EndOf
<1>20. \/ Buffer(p, <<w>>) /\ metadata' = [metadata EXCEPT ![p][i] = FreshEntry(id, img, [offset EXCEPT !["orig"] = at])]
       \/ UNCHANGED <<disk, pending>> /\ metadata' = [metadata EXCEPT ![p][i] = FreshEntry(id, img, offset)]
  BY <1>1 DEF Inserts, Appends, Copies
<1> HIDE DEF at, w
<1>5. [offset EXCEPT !["orig"] = at] \in [Resolutions -> Nat]
  BY <1>4
<1>6. \A o \in [Resolutions -> Nat] : FreshEntry(id, img, o) \in Entry
  BY TypesAre DEF FreshEntry
<1>7. /\ metadata' \in [Procs -> [Slots -> Entry]]
      /\ \A q \in Procs \ {p} : metadata'[q] = metadata[q]
  BY <1>20, <1>5, <1>6, TableTypes
<1>8. Original(img) \in Content
  BY TypesAre DEF Original
<1>9. w \in BlobWrites(Len(disk'.contents) + 1) /\ w \in Writes
  BY <1>3, <1>4, <1>8, WritesAre DEF w
<1>21. <<w>> \in Seq(Writes) /\ Len(<<w>>) = 1 /\ <<w>>[1] = w
  BY <1>9
<1>10. /\ pending' \in [Procs -> Seq(Writes)]
       /\ \A q \in Procs \ {p} : pending'[q] = pending[q]
  <2>1. CASE UNCHANGED pending
    BY <2>1 DEF TypesInv
  <2>2. CASE Buffer(p, <<w>>)
    BY <2>2, <1>21, BufferTypes
  <2> QED
    BY <1>20, <2>1, <2>2
<1>11. /\ call' \in [Procs -> Calls] /\ slot' \in [Procs -> Slots \cup {NoSlot}] /\ slot'[p] = i
       /\ pc' \in [Procs -> Pcs] /\ pc'[p] = "insert_header"
       /\ \A q \in Procs \ {p} : call'[q] = call[q] /\ slot'[q] = slot[q] /\ pc'[q] = pc[q]
  BY <1>1, RequestTypes, ContinueTypes DEF Inserts, Pcs
<1>12. Proc(p)!Inserted(header[p]) \in Header
  BY <1>1, CountersTypes DEF Inserts, TypesInv
<1>13. header' \in [Procs -> Header] /\ \A q \in Procs \ {p} : header'[q] = header[q]
  BY <1>1, <1>12 DEF Inserts, TypesInv
<1>14. mode' = mode /\ torn' = torn /\ crashes' = crashes /\ changes' \in 0 .. MaxChanges
       /\ stale' \in [Procs -> BOOLEAN] /\ spoiled' \in BOOLEAN
  BY <1>1, ChangesTypes DEF Inserts
<1>15. inserted' \subseteq ImgIds \X Images
  BY <1>1 DEF Inserts, TypesInv
<1>16. Apart(p)
  BY <1>7, <1>10, <1>11, <1>13, <1>14 DEF Apart
<1>17. Local(p)'
  <2>1. Buffered(p)'
    <3>1. CASE Buffer(p, <<w>>)
      <4>1. pending'[p] = <<w>>
        BY <3>1, <1>21, BufferTypes
      <4> QED
        BY <4>1, <1>9, <1>11, <1>21 DEF Buffered
    <3>2. CASE UNCHANGED <<disk, pending>>
      BY <3>2, <1>1, <1>11 DEF Buffered, TypesInv, Local, Inserts
    <3> QED
      BY <1>20, <3>1, <3>2
  <2>2. mode'[p] # "closed"
    BY <1>1, <1>14 DEF Inserts
  <2> QED
    BY <2>1, <2>2, <1>11, TypesAre DEF Local
<1> QED
  BY <1>2, <1>7, <1>10, <1>11, <1>13, <1>14, <1>15, <1>16, <1>17, TypesPreserved DEF TypesInv

LEMMA WriteHeaderTypes ==
    ASSUME TypesInv, NEW p \in Procs, WriteHeader(p, "insert_header", "insert_entry")
    PROVE  TypesInv' /\ Apart(p) /\ Grows
<1> DEFINE w == HeaderWrite(header[p])
<1>1. w \in HeaderWrites /\ w \in Writes
  BY WritesAre DEF TypesInv
<1> HIDE DEF w
<1>2. <<w>> \in Seq(Writes) /\ Len(<<w>>) = 1 /\ <<w>>[1] = w
  BY <1>1
<1>3. pending' \in [Procs -> Seq(Writes)] /\ pending'[p] = <<w>>
      /\ \A q \in Procs \ {p} : pending'[q] = pending[q]
  BY <1>2, BufferTypes DEF WriteHeader, w
<1>4. /\ call' \in [Procs -> Calls] /\ slot' \in [Procs -> Slots \cup {NoSlot}] /\ slot'[p] = slot[p]
      /\ pc' \in [Procs -> Pcs] /\ pc'[p] = "insert_entry"
      /\ \A q \in Procs \ {p} : call'[q] = call[q] /\ slot'[q] = slot[q] /\ pc'[q] = pc[q]
  BY ContinueTypes DEF WriteHeader, Pcs, TypesInv
<1>5. Grows /\ Apart(p)
  BY <1>3, <1>4, FlushGrows DEF WriteHeader, KeepsHistory, Apart
<1>6. Buffered(p)'
  BY <1>1, <1>2, <1>3, <1>4 DEF Buffered
<1>7. slot[p] # NoSlot /\ mode[p] # "closed"
  BY DEF WriteHeader, TypesInv, Local
<1>8. Local(p)'
  BY <1>4, <1>6, <1>7 DEF Local, WriteHeader, KeepsHistory
<1> QED
  BY <1>3, <1>4, <1>5, <1>8, TypesPreserved DEF WriteHeader, KeepsHistory, TypesInv

LEMMA WriteEntryTypes ==
    ASSUME TypesInv, NEW p \in Procs, NEW from \in {"insert_entry", "delete_entry"},
           WriteEntry(p, from)
    PROVE  TypesInv' /\ Apart(p) /\ Grows
<1> DEFINE w == EntryWrite(slot[p], metadata[p][slot[p]])
<1>1. slot[p] \in Slots /\ mode[p] # "closed"
  BY DEF WriteEntry, TypesInv, Local
<1>2. w \in EntryWrites /\ w \in Writes
  BY <1>1, WritesAre DEF TypesInv
<1> HIDE DEF w
<1>3. <<w>> \in Seq(Writes) /\ Len(<<w>>) = 1 /\ <<w>>[1] = w
  BY <1>2
<1>4. pending' \in [Procs -> Seq(Writes)] /\ pending'[p] = <<w>>
      /\ \A q \in Procs \ {p} : pending'[q] = pending[q]
  BY <1>3, BufferTypes DEF WriteEntry, w
<1>5. [call[p] EXCEPT !.ret = "ERR_NONE", !.data = NoImage] \in Calls
  BY AnswerTypes DEF TypesInv
<1>6. /\ call' \in [Procs -> Calls] /\ slot' \in [Procs -> Slots \cup {NoSlot}] /\ slot'[p] = NoSlot
      /\ pc' \in [Procs -> Pcs] /\ pc'[p] = "return"
      /\ \A q \in Procs \ {p} : call'[q] = call[q] /\ slot'[q] = slot[q] /\ pc'[q] = pc[q]
  BY <1>5, ContinueTypes DEF WriteEntry, Answer, Pcs
<1>7. Grows /\ Apart(p)
  BY <1>4, <1>6, FlushGrows DEF WriteEntry, KeepsHistory, Apart
<1>8. Buffered(p)'
  BY <1>2, <1>3, <1>4, <1>6 DEF Buffered
<1>9. Local(p)'
  BY <1>1, <1>6, <1>8 DEF Local, WriteEntry, KeepsHistory
<1> QED
  BY <1>4, <1>6, <1>7, <1>9, TypesPreserved DEF WriteEntry, KeepsHistory, TypesInv

\* do_delete(), as the proofs use it: the slot it clears.
Deletes(p, i, id) ==
    /\ pc[p] = "idle" /\ mode[p] = "rb+" /\ header[p].nb_files # 0
    /\ metadata[p][i].is_valid /\ metadata[p][i].img_id = id
    /\ metadata' = [metadata EXCEPT ![p][i] = [metadata[p][i] EXCEPT !.is_valid = FALSE]]
    /\ Continue(p, Proc(p)!DeleteCall(id), i, "delete_entry")
    /\ header' = [header EXCEPT ![p] = Proc(p)!Deleted(@)]
    /\ Flush(p)
    /\ Buffer(p, <<HeaderWrite(header'[p])>>)
    /\ Changes(p) /\ UNCHANGED inserted

LEMMA DeleteIs ==
    ASSUME TypesInv, NEW p \in Procs, NEW id \in ImgIds, Delete(p, id)
    PROVE  \E i \in Slots : Deletes(p, i, id)
<1> DEFINE Body(i) ==
        /\ metadata[p][i].is_valid
        /\ metadata' = [metadata EXCEPT ![p][i].is_valid = FALSE]
        /\ Continue(p, Proc(p)!DeleteCall(id), i, "delete_entry")
<1>1. PICK i \in Proc(p)!FirstOf(Proc(p)!Named(id)) : Body(i)
  BY DEF Delete
<1>2. i \in Slots /\ metadata[p][i].img_id = id
  BY <1>1, ProcIs DEF Proc!FirstOf, Proc!Named
<1>3. metadata' = [metadata EXCEPT ![p][i] = [metadata[p][i] EXCEPT !.is_valid = FALSE]]
  BY <1>1
<1>4. pc[p] = "idle" /\ mode[p] = "rb+" /\ header[p].nb_files # 0
  BY DEF Delete, Proc!Idle, Proc!Writable, Proc!CountsNone
<1> QED
  BY <1>1, <1>2, <1>3, <1>4 DEF Delete, Deletes

LEMMA DeleteTypes ==
    ASSUME TypesInv, NEW p \in Procs, NEW id \in ImgIds, Delete(p, id)
    PROVE  TypesInv' /\ Apart(p) /\ Grows
<1>1. PICK i \in Slots : Deletes(p, i, id)
  BY DeleteIs
<1>2. [metadata[p][i] EXCEPT !.is_valid = FALSE] \in Entry
  <2>1. metadata[p][i] \in Entry
    BY DEF TypesInv
  <2> QED
    BY <2>1, TypesAre
<1>3. metadata' \in [Procs -> [Slots -> Entry]] /\ \A q \in Procs \ {p} : metadata'[q] = metadata[q]
  BY <1>1, <1>2, TableTypes DEF Deletes
<1>4. Proc(p)!Deleted(header[p]) \in Header
  BY <1>1, CountersTypes DEF Deletes, TypesInv
<1>5. header' \in [Procs -> Header] /\ \A q \in Procs \ {p} : header'[q] = header[q]
  BY <1>1, <1>4 DEF Deletes, TypesInv
<1> DEFINE w == HeaderWrite(header'[p])
<1>6. w \in HeaderWrites /\ w \in Writes
  BY <1>5, WritesAre
<1> HIDE DEF w
<1>7. <<w>> \in Seq(Writes) /\ Len(<<w>>) = 1 /\ <<w>>[1] = w
  BY <1>6
<1>8. pending' \in [Procs -> Seq(Writes)] /\ pending'[p] = <<w>>
      /\ \A q \in Procs \ {p} : pending'[q] = pending[q]
  BY <1>1, <1>7, BufferTypes DEF Deletes, w
<1>9. /\ call' \in [Procs -> Calls] /\ slot' \in [Procs -> Slots \cup {NoSlot}] /\ slot'[p] = i
      /\ pc' \in [Procs -> Pcs] /\ pc'[p] = "delete_entry"
      /\ \A q \in Procs \ {p} : call'[q] = call[q] /\ slot'[q] = slot[q] /\ pc'[q] = pc[q]
  BY <1>1, RequestTypes, ContinueTypes DEF Deletes, Pcs
<1>10. mode' = mode /\ torn' = torn /\ crashes' = crashes /\ changes' \in 0 .. MaxChanges
       /\ stale' \in [Procs -> BOOLEAN] /\ spoiled' \in BOOLEAN
  BY <1>1, ChangesTypes DEF Deletes
<1>11. Grows /\ Apart(p)
  BY <1>1, <1>3, <1>5, <1>8, <1>9, <1>10, FlushGrows DEF Deletes, Apart
<1>12. Buffered(p)'
  BY <1>6, <1>7, <1>8, <1>9 DEF Buffered
<1>13. Local(p)'
  BY <1>1, <1>9, <1>10, <1>12, TypesAre DEF Local, Deletes
<1> QED
  BY <1>1, <1>3, <1>5, <1>8, <1>9, <1>10, <1>11, <1>13, TypesPreserved DEF Deletes, TypesInv

LEMMA FetchTypes ==
    ASSUME TypesInv, NEW p \in Procs, NEW c \in Calls, NEW offset \in Nat,
           mode[p] # "closed", Fetch(p, c, offset)
    PROVE  TypesInv' /\ Apart(p) /\ Grows
<1>1. Grows
  BY FlushGrows DEF Fetch
<1>2. <<>> \in Seq(Writes)
  OBVIOUS
<1>3. pending' \in [Procs -> Seq(Writes)] /\ pending'[p] = <<>>
      /\ \A q \in Procs \ {p} : pending'[q] = pending[q]
  BY <1>2, BufferTypes DEF Fetch
<1>4. Proc(p)!Readable(disk', offset) => disk'.contents[offset] \in Content \cup {Torn}
  BY <1>1, FileIs DEF Grows, Proc!Readable
<1>5. /\ call' \in [Procs -> Calls] /\ slot' \in [Procs -> Slots \cup {NoSlot}] /\ slot'[p] = NoSlot
      /\ pc' \in [Procs -> Pcs] /\ pc'[p] = "return"
      /\ \A q \in Procs \ {p} : call'[q] = call[q] /\ slot'[q] = slot[q] /\ pc'[q] = pc[q]
  <2>1. CASE Proc(p)!Readable(disk', offset)
    <3>1. [c EXCEPT !.ret = "ERR_NONE", !.data = disk'.contents[offset]] \in Calls
      BY <1>4, <2>1, AnswerTypes
    <3> QED
      BY <2>1, <3>1, ContinueTypes DEF Fetch, Answer, Pcs
  <2>2. CASE ~Proc(p)!Readable(disk', offset)
    <3>1. [c EXCEPT !.ret = "ERR_IO"] \in Calls
      BY AnswerTypes
    <3> QED
      BY <2>2, <3>1, ContinueTypes DEF Fetch, Pcs
  <2> QED
    BY <2>1, <2>2
<1>6. Apart(p)
  BY <1>3, <1>5 DEF Fetch, KeepsHistory, Apart
<1>7. Local(p)'
  BY <1>3, <1>5 DEF Local, Buffered, Fetch, KeepsHistory
<1> QED
  BY <1>1, <1>3, <1>5, <1>6, <1>7, TypesPreserved DEF Fetch, KeepsHistory, TypesInv

LEMMA OffsetTypes ==
    ASSUME TypesInv, NEW p \in Procs, NEW i \in Slots, NEW r \in Resolutions
    PROVE  metadata[p][i].offset[r] \in Nat
<1>1. metadata[p][i] \in Entry
  BY DEF TypesInv
<1> QED
  BY <1>1, TypesAre

LEMMA ReadStoredTypes ==
    ASSUME TypesInv, NEW p \in Procs, NEW id \in ImgIds, NEW res \in Resolutions,
           ReadStored(p, id, res)
    PROVE  TypesInv' /\ Apart(p) /\ Grows
<1>1. PICK i \in Proc(p)!FirstOf(Proc(p)!Named(id)) :
        Fetch(p, Proc(p)!ReadCall(id, res), metadata[p][i].offset[res])
  BY DEF ReadStored
<1>2. i \in Slots
  BY ProcIs DEF Proc!FirstOf, Proc!Named
<1>3. Proc(p)!ReadCall(id, res) \in Calls /\ metadata[p][i].offset[res] \in Nat
  BY <1>2, RequestTypes, OffsetTypes
<1>4. mode[p] # "closed"
  BY DEF ReadStored, Proc!Idle
<1> QED
  BY <1>1, <1>3, <1>4, FetchTypes

LEMMA ReadFetchTypes ==
    ASSUME TypesInv, NEW p \in Procs, ReadFetch(p)
    PROVE  TypesInv' /\ Apart(p) /\ Grows
<1>1. slot[p] \in Slots /\ mode[p] # "closed"
  BY DEF ReadFetch, TypesInv, Local
<1>2. call[p] \in Calls /\ call[p].res \in Resolutions
  BY CallsAre DEF TypesInv
<1>3. metadata[p][slot[p]].offset[call[p].res] \in Nat
  BY <1>1, <1>2, OffsetTypes
<1> QED
  BY <1>1, <1>2, <1>3, FetchTypes DEF ReadFetch

\* lazily_resize(), as the proofs use it: the slot, and the image it resizes.
Resizes(p, i, id, res, img) ==
    /\ pc[p] = "idle" /\ mode[p] = "rb+" /\ res \in Resized
    /\ metadata[p][i].is_valid /\ metadata[p][i].img_id = id /\ metadata[p][i].offset[res] = 0
    /\ Flush(p)
    /\ LET orig == metadata[p][i].offset["orig"]
       IN  orig \in 1 .. Len(disk'.contents) /\ disk'.contents[orig] # Torn
           /\ img = disk'.contents[orig].img
    /\ Buffer(p, <<BlobWrite(EndOf(p, disk'), [img |-> img, res |-> res])>>)
    /\ metadata' = [metadata EXCEPT ![p][i] =
            [metadata[p][i] EXCEPT !.offset = [metadata[p][i].offset EXCEPT ![res] = EndOf(p, disk')]]]
    /\ Continue(p, Proc(p)!ReadCall(id, res), i, "resize_header")
    /\ UNCHANGED <<header, inserted>>
    /\ Changes(p)

LEMMA ReadResizeIs ==
    ASSUME TypesInv, NEW p \in Procs, NEW id \in ImgIds, NEW res \in Resolutions,
           ReadResize(p, id, res)
    PROVE  \E i \in Slots : \E img \in Images : Resizes(p, i, id, res, img)
<1> DEFINE orig(i) == metadata[p][i].offset["orig"]
           Body(i) ==
            /\ metadata[p][i].is_valid /\ metadata[p][i].offset[res] = 0
            /\ Flush(p)
            /\ Proc(p)!Decodable(disk', orig(i))
            /\ Buffer(p, <<BlobWrite(EndOf(p, disk'),
                                     [img |-> disk'.contents[orig(i)].img, res |-> res])>>)
            /\ metadata' = [metadata EXCEPT ![p][i].offset[res] = EndOf(p, disk')]
            /\ Continue(p, Proc(p)!ReadCall(id, res), i, "resize_header")
<1>1. PICK i \in Proc(p)!FirstOf(Proc(p)!Named(id)) : Body(i)
  BY DEF ReadResize
<1>2. i \in Slots /\ metadata[p][i].img_id = id
  BY ProcIs DEF Proc!FirstOf, Proc!Named
<1>3. metadata' = [metadata EXCEPT ![p][i] =
            [metadata[p][i] EXCEPT !.offset = [metadata[p][i].offset EXCEPT ![res] = EndOf(p, disk')]]]
  BY <1>1
<1>4. orig(i) \in 1 .. Len(disk'.contents) /\ disk'.contents[orig(i)] # Torn
  BY <1>1 DEF Proc!Decodable, Proc!Readable
<1>5. disk'.contents \in Seq(Content \cup {Torn})
  BY <1>1, FlushGrows, FileIs DEF Grows
<1>6. disk'.contents[orig(i)] \in Content
  BY <1>4, <1>5
<1>7. disk'.contents[orig(i)].img \in Images
  BY <1>6, TypesAre
<1>8. pc[p] = "idle" /\ mode[p] = "rb+" /\ res \in Resized
  BY DEF ReadResize, Proc!Idle, Proc!Writable
<1>9. Resizes(p, i, id, res, disk'.contents[orig(i)].img)
  BY <1>1, <1>2, <1>3, <1>4, <1>8 DEF ReadResize, Resizes
<1> QED
  BY <1>2, <1>7, <1>9

LEMMA ReadResizeTypes ==
    ASSUME TypesInv, NEW p \in Procs, NEW id \in ImgIds, NEW res \in Resolutions,
           ReadResize(p, id, res)
    PROVE  TypesInv' /\ Apart(p) /\ Grows
<1>1. PICK i \in Slots, img \in Images : Resizes(p, i, id, res, img)
  BY ReadResizeIs
<1>2. Grows
  BY <1>1, FlushGrows DEF Resizes
<1>3. Len(disk'.contents) \in Nat
  BY <1>2, FileIs DEF Grows
<1> DEFINE at == EndOf(p, disk')
           w == BlobWrite(at, [img |-> img, res |-> res])
           e == [metadata[p][i] EXCEPT !.offset = [metadata[p][i].offset EXCEPT ![res] = at]]
<1>4. at \in 1 .. Len(disk'.contents) + 1 /\ at \in Nat
  BY <1>3 DEF EndOf
<1>5. metadata' = [metadata EXCEPT ![p][i] = e] /\ Buffer(p, <<w>>)
  BY <1>1 DEF Resizes
<1> HIDE DEF at
<1>6. metadata[p][i] \in Entry
  BY DEF TypesInv
<1>7. e \in Entry
  BY <1>4, <1>6, TypesAre
<1>8. [img |-> img, res |-> res] \in Content
  BY TypesAre
<1>9. w \in BlobWrites(Len(disk'.contents) + 1) /\ w \in Writes
  BY <1>3, <1>4, <1>8, WritesAre
<1> HIDE DEF w, e
<1>10. metadata' \in [Procs -> [Slots -> Entry]] /\ \A q \in Procs \ {p} : metadata'[q] = metadata[q]
  BY <1>5, <1>7, TableTypes
<1>11. <<w>> \in Seq(Writes) /\ Len(<<w>>) = 1 /\ <<w>>[1] = w
  BY <1>9
<1>12. pending' \in [Procs -> Seq(Writes)] /\ pending'[p] = <<w>>
       /\ \A q \in Procs \ {p} : pending'[q] = pending[q]
  BY <1>5, <1>11, BufferTypes
<1>13. /\ call' \in [Procs -> Calls] /\ slot' \in [Procs -> Slots \cup {NoSlot}] /\ slot'[p] = i
       /\ pc' \in [Procs -> Pcs] /\ pc'[p] = "resize_header"
       /\ \A q \in Procs \ {p} : call'[q] = call[q] /\ slot'[q] = slot[q] /\ pc'[q] = pc[q]
  BY <1>1, RequestTypes, ContinueTypes DEF Resizes, Pcs
<1>14. mode' = mode /\ torn' = torn /\ crashes' = crashes /\ changes' \in 0 .. MaxChanges
       /\ stale' \in [Procs -> BOOLEAN] /\ spoiled' \in BOOLEAN
  BY <1>1, ChangesTypes DEF Resizes
<1>15. Apart(p)
  BY <1>1, <1>10, <1>12, <1>13, <1>14 DEF Resizes, Apart
<1>16. Buffered(p)'
  BY <1>9, <1>11, <1>12, <1>13 DEF Buffered
<1>17. Local(p)'
  BY <1>1, <1>13, <1>14, <1>16, TypesAre DEF Local, Resizes
<1> QED
  BY <1>1, <1>2, <1>10, <1>12, <1>13, <1>14, <1>15, <1>17, TypesPreserved DEF Resizes, TypesInv

LEMMA ResizeHeaderTypes ==
    ASSUME TypesInv, NEW p \in Procs, ResizeHeader(p)
    PROVE  TypesInv' /\ Apart(p) /\ Grows
<1> DEFINE v == HeaderWrite(header[p])
           w == EntryWrite(0, metadata[p][0])
<1>1. 0 \in Slots
  BY TypesAre, SharedAssumption
<1>2. v \in HeaderWrites /\ v \in Writes /\ w \in EntryWrites /\ w \in Writes
  BY <1>1, WritesAre DEF TypesInv
<1> HIDE DEF v, w
<1>3. <<v, w>> \in Seq(Writes) /\ Len(<<v, w>>) = 2 /\ <<v, w>>[1] = v /\ <<v, w>>[2] = w
  BY <1>2
<1>4. pending' \in [Procs -> Seq(Writes)] /\ pending'[p] = <<v, w>>
      /\ \A q \in Procs \ {p} : pending'[q] = pending[q]
  BY <1>3, BufferTypes DEF ResizeHeader, v, w
<1>5. /\ call' \in [Procs -> Calls] /\ slot' \in [Procs -> Slots \cup {NoSlot}] /\ slot'[p] = slot[p]
      /\ pc' \in [Procs -> Pcs] /\ pc'[p] = "read_fetch"
      /\ \A q \in Procs \ {p} : call'[q] = call[q] /\ slot'[q] = slot[q] /\ pc'[q] = pc[q]
  BY ContinueTypes DEF ResizeHeader, Pcs, TypesInv
<1>6. Grows /\ Apart(p)
  BY <1>4, <1>5, FlushGrows DEF ResizeHeader, KeepsHistory, Apart
<1>7. Buffered(p)'
  BY <1>2, <1>3, <1>4, <1>5 DEF Buffered
<1>8. slot[p] # NoSlot /\ mode[p] # "closed"
  BY DEF ResizeHeader, TypesInv, Local
<1>9. Local(p)'
  BY <1>5, <1>7, <1>8 DEF Local, ResizeHeader, KeepsHistory
<1> QED
  BY <1>4, <1>5, <1>6, <1>9, TypesPreserved DEF ResizeHeader, KeepsHistory, TypesInv

\* do_insert() refuses an image: an entry e that is not valid replaces another,
\* in memory.
Rejects(p, i, e) ==
    /\ pc[p] = "idle" /\ mode[p] # "closed"
    /\ ~metadata[p][i].is_valid /\ ~e.is_valid
    /\ metadata' = [metadata EXCEPT ![p][i] = e]
    /\ KeepsHistory
    /\ UNCHANGED <<disk, header, pending, call, slot, pc>>

LEMMA InsertRejectedIs ==
    ASSUME TypesInv, NEW p \in Procs, NEW id \in ImgIds, NEW img \in Images \cup NonImages,
           InsertRejected(p, id, img)
    PROVE  \E i \in Slots : \E e \in Entry : Rejects(p, i, e)
<1> USE ProcIs
<1>1. PICK i \in Slots :
        /\ Proc(p)!Insertable(i)
        /\ \E offset \in IF img \in NonImages THEN {Proc(p)!NoOffsets}
                         ELSE Proc(p)!DedupOffsets(i, id, img) :
            metadata' = [metadata EXCEPT ![p][i] = Proc(p)!FreshEntry(id, img, offset)]
  BY DEF InsertRejected
<1>2. PICK offset \in Proc(p)!DedupOffsets(i, id, img) \cup {Proc(p)!NoOffsets} :
        metadata' = [metadata EXCEPT ![p][i] = Proc(p)!FreshEntry(id, img, offset)]
  BY <1>1
<1>3. pc[p] = "idle" /\ mode[p] # "closed" /\ ~metadata[p][i].is_valid
  BY <1>1 DEF Proc!Insertable, Proc!Idle, Proc!FirstOf, Proc!FreeSlots, Proc!ValidSlots
<1>4. \/ offset = [r \in Resolutions |-> 0]
      \/ \E j \in Slots : offset = metadata[p][j].offset
  BY <1>2 DEF Proc!DedupOffsets, Proc!Copies, Proc!LastOf, Proc!ValidSlots, Proc!NoOffsets
<1>5. \A e \in Entry : e.offset \in [Resolutions -> Nat]
  BY TypesAre
<1>6. offset \in [Resolutions -> Nat]
  BY <1>4, <1>5 DEF TypesInv
<1> DEFINE e == Proc(p)!FreshEntry(id, img, offset)
<1>7. e \in Entry /\ ~e.is_valid
  BY <1>6, TypesAre DEF Proc!FreshEntry
<1> HIDE DEF e
<1>8. Rejects(p, i, e)
  BY <1>2, <1>3, <1>7 DEF InsertRejected, Rejects, e
<1> QED
  BY <1>7, <1>8

LEMMA InsertRejectedTypes ==
    ASSUME TypesInv, NEW p \in Procs, NEW i \in Slots, NEW e \in Entry, Rejects(p, i, e)
    PROVE  TypesInv' /\ Apart(p) /\ Grows
<1>1. /\ metadata' \in [Procs -> [Slots -> Entry]]
      /\ \A q \in Procs \ {p} : metadata'[q] = metadata[q]
  BY TableTypes DEF Rejects
<1>2. Apart(p) /\ Grows
  BY <1>1, FlushGrows DEF Rejects, KeepsHistory, Apart
<1>3. Local(p)'
  BY DEF Rejects, KeepsHistory, Local, Buffered, TypesInv
<1> QED
  BY <1>1, <1>2, <1>3, TypesPreserved DEF Rejects, KeepsHistory, TypesInv

\* A step of the system is a step of one process.
Steps(p) ==
    \/ \E m \in {"rb", "rb+"} : OpenHeader(p, m)
    \/ OpenTable(p) \/ Close(p) \/ Crash(p) \/ Return(p)
    \/ \E id \in ImgIds, img \in Images : Insert(p, id, img)
    \/ \E id \in ImgIds, img \in Images \cup NonImages : InsertRejected(p, id, img)
    \/ WriteHeader(p, "insert_header", "insert_entry") \/ WriteEntry(p, "insert_entry")
    \/ \E id \in ImgIds : Delete(p, id)
    \/ WriteEntry(p, "delete_entry")
    \/ \E id \in ImgIds, res \in Resolutions : ReadStored(p, id, res) \/ ReadResize(p, id, res)
    \/ ResizeHeader(p) \/ ReadFetch(p)

LEMMA NextIs == Next <=> \E p \in Procs : Steps(p)
  BY DEF Next, Steps

\* Every step, of whichever process, keeps the types and only adds to the file.
LEMMA StepTypes ==
    ASSUME TypesInv, NEW p \in Procs, Steps(p)
    PROVE  TypesInv' /\ Apart(p) /\ Grows
<1>1. ASSUME NEW m \in {"rb", "rb+"}, OpenHeader(p, m) PROVE TypesInv' /\ Apart(p) /\ Grows
  BY <1>1, OpenHeaderTypes
<1>2. ASSUME NEW id \in ImgIds, NEW img \in Images, Insert(p, id, img)
      PROVE  TypesInv' /\ Apart(p) /\ Grows
  BY <1>2, InsertTypes
<1>3. ASSUME NEW id \in ImgIds, Delete(p, id) PROVE TypesInv' /\ Apart(p) /\ Grows
  BY <1>3, DeleteTypes
<1>4. ASSUME NEW id \in ImgIds, NEW res \in Resolutions,
             ReadStored(p, id, res) \/ ReadResize(p, id, res)
      PROVE  TypesInv' /\ Apart(p) /\ Grows
  BY <1>4, ReadStoredTypes, ReadResizeTypes
<1>5. ASSUME NEW from \in {"insert_entry", "delete_entry"}, WriteEntry(p, from)
      PROVE  TypesInv' /\ Apart(p) /\ Grows
  BY <1>5, WriteEntryTypes
<1>6. CASE \/ OpenTable(p) \/ Close(p) \/ Crash(p) \/ Return(p) \/ ResizeHeader(p) \/ ReadFetch(p)
           \/ WriteHeader(p, "insert_header", "insert_entry")
  BY <1>6, OpenTableTypes, CloseTypes, CrashTypes, ReturnTypes, WriteHeaderTypes,
     ResizeHeaderTypes, ReadFetchTypes
<1>7. ASSUME NEW id \in ImgIds, NEW img \in Images \cup NonImages, InsertRejected(p, id, img)
      PROVE  TypesInv' /\ Apart(p) /\ Grows
  BY <1>7, InsertRejectedIs, InsertRejectedTypes
<1> QED
  BY <1>1, <1>2, <1>3, <1>4, <1>5, <1>6, <1>7 DEF Steps

LEMMA NextTypes == TypesInv /\ [Next]_vars => TypesInv'
<1> SUFFICES ASSUME TypesInv, [Next]_vars PROVE TypesInv'
  OBVIOUS
<1>1. CASE Next
  BY <1>1, NextIs, StepTypes
<1>2. CASE UNCHANGED vars
  BY <1>2 DEF vars, TypesInv, Local, Buffered, File, Header, Entry, Calls, Slots, NoSlot, Writes,
              HeaderWrites, EntryWrites, Content
<1> QED
  BY <1>1, <1>2

LEMMA TypesImply == TypesInv => TypeOK
<1> SUFFICES ASSUME TypesInv PROVE TypeOK
  OBVIOUS
<1>1. ASSUME NEW p \in Procs, pc[p] # "open" PROVE Proc(p)!TypeOK
  <2>1. View(p) \in File /\ disk \in File
    BY ViewTypes DEF TypesInv
  <2>2. /\ mode[p] \in {"closed", "rb", "rb+"} /\ header[p] \in Header
        /\ metadata[p] \in [Slots -> Entry] /\ call[p] \in Calls
        /\ slot[p] \in Slots \cup {NoSlot} /\ pc[p] \in Pcs
        /\ slot[p] = NoSlot <=> pc[p] \in {"idle", "return"}
        /\ crashes \in 0 .. MaxCrashes
    BY <1>1 DEF TypesInv, Local
  <2>3. /\ Proc(p)!Slots = Slots /\ Proc(p)!NoSlot = NoSlot
        /\ Proc(p)!Header = Header /\ Proc(p)!Entry = Entry /\ Proc(p)!File = File
        /\ Proc(p)!Calls = Calls
    BY DEF Slots, NoSlot, Header, Entry, File, Calls, Proc!Slots, Proc!NoSlot, Proc!Header, Proc!Entry,
           Proc!File, Proc!Calls, Proc!Content, Proc!Resolutions, Proc!Results
  <2> QED
    BY <1>1, <2>1, <2>2, <2>3 DEF Proc!TypeOK, View, Pcs
<1>2. \A p \in Procs : mode[p] \in {"closed", "rb", "rb+"}
  BY DEF TypesInv
<1> QED
  BY <1>1, <1>2 DEF TypeOK, TypesInv, File

\* However many processes share the file, and wherever they die, the file and
\* the copies that each of them holds of it (header and table, call and loop
\* variable, what its FILE shows) stay of the type of Imgfs: in particular
\* header.nb_files, which do_insert() and do_delete() step up and down in
\* copies of different ages, stays in 0..max_files in each of them.
THEOREM TypeCorrect == Spec => []TypeOK
<1>1. Spec => []TypesInv
  BY InitTypes, NextTypes, PTL DEF Spec
<1> QED
  BY <1>1, TypesImply, PTL
-----------------------------------------------------------------------------
(***************************************************************************)
(* No entry points past the end of the file.                               *)
(***************************************************************************)
\* What a FILE may have buffered over a file of n blobs.
Shaped(ws, n) ==
    \/ ws = <<>>
    \/ \E w \in EntryWrites : ws = <<w>>
    \/ \E w \in BlobWrites(n + 1) : ws = <<w>>
    \/ \E w \in HeaderWrites : ws = <<w>>
    \/ \E v \in HeaderWrites, w \in EntryWrites : ws = <<v, w>>

LEMMA BufferShaped ==
    ASSUME TypesInv, NEW p \in Procs
    PROVE  Shaped(pending[p], Len(disk.contents))
  BY Shapes DEF Shaped

\* What is written over a file, and over one that has grown since: the blobs
\* that are buffered lengthen the first at least as much as the second.
LEMMA WrittenOver ==
    ASSUME NEW f \in File, NEW ws, Shaped(ws, Len(f.contents))
    PROVE  LET g == Written(f, ws)
           IN  /\ g \in File /\ Len(g.contents) \in Nat /\ Len(f.contents) \in Nat
               /\ \/ Len(g.contents) = Len(f.contents)
                  \/ /\ Len(g.contents) = Len(f.contents) + 1
                     /\ \E b \in Content : ws = <<BlobWrite(Len(f.contents) + 1, b)>>
<1> USE FileIs
<1> DEFINE n == Len(f.contents)
           g == Written(f, ws)
<1>1. n \in Nat /\ \A h \in File : Len(h.contents) \in Nat
  OBVIOUS
<1>2. CASE ws = <<>>
  BY <1>1, <1>2, WrittenNone
<1>3. CASE \E w \in EntryWrites : ws = <<w>>
  BY <1>1, <1>3, WrittenOne, EntryWritten
<1>4. CASE \E w \in HeaderWrites : ws = <<w>>
  BY <1>1, <1>4, WrittenOne, HeaderWritten
<1>5. CASE \E v \in HeaderWrites, w \in EntryWrites : ws = <<v, w>>
  <2>1. PICK v \in HeaderWrites, w \in EntryWrites : ws = <<v, w>>
    BY <1>5
  <2>2. g = Write(Write(f, v), w)
    BY <2>1, WrittenTwo
  <2>3. Write(f, v) \in File /\ Write(f, v).contents = f.contents
    BY HeaderWritten
  <2>4. g \in File /\ g.contents = f.contents
    BY <2>2, <2>3, EntryWritten
  <2> QED
    BY <1>1, <2>4
<1>6. CASE \E w \in BlobWrites(n + 1) : ws = <<w>>
  <2>1. PICK w \in BlobWrites(n + 1) : ws = <<w>>
    BY <1>6
  <2>2. w = BlobWrite(w.at, w.value) /\ w.at \in 1 .. n + 1 /\ w.value \in Content
    BY DEF BlobWrites, BlobWrite
  <2>3. g = Write(f, BlobWrite(w.at, w.value))
    BY <2>1, <2>2, WrittenOne
  <2>4. w.at \in Nat \ {0} /\ w.value \in Content \cup {Torn}
    BY <1>1, <2>2
  <2>5. /\ g \in File
        /\ w.at <= n => Len(g.contents) = n
        /\ w.at > n => Len(g.contents) = n + 1
    BY <2>3, <2>4, BlobWritten
  <2>6. CASE w.at <= n
    BY <1>1, <2>5, <2>6
  <2>7. CASE w.at = n + 1
    BY <1>1, <2>1, <2>2, <2>5, <2>7
  <2> QED
    BY <1>1, <2>2, <2>6, <2>7
<1> QED
  BY <1>2, <1>3, <1>4, <1>5, <1>6 DEF Shaped

LEMMA OthersSeeMore ==
    ASSUME TypesInv, Grows, NEW q \in Procs, pending'[q] = pending[q]
    PROVE  /\ View(q)' \in File /\ Len(View(q)'.contents) \in Nat
           /\ Len(View(q)'.contents) >= Len(View(q).contents)
           /\ Len(View(q)'.contents) >= Len(disk'.contents)
<1> DEFINE n == Len(disk.contents)
           m == Len(disk'.contents)
           ws == pending[q]
<1>1. n \in Nat /\ m \in Nat /\ m >= n /\ disk \in File /\ disk' \in File
  BY FileIs DEF Grows, TypesInv
<1>2. View(q)' = Written(disk', ws)
  BY DEF View
<1>3. Shaped(ws, n)
  BY BufferShaped
<1>4. BlobWrites(n + 1) \subseteq BlobWrites(m + 1)
  BY <1>1 DEF BlobWrites
<1>5. Shaped(ws, m)
  BY <1>3, <1>4 DEF Shaped
<1> HIDE DEF ws
<1>6. /\ Written(disk', ws) \in File /\ Len(Written(disk', ws).contents) \in Nat
      /\ \/ Len(Written(disk', ws).contents) = m
         \/ Len(Written(disk', ws).contents) = m + 1
  BY <1>1, <1>5, WrittenOver
<1>7. \/ Len(Written(disk, ws).contents) = n
      \/ /\ Len(Written(disk, ws).contents) = n + 1
         /\ \E b \in Content : ws = <<BlobWrite(n + 1, b)>>
  BY <1>1, <1>3, WrittenOver
<1>8. ASSUME m = n, NEW b \in Content, ws = <<BlobWrite(n + 1, b)>>
      PROVE  Len(Written(disk', ws).contents) = n + 1
  <2>1. Written(disk', ws) = Write(disk', BlobWrite(n + 1, b))
    BY <1>8, WrittenOne
  <2>2. n + 1 \in Nat \ {0} /\ n + 1 > m /\ m + 1 = n + 1 /\ b \in Content \cup {Torn}
    BY <1>1, <1>8
  <2> HIDE DEF n
  <2>3. Len(Write(disk', BlobWrite(n + 1, b)).contents) = Len(disk'.contents) + 1
    BY <1>1, <2>2, BlobWritten
  <2> QED
    BY <2>1, <2>2, <2>3
<1>9. Len(Written(disk', ws).contents) >= Len(Written(disk, ws).contents)
  <2>1. CASE m = n
    BY <1>1, <1>6, <1>7, <1>8, <2>1
  <2>2. CASE m >= n + 1
    BY <1>1, <1>6, <1>7, <2>2
  <2> QED
    BY <1>1, <2>1, <2>2
<1> QED
  BY <1>1, <1>2, <1>6, <1>9 DEF View, ws

LEMMA InsideIs ==
    ASSUME NEW md, NEW f
    PROVE  Inside(md, f) <=> \A i \in Slots : Reaches(md[i], Len(f.contents))
  BY DEF Inside, Reaches

LEMMA ReachesFurther ==
    ASSUME NEW e \in Entry, NEW n \in Nat, NEW m \in Nat, m >= n, Reaches(e, n)
    PROVE  Reaches(e, m)
<1>1. \A r \in Resolutions : e.offset[r] \in Nat
  BY TypesAre
<1> QED
  BY <1>1 DEF Reaches

LEMMA InsideFurther ==
    ASSUME NEW md \in [Slots -> Entry], NEW f, NEW g, Inside(md, f),
           Len(f.contents) \in Nat, Len(g.contents) \in Nat,
           Len(g.contents) >= Len(f.contents)
    PROVE  Inside(md, g)
<1>1. \A i \in Slots : Reaches(md[i], Len(g.contents))
  BY InsideIs, ReachesFurther
<1> QED
  BY <1>1, InsideIs

\* The table as a FILE shows it: an entry of the file, or the one buffered.
LEMMA ViewedEntries ==
    ASSUME TypesInv, NEW p \in Procs, NEW i \in Slots
    PROVE  \/ View(p).metadata[i] = disk.metadata[i]
           \/ \E n \in DOMAIN pending[p] :
                /\ pending[p][n] \in EntryWrites /\ pending[p][n].at = i
                /\ View(p).metadata[i] = pending[p][n].value
<1> USE FileIs
<1>1. disk \in File
  BY DEF TypesInv
<1>2. CASE pending[p] = <<>> /\ View(p) = disk
  BY <1>2
<1>3. ASSUME NEW w \in EntryWrites, pending[p] = <<w>>, View(p) = Write(disk, w)
      PROVE  \/ View(p).metadata[i] = disk.metadata[i]
             \/ w.at = i /\ View(p).metadata[i] = w.value /\ 1 \in DOMAIN pending[p] /\ pending[p][1] = w
  <2>1. View(p) = [disk EXCEPT !.metadata[w.at] = w.value]
    BY <1>1, <1>3, EntryWritten
  <2> QED
    BY <1>1, <1>3, <2>1
<1>4. ASSUME NEW w \in BlobWrites(Len(disk.contents) + 1), View(p) = Write(disk, w)
      PROVE  View(p).metadata[i] = disk.metadata[i]
  <2>1. w = BlobWrite(w.at, w.value) /\ w.at \in Nat \ {0} /\ w.value \in Content \cup {Torn}
    BY <1>1 DEF BlobWrites, BlobWrite
  <2>2. View(p).metadata = disk.metadata
    <3>1. View(p) = Write(disk, BlobWrite(w.at, w.value))
      BY <1>4, <2>1
    <3> QED
      BY <1>1, <2>1, <3>1, BlobWritten
  <2> QED
    BY <2>2
<1>5. ASSUME NEW w \in HeaderWrites, View(p) = Write(disk, w)
      PROVE  View(p).metadata[i] = disk.metadata[i]
  BY <1>1, <1>5, HeaderWritten
<1>6. ASSUME NEW v \in HeaderWrites, NEW w \in EntryWrites, pending[p] = <<v, w>>,
             View(p) = Write(Write(disk, v), w)
      PROVE  \/ View(p).metadata[i] = disk.metadata[i]
             \/ w.at = i /\ View(p).metadata[i] = w.value /\ 2 \in DOMAIN pending[p] /\ pending[p][2] = w
  <2>1. Write(disk, v) \in File /\ Write(disk, v).metadata = disk.metadata
    BY <1>1, HeaderWritten
  <2>2. View(p) = [Write(disk, v) EXCEPT !.metadata[w.at] = w.value]
    BY <2>1, <1>6, EntryWritten
  <2>3. \/ View(p).metadata[i] = disk.metadata[i]
        \/ w.at = i /\ View(p).metadata[i] = w.value
    BY <2>1, <2>2
  <2>4. 2 \in DOMAIN pending[p] /\ pending[p][2] = w
    BY <1>6
  <2> QED
    BY <2>3, <2>4
<1> QED
  BY <1>2, <1>3, <1>4, <1>5, <1>6, Shapes

LEMMA ViewInside ==
    ASSUME OffsetsInv, NEW p \in Procs
    PROVE  Inside(View(p).metadata, disk) /\ Inside(View(p).metadata, View(p))
<1>1. TypesInv /\ Inside(disk.metadata, disk)
  BY DEF OffsetsInv, OffsetsInFile
<1>2. ASSUME NEW i \in Slots PROVE Reaches(View(p).metadata[i], Len(disk.contents))
  <2>1. CASE View(p).metadata[i] = disk.metadata[i]
    BY <1>1, <2>1, InsideIs
  <2>2. ASSUME NEW n \in DOMAIN pending[p], pending[p][n] \in EntryWrites,
               View(p).metadata[i] = pending[p][n].value
        PROVE  Reaches(View(p).metadata[i], Len(disk.contents))
    BY <2>2 DEF OffsetsInv, EntryWrites
  <2> QED
    BY <1>1, <2>1, <2>2, ViewedEntries
<1>3. Inside(View(p).metadata, disk)
  BY <1>2, InsideIs
<1>4. View(p).metadata \in [Slots -> Entry]
  BY <1>1, ViewTypes, FileIs
<1> QED
  BY <1>1, <1>3, <1>4, ViewTypes, InsideFurther

\* It is enough to look at the file and at the process that takes the step.
LEMMA OffsetsPreserved ==
    ASSUME OffsetsInv, NEW p \in Procs, TypesInv', Apart(p), Grows,
           Inside(disk'.metadata, disk'),
           Inside(metadata'[p], View(p)'),
           \A n \in DOMAIN pending'[p] :
                pending'[p][n].to = "entry" => Reaches(pending'[p][n].value, Len(disk'.contents))
    PROVE  OffsetsInv'
<1>1. TypesInv
  BY DEF OffsetsInv
<1>2. Len(disk.contents) \in Nat /\ Len(disk'.contents) \in Nat /\ Len(disk'.contents) >= Len(disk.contents)
  BY <1>1, FileIs DEF Grows, TypesInv
<1>3. ASSUME NEW q \in Procs \ {p} PROVE Inside(metadata'[q], View(q)')
  <2>1. metadata'[q] = metadata[q] /\ metadata[q] \in [Slots -> Entry] /\ pending'[q] = pending[q]
    BY <1>1 DEF Apart, TypesInv
  <2>2. Inside(metadata[q], View(q))
    BY DEF OffsetsInv, OffsetsInFile, View
  <2>3. Len(View(q).contents) \in Nat /\ Len(View(q)'.contents) \in Nat
        /\ Len(View(q)'.contents) >= Len(View(q).contents)
    BY <1>1, <2>1, ViewTypes, OthersSeeMore
  <2> QED
    BY <2>1, <2>2, <2>3, InsideFurther
<1>4. ASSUME NEW q \in Procs \ {p}, NEW n \in DOMAIN pending'[q], pending'[q][n].to = "entry"
      PROVE  Reaches(pending'[q][n].value, Len(disk'.contents))
  <2>1. pending'[q] = pending[q] /\ n \in DOMAIN pending[q] /\ pending[q][n].to = "entry"
    BY <1>4 DEF Apart
  <2>2. Reaches(pending[q][n].value, Len(disk.contents))
    BY <2>1 DEF OffsetsInv
  <2>3. pending[q][n] \in Writes
    BY <1>1, <2>1 DEF TypesInv
  <2>4. pending[q][n].value \in Entry
    BY <2>1, <2>3 DEF Writes, HeaderWrites, EntryWrites
  <2> QED
    BY <1>2, <2>1, <2>2, <2>4, ReachesFurther
<1>5. \A q \in Procs : Inside(metadata'[q], View(q)')
  BY <1>3
<1>6. \A q \in Procs : \A n \in DOMAIN pending'[q] :
        pending'[q][n].to = "entry" => Reaches(pending'[q][n].value, Len(disk'.contents))
  BY <1>4
<1>7. OffsetsInFile'
  BY <1>5 DEF OffsetsInFile, View, Inside, Slots, Resolutions
<1> QED
  BY <1>6, <1>7 DEF OffsetsInv, Reaches, Resolutions

\* Nothing is buffered, or what is buffered is one write, or two.
LEMMA NoneBuffered ==
    ASSUME NEW p \in Procs, pending'[p] = <<>>
    PROVE  View(p)' = disk' /\ \A n \in DOMAIN pending'[p] : FALSE
<1>1. View(p)' = Written(disk', <<>>)
  BY DEF View
<1>2. \A n \in DOMAIN <<>> : FALSE
  OBVIOUS
<1> QED
  BY <1>1, <1>2, WrittenNone

LEMMA OneBuffered ==
    ASSUME NEW p \in Procs, NEW w, pending'[p] = <<w>>
    PROVE  View(p)' = Write(disk', w) /\ \A n \in DOMAIN pending'[p] : pending'[p][n] = w
<1>1. View(p)' = Written(disk', <<w>>)
  BY DEF View
<1>2. \A n \in DOMAIN <<w>> : <<w>>[n] = w
  OBVIOUS
<1> QED
  BY <1>1, <1>2, WrittenOne

LEMMA TwoBuffered ==
    ASSUME NEW p \in Procs, NEW v, NEW w, pending'[p] = <<v, w>>
    PROVE  /\ View(p)' = Write(Write(disk', v), w)
           /\ \A n \in DOMAIN pending'[p] : pending'[p][n] = v \/ pending'[p][n] = w
<1>1. View(p)' = Written(disk', <<v, w>>)
  BY DEF View
<1>2. \A n \in DOMAIN <<v, w>> : <<v, w>>[n] = v \/ <<v, w>>[n] = w
  OBVIOUS
<1> QED
  BY <1>1, <1>2, WrittenTwo

Fits(p) ==
    /\ View(p) \in File /\ Len(View(p).contents) \in Nat
    /\ Len(View(p).contents) >= Len(disk.contents)

LEMMA ViewNow == TypesInv => \A p \in Procs : Fits(p)
  BY ViewTypes DEF Fits

LEMMA ViewThen == TypesInv' => (\A p \in Procs : Fits(p))'
  BY ViewNow, PTL

LEMMA ViewNext ==
    ASSUME TypesInv', NEW p \in Procs
    PROVE  /\ Len(View(p)'.contents) \in Nat
           /\ Len(View(p)'.contents) >= Len(disk'.contents)
  BY ViewThen DEF Fits

\* A step that flushes what p has buffered and leaves its table alone.
LEMMA FlushOffsets ==
    ASSUME OffsetsInv, NEW p \in Procs, TypesInv', Apart(p), Flush(p), metadata' = metadata,
           \A n \in DOMAIN pending'[p] :
                pending'[p][n].to = "entry" =>
                    \E i \in Slots : pending'[p][n].value = metadata[p][i]
    PROVE  OffsetsInv'
<1>1. TypesInv
  BY DEF OffsetsInv
<1>2. disk' = View(p) /\ Grows
  BY <1>1, FlushGrows
<1>3. Inside(disk'.metadata, disk')
  BY <1>2, ViewInside
<1>4. Inside(metadata[p], disk') /\ metadata[p] \in [Slots -> Entry] /\ Len(disk'.contents) \in Nat
  BY <1>1, <1>2, ViewTypes DEF OffsetsInv, OffsetsInFile, View, TypesInv
<1>5. Inside(metadata'[p], View(p)')
  BY <1>4, ViewNext, InsideFurther
<1>6. \A n \in DOMAIN pending'[p] :
        pending'[p][n].to = "entry" => Reaches(pending'[p][n].value, Len(disk'.contents))
  BY <1>4, InsideIs
<1> QED
  BY <1>2, <1>3, <1>5, <1>6, OffsetsPreserved

LEMMA EntryOffsets ==
    ASSUME OffsetsInv, NEW p \in Procs, NEW i \in Slots
    PROVE  /\ metadata[p][i] \in Entry
           /\ Reaches(metadata[p][i], Len(View(p).contents))
<1>1. Inside(metadata[p], View(p))
  BY DEF OffsetsInv, OffsetsInFile, View
<1> QED
  BY <1>1, InsideIs DEF OffsetsInv, TypesInv

LEMMA OpenOffsets ==
    ASSUME OffsetsInv, NEW p \in Procs, TypesInv', Apart(p), Grows,
           (\E m \in {"rb", "rb+"} : OpenHeader(p, m)) \/ OpenTable(p)
    PROVE  OffsetsInv'
<1>1. TypesInv /\ Inside(disk.metadata, disk)
  BY DEF OffsetsInv, OffsetsInFile
<1>2. disk' = disk /\ pending[p] = <<>> /\ pending' = pending
  BY <1>1 DEF OpenHeader, OpenTable, TypesInv, Local, Buffered
<1>3. View(p) = disk /\ View(p)' = disk'
  BY <1>2, WrittenNone, NoneBuffered DEF View
<1>4. CASE \E m \in {"rb", "rb+"} : OpenHeader(p, m)
  <2>1. metadata'[p] = disk.metadata
    BY <1>1, <1>4 DEF OpenHeader, TypesInv
  <2> QED
    BY <1>1, <1>2, <1>3, <2>1, NoneBuffered, OffsetsPreserved
<1>5. CASE OpenTable(p)
  <2>1. PICK table \in [Slots -> Entry] :
            /\ metadata' = [metadata EXCEPT ![p] = table]
            /\ Cut(table, metadata[p], disk.metadata)
    BY <1>1, <1>5, OpenTableIs
  <2>4. metadata'[p] = table
    BY <1>1, <2>1 DEF TypesInv
  <2>5. ASSUME NEW i \in Slots PROVE Reaches(table[i], Len(disk.contents))
    <3>1. Reaches(metadata[p][i], Len(disk.contents)) /\ Reaches(disk.metadata[i], Len(disk.contents))
      BY <1>1, <1>3, EntryOffsets, InsideIs
    <3>2. Reaches([disk.metadata[i] EXCEPT !.img_id = metadata[p][i].img_id], Len(disk.contents))
      <4>1. disk.metadata[i] \in Entry
        BY <1>1, FileIs DEF TypesInv
      <4> QED
        BY <3>1, <4>1, TypesAre DEF Reaches
    <3> QED
      BY <2>1, <3>1, <3>2 DEF Cut
  <2>6. Inside(metadata'[p], View(p)')
    BY <1>2, <1>3, <2>4, <2>5, InsideIs
  <2> QED
    BY <1>1, <1>2, <2>6, NoneBuffered, OffsetsPreserved
<1> QED
  BY <1>4, <1>5

LEMMA ForgetOffsets ==
    ASSUME OffsetsInv, NEW p \in Procs, TypesInv', Apart(p), Grows, Forget(p),
           Inside(disk'.metadata, disk')
    PROVE  OffsetsInv'
<1>1. metadata'[p] = EmptyFile.metadata
  BY DEF Forget, OffsetsInv, TypesInv
<1>2. \A i \in Slots : ~EmptyFile.metadata[i].is_valid
  BY ProcIs DEF EmptyFile, Slots, Proc!EmptyFile, Proc!EmptyMetadata, Proc!EmptyEntry
<1>3. Inside(metadata'[p], View(p)')
  BY <1>1, <1>2 DEF Inside
<1>4. pending'[p] = <<>>
  BY DEF Forget, Buffer, OffsetsInv, TypesInv
<1> QED
  BY <1>3, <1>4, NoneBuffered, OffsetsPreserved

LEMMA CloseOffsets ==
    ASSUME OffsetsInv, NEW p \in Procs, TypesInv', Apart(p), Grows, Close(p)
    PROVE  OffsetsInv'
<1>1. disk' = View(p)
  BY FlushGrows DEF Close, OffsetsInv
<1> QED
  BY <1>1, ViewInside, ForgetOffsets DEF Close

LEMMA CrashOffsets ==
    ASSUME OffsetsInv, NEW p \in Procs, TypesInv', Apart(p), Grows, Crash(p)
    PROVE  OffsetsInv'
<1>1. TypesInv /\ Inside(disk.metadata, disk)
  BY DEF OffsetsInv, OffsetsInFile
<1>2. disk \in File /\ disk.metadata \in [Slots -> Entry]
      /\ Len(disk.contents) \in Nat /\ Len(disk'.contents) \in Nat
  BY <1>1, FileIs DEF TypesInv, Grows
<1>3. ASSUME NEW v \in HeaderWrites, disk' = Write(disk, v) PROVE disk'.metadata = disk.metadata
  BY <1>2, <1>3, HeaderWritten, FileIs
<1>4. ASSUME NEW w \in BlobWrites(Len(disk.contents) + 1), disk' = Write(disk, BlobWrite(w.at, Torn))
      PROVE  disk'.metadata = disk.metadata
  <2>1. w.at \in Nat \ {0}
    BY <1>2 DEF BlobWrites
  <2> QED
    BY <1>2, <1>4, <2>1, BlobWritten
<1>5. CASE disk'.metadata = disk.metadata
  <2>1. Inside(disk'.metadata, disk')
    BY <1>1, <1>2, <1>5, InsideFurther DEF Grows
  <2> QED
    BY <2>1, ForgetOffsets DEF Crash
<1>6. CASE disk' = View(p)
  BY <1>6, ViewInside, ForgetOffsets DEF Crash
<1> QED
  BY <1>1, <1>3, <1>4, <1>5, <1>6, CrashWrites

LEMMA ReturnOffsets ==
    ASSUME OffsetsInv, NEW p \in Procs, TypesInv', Apart(p), Grows, Return(p)
    PROVE  OffsetsInv'
<1>1. disk' = disk /\ pending' = pending /\ metadata' = metadata
  BY DEF Return
<1>2. View(p)' = View(p)
  BY <1>1 DEF View
<1> QED
  BY <1>1, <1>2, OffsetsPreserved DEF OffsetsInv, OffsetsInFile, View

LEMMA InsertRejectedOffsets ==
    ASSUME OffsetsInv, NEW p \in Procs, TypesInv', Apart(p), Grows,
           NEW i \in Slots, NEW e \in Entry, Rejects(p, i, e)
    PROVE  OffsetsInv'
<1>1. disk' = disk /\ pending' = pending
  BY DEF Rejects
<1>2. View(p)' = View(p)
  BY <1>1 DEF View
<1>3. Inside(metadata'[p], View(p))
  BY TableTypes DEF Rejects, Inside, OffsetsInv, OffsetsInFile, View
<1> QED
  BY <1>1, <1>2, <1>3, OffsetsPreserved DEF OffsetsInv, OffsetsInFile

LEMMA WriteOffsets ==
    ASSUME OffsetsInv, NEW p \in Procs, TypesInv', Apart(p), Grows,
           \/ WriteHeader(p, "insert_header", "insert_entry") \/ ResizeHeader(p)
           \/ \E from \in {"insert_entry", "delete_entry"} : WriteEntry(p, from)
    PROVE  OffsetsInv'
<1>1. Flush(p) /\ metadata' = metadata /\ TypesInv
  BY DEF WriteHeader, ResizeHeader, WriteEntry, OffsetsInv
<1>2. \A h : HeaderWrite(h).to # "entry"
  BY DEF HeaderWrite
<1>3. \A i, e : EntryWrite(i, e).value = e
  BY DEF EntryWrite
<1>4. CASE WriteHeader(p, "insert_header", "insert_entry")
  <2>1. pending'[p] = <<HeaderWrite(header[p])>>
    BY <1>1, <1>4 DEF WriteHeader, Buffer, TypesInv
  <2>2. \A n \in DOMAIN pending'[p] : pending'[p][n].to # "entry"
    BY <1>2, <2>1, OneBuffered
  <2> QED
    BY <1>1, <2>2, FlushOffsets
<1>5. CASE ResizeHeader(p)
  <2>1. pending'[p] = <<HeaderWrite(header[p]), EntryWrite(0, metadata[p][0])>>
    BY <1>1, <1>5 DEF ResizeHeader, Buffer, TypesInv
  <2>2. 0 \in Slots
    BY TypesAre, SharedAssumption
  <2>3. \A n \in DOMAIN pending'[p] :
            pending'[p][n].to = "entry" => \E i \in Slots : pending'[p][n].value = metadata[p][i]
    BY <1>2, <1>3, <2>1, <2>2, TwoBuffered
  <2> QED
    BY <1>1, <2>3, FlushOffsets
<1>6. CASE \E from \in {"insert_entry", "delete_entry"} : WriteEntry(p, from)
  <2>1. pending'[p] = <<EntryWrite(slot[p], metadata[p][slot[p]])>>
    BY <1>1, <1>6 DEF WriteEntry, Buffer, TypesInv
  <2>2. slot[p] \in Slots
    BY <1>1, <1>6 DEF WriteEntry, TypesInv, Local
  <2>3. \A n \in DOMAIN pending'[p] :
            pending'[p][n].to = "entry" => \E i \in Slots : pending'[p][n].value = metadata[p][i]
    BY <1>3, <2>1, <2>2, OneBuffered
  <2> QED
    BY <1>1, <2>3, FlushOffsets
<1> QED
  BY <1>4, <1>5, <1>6

LEMMA FetchOffsets ==
    ASSUME OffsetsInv, NEW p \in Procs, TypesInv', Apart(p), Grows, NEW c, NEW offset, Fetch(p, c, offset)
    PROVE  OffsetsInv'
<1>1. Flush(p) /\ metadata' = metadata
  BY DEF Fetch
<1>2. pending'[p] = <<>>
  BY DEF Fetch, Buffer, OffsetsInv, TypesInv
<1> QED
  BY <1>1, <1>2, NoneBuffered, FlushOffsets

\* A blob that p appends to the file it has flushed, and an entry that may point to it.
LEMMA AppendOffsets ==
    ASSUME OffsetsInv, NEW p \in Procs, TypesInv', Apart(p), Grows, Flush(p),
           NEW b \in Content, Buffer(p, <<BlobWrite(EndOf(p, disk'), b)>>),
           NEW i \in Slots, NEW e \in Entry, metadata' = [metadata EXCEPT ![p][i] = e],
           Reaches(e, Len(disk'.contents) + 1)
    PROVE  OffsetsInv'
<1> DEFINE at == EndOf(p, disk')
           w == BlobWrite(at, b)
<1>1. TypesInv
  BY DEF OffsetsInv
<1>2. disk' = View(p) /\ disk' \in File /\ Len(disk'.contents) \in Nat
  BY <1>1, FlushGrows, ViewTypes
<1>3. pending'[p] = <<w>>
  BY <1>1 DEF Buffer, TypesInv
<1>4. at \in Nat \ {0} /\ at = Len(disk'.contents) + 1 /\ at > Len(disk'.contents)
  BY <1>2 DEF EndOf
<1> HIDE DEF at
<1>5. View(p)' = Write(disk', w) /\ \A n \in DOMAIN pending'[p] : pending'[p][n] = w
  BY <1>3, OneBuffered
<1>6. Len(View(p)'.contents) = Len(disk'.contents) + 1
  BY <1>2, <1>4, <1>5, BlobWritten
<1>7. w.to # "entry"
  BY DEF BlobWrite
<1>8. metadata'[p][i] = e /\ \A j \in Slots \ {i} : metadata'[p][j] = metadata[p][j]
  BY <1>1, TableTypes
<1>9. ASSUME NEW j \in Slots PROVE Reaches(metadata'[p][j], Len(View(p)'.contents))
  <2>1. CASE j = i
    BY <1>6, <1>8, <2>1
  <2>2. CASE j # i
    <3>1. Reaches(metadata[p][j], Len(disk'.contents)) /\ metadata[p][j] \in Entry
      BY <1>2, EntryOffsets
    <3> QED
      BY <1>2, <1>6, <1>8, <2>2, <3>1, ReachesFurther
  <2> QED
    BY <2>1, <2>2
<1>10. Inside(metadata'[p], View(p)')
  BY <1>9, InsideIs
<1>11. Inside(disk'.metadata, disk')
  BY <1>2, ViewInside
<1> QED
  BY <1>5, <1>7, <1>10, <1>11, OffsetsPreserved

LEMMA InsertOffsets ==
    ASSUME OffsetsInv, NEW p \in Procs, TypesInv', Apart(p), Grows,
           NEW id \in ImgIds, NEW img \in Images, Insert(p, id, img)
    PROVE  OffsetsInv'
<1>1. TypesInv
  BY DEF OffsetsInv
<1>2. PICK i \in Slots, offset \in [Resolutions -> Nat] : Inserts(p, i, id, img, offset)
  BY <1>1, InsertIs
<1>3. ASSUME NEW r \in Resolutions PROVE offset[r] <= Len(View(p).contents)
  <2>1. Len(View(p).contents) \in Nat
    BY <1>1, ViewTypes
  <2>2. CASE offset = [s \in Resolutions |-> 0]
    BY <2>1, <2>2
  <2>3. ASSUME NEW j \in Slots, metadata[p][j].is_valid, offset = metadata[p][j].offset
        PROVE  offset[r] <= Len(View(p).contents)
    BY <2>3, EntryOffsets DEF Reaches
  <2> QED
    BY <1>2, <2>2, <2>3 DEF Inserts
<1>4. CASE Appends(p, i, id, img, offset)
  <2> DEFINE at == EndOf(p, disk')
             o == [offset EXCEPT !["orig"] = at]
             e == FreshEntry(id, img, o)
  <2>1. Flush(p) /\ Buffer(p, <<BlobWrite(EndOf(p, disk'), Original(img))>>)
        /\ metadata' = [metadata EXCEPT ![p][i] = e]
    BY <1>4 DEF Appends
  <2>2. disk' = View(p) /\ Len(disk'.contents) \in Nat
    BY <1>1, <2>1, FlushGrows, ViewTypes
  <2>3. at \in Nat /\ at = Len(disk'.contents) + 1
    BY <2>2 DEF EndOf
  <2> HIDE DEF at
  <2>4. o \in [Resolutions -> Nat] /\ \A r \in Resolutions : o[r] = offset[r] \/ o[r] = at
    BY <2>3
  <2>5. \A r \in Resolutions : o[r] <= Len(disk'.contents) + 1
    BY <1>3, <2>2, <2>3, <2>4
  <2> HIDE DEF o
  <2>6. e \in Entry /\ e.offset = o
    BY <2>4, TypesAre DEF FreshEntry
  <2> HIDE DEF e
  <2>7. Reaches(e, Len(disk'.contents) + 1)
    BY <2>5, <2>6 DEF Reaches
  <2>8. Original(img) \in Content
    BY TypesAre DEF Original
  <2> QED
    BY <2>1, <2>6, <2>7, <2>8, AppendOffsets
<1>5. CASE Copies(p, i, id, img, offset)
  <2> DEFINE e == FreshEntry(id, img, offset)
  <2>1. disk' = disk /\ pending' = pending /\ metadata' = [metadata EXCEPT ![p][i] = e]
    BY <1>5 DEF Copies
  <2>2. e \in Entry /\ e.offset = offset
    BY TypesAre DEF FreshEntry
  <2> HIDE DEF e
  <2>3. View(p)' = View(p)
    BY <2>1 DEF View
  <2>4. metadata'[p][i] = e /\ \A j \in Slots \ {i} : metadata'[p][j] = metadata[p][j]
    BY <1>1, <2>1, <2>2, TableTypes
  <2>5. \A j \in Slots : Reaches(metadata'[p][j], Len(View(p)'.contents))
    BY <1>3, <2>2, <2>3, <2>4, EntryOffsets DEF Reaches
  <2>6. Inside(metadata'[p], View(p)')
    BY <2>5, InsideIs
  <2> QED
    BY <2>1, <2>6, OffsetsPreserved DEF OffsetsInv, OffsetsInFile
<1> QED
  BY <1>2, <1>4, <1>5 DEF Inserts

LEMMA DeleteOffsets ==
    ASSUME OffsetsInv, NEW p \in Procs, TypesInv', Apart(p), Grows,
           NEW id \in ImgIds, Delete(p, id)
    PROVE  OffsetsInv'
<1>1. TypesInv
  BY DEF OffsetsInv
<1>2. PICK i \in Slots : Deletes(p, i, id)
  BY <1>1, DeleteIs
<1> DEFINE e == [metadata[p][i] EXCEPT !.is_valid = FALSE]
           w == HeaderWrite(header'[p])
<1>3. metadata[p][i] \in Entry
  BY <1>1 DEF TypesInv
<1>4. e \in Entry /\ ~e.is_valid
  BY <1>3, TypesAre
<1>5. metadata' = [metadata EXCEPT ![p][i] = e] /\ disk' = View(p)
  BY <1>1, <1>2, FlushGrows DEF Deletes
<1> HIDE DEF e
<1>6. metadata'[p][i] = e /\ \A j \in Slots \ {i} : metadata'[p][j] = metadata[p][j]
  BY <1>1, <1>4, <1>5, TableTypes
<1>7. pending'[p] = <<w>>
  BY <1>1, <1>2 DEF Deletes, Buffer, TypesInv
<1>8. w.to # "entry"
  BY DEF HeaderWrite
<1>9. ASSUME NEW j \in Slots PROVE Reaches(metadata'[p][j], Len(View(p)'.contents))
  <2>1. CASE j = i
    BY <1>4, <1>6, <2>1 DEF Reaches
  <2>2. CASE j # i
    BY <1>1, <1>5, <1>6, <2>2, EntryOffsets, ViewTypes, ViewNext, ReachesFurther
  <2> QED
    BY <2>1, <2>2
<1>10. Inside(metadata'[p], View(p)') /\ Inside(disk'.metadata, disk')
  BY <1>5, <1>9, InsideIs, ViewInside
<1> QED
  BY <1>7, <1>8, <1>10, OneBuffered, OffsetsPreserved

LEMMA ResizeOffsets ==
    ASSUME OffsetsInv, NEW p \in Procs, TypesInv', Apart(p), Grows,
           NEW id \in ImgIds, NEW res \in Resolutions, ReadResize(p, id, res)
    PROVE  OffsetsInv'
<1>1. TypesInv
  BY DEF OffsetsInv
<1>2. PICK i \in Slots, img \in Images : Resizes(p, i, id, res, img)
  BY <1>1, ReadResizeIs
<1> DEFINE at == EndOf(p, disk')
           o == [metadata[p][i].offset EXCEPT ![res] = at]
           e == [metadata[p][i] EXCEPT !.offset = o]
<1>3. disk' = View(p) /\ Flush(p) /\ Len(disk'.contents) \in Nat
      /\ Buffer(p, <<BlobWrite(EndOf(p, disk'), [img |-> img, res |-> res])>>)
      /\ metadata' = [metadata EXCEPT ![p][i] = e]
      /\ metadata[p][i].is_valid
  BY <1>1, <1>2, FlushGrows, ViewTypes DEF Resizes
<1>4. at \in Nat /\ at = Len(disk'.contents) + 1
  BY <1>3 DEF EndOf
<1> HIDE DEF at
<1>5. metadata[p][i] \in Entry /\ metadata[p][i].offset \in [Resolutions -> Nat]
  <2>1. metadata[p][i] \in Entry
    BY <1>1 DEF TypesInv
  <2> QED
    BY <2>1, TypesAre
<1>6. \A r \in Resolutions : metadata[p][i].offset[r] <= Len(disk'.contents)
  BY <1>3, EntryOffsets DEF Reaches
<1>7. o \in [Resolutions -> Nat] /\ \A r \in Resolutions : o[r] = metadata[p][i].offset[r] \/ o[r] = at
  BY <1>4, <1>5
<1>8. \A r \in Resolutions : o[r] <= Len(disk'.contents) + 1
  BY <1>3, <1>4, <1>5, <1>6, <1>7
<1> HIDE DEF o
<1>9. e \in Entry /\ e.offset = o
  BY <1>5, <1>7, TypesAre
<1> HIDE DEF e
<1>10. Reaches(e, Len(disk'.contents) + 1)
  BY <1>8, <1>9 DEF Reaches
<1>11. [img |-> img, res |-> res] \in Content
  BY TypesAre
<1> QED
  BY <1>3, <1>9, <1>10, <1>11, AppendOffsets

LEMMA StepOffsets ==
    ASSUME OffsetsInv, NEW p \in Procs, Steps(p)
    PROVE  OffsetsInv'
<1>1. TypesInv' /\ Apart(p) /\ Grows
  BY StepTypes DEF OffsetsInv
<1>2. CASE (\E m \in {"rb", "rb+"} : OpenHeader(p, m)) \/ OpenTable(p)
  BY <1>1, <1>2, OpenOffsets
<1>3. CASE Close(p) \/ Crash(p) \/ Return(p)
  BY <1>1, <1>3, CloseOffsets, CrashOffsets, ReturnOffsets
<1>4. ASSUME NEW id \in ImgIds, NEW img \in Images, Insert(p, id, img) PROVE OffsetsInv'
  BY <1>1, <1>4, InsertOffsets
<1>5. ASSUME NEW id \in ImgIds, Delete(p, id) PROVE OffsetsInv'
  BY <1>1, <1>5, DeleteOffsets
<1>6. CASE \/ WriteHeader(p, "insert_header", "insert_entry") \/ ResizeHeader(p)
           \/ WriteEntry(p, "insert_entry") \/ WriteEntry(p, "delete_entry")
  BY <1>1, <1>6, WriteOffsets
<1>7. ASSUME NEW id \in ImgIds, NEW res \in Resolutions, ReadStored(p, id, res) PROVE OffsetsInv'
  BY <1>1, <1>7, FetchOffsets DEF ReadStored
<1>8. ASSUME NEW id \in ImgIds, NEW res \in Resolutions, ReadResize(p, id, res) PROVE OffsetsInv'
  BY <1>1, <1>8, ResizeOffsets
<1>9. CASE ReadFetch(p)
  BY <1>1, <1>9, FetchOffsets DEF ReadFetch
<1>10. ASSUME NEW id \in ImgIds, NEW img \in Images \cup NonImages, InsertRejected(p, id, img)
       PROVE  OffsetsInv'
  BY <1>1, <1>10, InsertRejectedIs, InsertRejectedOffsets DEF OffsetsInv
<1> QED
  BY <1>2, <1>3, <1>4, <1>5, <1>6, <1>7, <1>8, <1>9, <1>10 DEF Steps

LEMMA InitOffsets == Init => OffsetsInv
<1> SUFFICES ASSUME Init PROVE OffsetsInv
  OBVIOUS
<1>1. TypesInv
  BY InitTypes
<1>2. \A i \in Slots : ~EmptyFile.metadata[i].is_valid
  BY ProcIs DEF EmptyFile, Slots, Proc!EmptyFile, Proc!EmptyMetadata, Proc!EmptyEntry
<1>3. OffsetsInFile
  BY <1>2 DEF Init, OffsetsInFile, Inside
<1>4. \A p \in Procs : \A n \in DOMAIN pending[p] : FALSE
  BY DEF Init
<1> QED
  BY <1>1, <1>3, <1>4 DEF OffsetsInv

LEMMA NextOffsets == OffsetsInv /\ [Next]_vars => OffsetsInv'
<1> SUFFICES ASSUME OffsetsInv, [Next]_vars PROVE OffsetsInv'
  OBVIOUS
<1>1. CASE Next
  BY <1>1, NextIs, StepOffsets
<1>2. CASE UNCHANGED vars
  <2>1. TypesInv'
    BY <1>2, NextTypes DEF OffsetsInv
  <2> QED
    BY <1>2, <2>1 DEF vars, OffsetsInv, OffsetsInFile, Inside, Reaches, Slots, Resolutions
<1> QED
  BY <1>1, <1>2

\* Whatever the processes on one file do to each other, also from copies that
\* are stale, and wherever they die, no entry of the file, and none of a process's
\* own table, points past the end of the file it is read from: do_insert() and
\* lazily_resize() append the blob before they write the entry, and nothing
\* makes the file shorter.
THEOREM OffsetsInFileCorrect == Spec => []OffsetsInFile
<1>1. Spec => []OffsetsInv
  BY InitOffsets, NextOffsets, PTL DEF Spec
<1>2. OffsetsInv => OffsetsInFile
  BY DEF OffsetsInv
<1> QED
  BY <1>1, <1>2, PTL
-----------------------------------------------------------------------------
(***************************************************************************)
(* As long as no process changes the file from a stale copy, the file is   *)
(* that of one process.                                                    *)
(***************************************************************************)
Extends(c, d) ==
    /\ Len(c) \in Nat /\ Len(d) \in Nat /\ Len(d) >= Len(c)
    /\ \A k \in 1 .. Len(c) : d[k] = c[k]

LEMMA HoldsFurther ==
    ASSUME NEW md, NEW c, NEW d, HoldsAll(md, c), Extends(c, d)
    PROVE  HoldsAll(md, d)
<1>1. ASSUME NEW e, Holds(e, c) PROVE Holds(e, d)
  BY <1>1 DEF Holds, Extends
<1> QED
  BY <1>1 DEF HoldsAll

LEMMA OnceMore ==
    ASSUME NEW id, NEW img, NEW S, NEW T, S \subseteq T, NEW cut, Once(id, img, S, cut)
    PROVE  Once(id, img, T, cut)
  BY DEF Once

LEMMA SoundFurther ==
    ASSUME NEW f, NEW g, NEW S, NEW T, S \subseteq T, Sound(f, S),
           g.metadata = f.metadata, Extends(f.contents, g.contents)
    PROVE  Sound(g, T)
  BY HoldsFurther DEF Sound

\* A blob at the end of a file of types leaves what was there.
LEMMA AppendExtends ==
    ASSUME NEW f \in File, NEW at, at = Len(f.contents) + 1, NEW b \in Content \cup {Torn}
    PROVE  LET g == Write(f, BlobWrite(at, b))
           IN  /\ g \in File /\ g.metadata = f.metadata /\ g.header = f.header
               /\ Extends(f.contents, g.contents)
               /\ Len(g.contents) = at /\ g.contents[at] = b
<1> DEFINE g == Write(f, BlobWrite(at, b))
           c == f.contents
<1>1. c \in Seq(Content \cup {Torn}) /\ Len(c) \in Nat
  BY FileIs
<1>2. at \in Nat \ {0} /\ at > Len(c)
  BY <1>1
<1>3. g \in File /\ g.metadata = f.metadata /\ g.header = f.header /\ g.contents = Append(c, b)
  BY <1>2, BlobWritten
<1> HIDE DEF g, c
<1>4. Len(Append(c, b)) = at /\ Append(c, b)[at] = b /\ \A k \in 1 .. Len(c) : Append(c, b)[k] = c[k]
  BY <1>1 DEF c
<1> QED
  BY <1>1, <1>2, <1>3, <1>4 DEF Extends, g, c

\* What a process has buffered while it follows the file.
LEMMA FlushSound ==
    ASSUME TypesInv, SoundInv, NEW p \in Procs
    PROVE  /\ Sound(View(p), inserted)
           /\ \/ View(p) = disk
              \/ Changing(p) /\ Extends(disk.contents, View(p).contents)
<1> USE FileIs
<1>1. disk \in File /\ Sound(disk, inserted) /\ Local(p) /\ Knows(p)
  BY DEF TypesInv, SoundInv
<1>2. CASE pending[p] = <<>>
  BY <1>1, <1>2, WrittenNone DEF View
<1>3. CASE pending[p] # <<>>
  <2>1. Changing(p) /\ ~stale[p] /\ mode[p] # "closed"
    BY <1>1, <1>3 DEF Changing, SoundInv, OneChanges, Local
  <2>2. Follows(p)
    BY <1>1, <2>1 DEF Knows
  <2>3. Sound(View(p), inserted)
    BY <2>2 DEF Follows
  <2>4. Len(disk.contents) \in Nat
    BY <1>1
  <2>5. ASSUME View(p).contents = disk.contents PROVE Extends(disk.contents, View(p).contents)
    BY <2>4, <2>5 DEF Extends
  <2>6. ASSUME NEW w \in BlobWrites(Len(disk.contents) + 1), pending[p] = <<w>>, View(p) = Write(disk, w)
        PROVE  Extends(disk.contents, View(p).contents)
    <3>1. 1 \in DOMAIN pending[p] /\ pending[p][1] = w
      BY <2>6
    <3>2. w.to = "blob" /\ w.value \in Content \cup {Torn} /\ w = BlobWrite(w.at, w.value)
      BY DEF BlobWrites, BlobWrite
    <3>3. w.at = Len(disk.contents) + 1
      BY <2>2, <3>1, <3>2 DEF Follows
    <3>4. View(p) = Write(disk, BlobWrite(w.at, w.value))
      BY <2>6, <3>2
    <3>5. Extends(disk.contents, Write(disk, BlobWrite(w.at, w.value)).contents)
      BY <1>1, <3>2, <3>3, AppendExtends
    <3> QED
      BY <3>4, <3>5
  <2>7. ASSUME NEW w \in EntryWrites \cup HeaderWrites, View(p) = Write(disk, w)
        PROVE  View(p).contents = disk.contents
    BY <1>1, <2>7, EntryWritten, HeaderWritten
  <2>8. ASSUME NEW v \in HeaderWrites, NEW w \in EntryWrites, View(p) = Write(Write(disk, v), w)
        PROVE  View(p).contents = disk.contents
    <3>1. Write(disk, v) \in File /\ Write(disk, v).contents = disk.contents
      BY <1>1, HeaderWritten
    <3> QED
      BY <2>8, <3>1, EntryWritten
  <2>9. Extends(disk.contents, View(p).contents)
    BY <1>3, <2>5, <2>6, <2>7, <2>8, Shapes
  <2> QED
    BY <2>1, <2>3, <2>9
<1> QED
  BY <1>2, <1>3

\* The other processes, when p takes a step: the file is the same, or they are
\* all stale and it has more blobs than before.
LEMMA OthersKnow ==
    ASSUME TypesInv, SoundInv, NEW p \in Procs, Apart(p), inserted \subseteq inserted',
           disk' = disk \/ (Changing(p) /\ Extends(disk.contents, disk'.contents)),
           \A q \in Procs \ {p} : stale[q] => stale'[q],
           NEW q \in Procs \ {p}
    PROVE  Knows(q)'
<1>1. /\ mode'[q] = mode[q] /\ metadata'[q] = metadata[q] /\ call'[q] = call[q] /\ slot'[q] = slot[q]
      /\ pc'[q] = pc[q] /\ pending'[q] = pending[q] /\ torn'[q] = torn[q]
  BY DEF Apart
<1>2. Knows(q)
  BY DEF SoundInv
<1>3. mode'[q] = "closed" => ~torn'[q]
  BY <1>1, <1>2 DEF Knows
<1> SUFFICES ASSUME mode[q] # "closed" PROVE Remembers(q)' /\ (~stale'[q] => Follows(q)')
  BY <1>1, <1>3 DEF Knows
<1>4. Remembers(q) /\ (~stale[q] => Follows(q))
  BY <1>2 DEF Knows
<1>5. ASSUME HoldsAll(metadata[q], View(q)'.contents) PROVE Remembers(q)'
  <2>1. HoldsAll(metadata'[q], View(q)'.contents)
    BY <1>1, <1>5
  <2>2. \A i \in Slots : metadata'[q][i].is_valid =>
            Once(metadata'[q][i].img_id, metadata'[q][i].SHA, inserted', torn'[q])
    BY <1>1, <1>4, OnceMore DEF Remembers
  <2>3. pc'[q] = "return" => ReadTrue(call'[q], inserted', torn'[q])
    BY <1>1, <1>4, OnceMore DEF Remembers, ReadTrue
  <2> QED
    BY <1>1, <1>4, <2>1, <2>2, <2>3 DEF Remembers, InFlight
<1>6. CASE disk' = disk
  <2>1. View(q)' = View(q)
    BY <1>1, <1>6 DEF View
  <2>2. Remembers(q)'
    BY <1>4, <1>5, <2>1 DEF Remembers
  <2>3. ASSUME ~stale'[q] PROVE Follows(q)'
    <3>1. Follows(q)
      BY <1>4, <2>3
    <3>2. Sound(View(q)', inserted')
      BY <2>1, <3>1 DEF Follows, Sound
    <3> QED
      BY <1>1, <1>6, <2>1, <3>1, <3>2 DEF Follows, InFlight
  <2> QED
    BY <2>2, <2>3
<1>7. CASE Changing(p) /\ Extends(disk.contents, disk'.contents)
  <2>1. ~Changing(q) /\ stale[q] /\ stale'[q]
    BY <1>7 DEF SoundInv, OneChanges
  <2>2. pending[q] = <<>>
    BY <2>1 DEF Changing
  <2>3. View(q) = disk /\ View(q)' = disk'
    BY <1>1, <2>2, WrittenNone, NoneBuffered DEF View
  <2>4. HoldsAll(metadata[q], disk'.contents)
    BY <1>4, <1>7, <2>3, HoldsFurther DEF Remembers
  <2> QED
    BY <1>5, <2>1, <2>3, <2>4
<1> QED
  BY <1>6, <1>7

\* The step of p goes on with a change that p has begun, or changes nothing.
LEMMA OneStillChanges ==
    ASSUME SoundInv, NEW p \in Procs, Apart(p),
           Changing(p)' => Changing(p),
           mode'[p] # "closed" => (stale[p] => stale'[p]) /\ mode[p] # "closed",
           Changing(p)' => stale'[p] = stale[p],
           \A q \in Procs \ {p} : stale'[q] = stale[q]
    PROVE  OneChanges'
<1>1. ASSUME NEW q \in Procs \ {p} PROVE (Changing(q)' <=> Changing(q)) /\ mode'[q] = mode[q]
  BY DEF Apart, Changing
<1>2. OneChanges
  BY DEF SoundInv
<1>3. CASE Changing(p)
  <2>1. \A q \in Procs \ {p} : ~Changing(q)' /\ (mode'[q] # "closed" => stale'[q])
    BY <1>1, <1>2, <1>3 DEF OneChanges
  <2>2. Changing(p)' => ~stale'[p]
    BY <1>2, <1>3 DEF OneChanges
  <2> QED
    BY <2>1, <2>2 DEF OneChanges
<1>4. CASE ~Changing(p)
  <2>1. ASSUME NEW q \in Procs, Changing(q)' PROVE
            /\ ~stale'[q]
            /\ \A r \in Procs \ {q} : ~Changing(r)' /\ (mode'[r] # "closed" => stale'[r])
    <3>1. q # p
      BY <1>4, <2>1
    <3>2. Changing(q) /\ ~stale'[q]
      BY <1>1, <1>2, <2>1, <3>1 DEF OneChanges
    <3>3. ASSUME NEW r \in Procs \ {q} PROVE ~Changing(r)' /\ (mode'[r] # "closed" => stale'[r])
      BY <1>1, <1>2, <1>4, <3>1, <3>2 DEF OneChanges
    <3> QED
      BY <3>2, <3>3
  <2> QED
    BY <2>1 DEF OneChanges
<1> QED
  BY <1>3, <1>4

\* The step of p begins a change.
LEMMA OneBegins ==
    ASSUME TypesInv, SoundInv, NEW p \in Procs, Apart(p), mode[p] # "closed", ~spoiled', Changes(p)
    PROVE  /\ OneChanges' /\ ~stale[p] /\ ~stale'[p]
           /\ \A q \in Procs \ {p} : stale[q] => stale'[q]
<1>1. ~stale[p] /\ ~stale'[p]
  BY DEF Changes
<1>2. \A q \in Procs \ {p} : (mode[q] # "closed" => stale'[q]) /\ (stale[q] => stale'[q])
  BY DEF Changes
<1>3. ASSUME NEW q \in Procs \ {p} PROVE ~Changing(q)' /\ mode'[q] = mode[q]
  <2>1. ~Changing(q)
    BY <1>1 DEF SoundInv, OneChanges
  <2> QED
    BY <2>1 DEF Apart, Changing
<1> QED
  BY <1>1, <1>2, <1>3 DEF OneChanges

LEMMA SoundPreserved ==
    ASSUME TypesInv, SoundInv, NEW p \in Procs, Apart(p), inserted \subseteq inserted',
           disk' = disk \/ (Changing(p) /\ Extends(disk.contents, disk'.contents)),
           \A q \in Procs \ {p} : stale[q] => stale'[q],
           OneChanges', Sound(disk', inserted'), Knows(p)'
    PROVE  SoundInv'
<1>1. \A q \in Procs : Knows(q)'
  BY OthersKnow
<1> QED
  BY <1>1 DEF SoundInv

LEMMA OnceIs ==
    ASSUME TypesInv, NEW id, NEW img
    PROVE  Once(id, img, inserted, FALSE) <=> <<id, img>> \in inserted
<1>1. \A image \in inserted : image = <<image[1], image[2]>>
  BY DEF TypesInv
<1>2. <<id, img>>[1] = id /\ <<id, img>>[2] = img
  OBVIOUS
<1> QED
  BY <1>1, <1>2 DEF Once

\* What the file says is what p says, if p reads all of it at once.
LEMMA FreshRemembers ==
    ASSUME TypesInv, SoundInv, NEW cut
    PROVE  /\ HoldsAll(disk.metadata, disk.contents)
           /\ \A i \in Slots : disk.metadata[i].is_valid =>
                Once(disk.metadata[i].img_id, disk.metadata[i].SHA, inserted, cut)
<1>1. Sound(disk, inserted)
  BY DEF SoundInv
<1>2. \A id, img : Once(id, img, inserted, FALSE) => Once(id, img, inserted, cut)
  BY DEF Once
<1> QED
  BY <1>1, <1>2, OnceIs DEF Sound

LEMMA SoundOpenHeader ==
    ASSUME TypesInv, SoundInv, NEW p \in Procs, NEW m \in {"rb", "rb+"}, Apart(p), OpenHeader(p, m)
    PROVE  SoundInv'
<1>1. /\ mode[p] = "closed" /\ pending[p] = <<>> /\ pc[p] = "idle" /\ ~torn[p]
  BY DEF OpenHeader, TypesInv, Local, SoundInv, Knows
<1>2. /\ disk' = disk /\ pending' = pending /\ torn' = torn /\ inserted' = inserted
      /\ metadata'[p] = disk.metadata /\ pc'[p] = "open" /\ mode'[p] # "closed"
      /\ stale'[p] = \E q \in Procs : Changing(q)
      /\ \A q \in Procs \ {p} : stale'[q] = stale[q]
  BY DEF OpenHeader, TypesInv
<1>3. View(p)' = disk
  BY <1>1, <1>2, NoneBuffered
<1>4. ~Changing(p) /\ ~Changing(p)'
  BY <1>1, <1>2 DEF Changing
<1>5. OneChanges'
  <2>1. ASSUME NEW q \in Procs, Changing(q)' PROVE
            /\ ~stale'[q]
            /\ \A r \in Procs \ {q} : ~Changing(r)' /\ (mode'[r] # "closed" => stale'[r])
    <3>1. q # p /\ Changing(q) /\ ~stale'[q]
      BY <1>2, <1>4, <2>1 DEF Apart, Changing, SoundInv, OneChanges
    <3>2. ASSUME NEW r \in Procs \ {q}, r # p PROVE ~Changing(r)' /\ (mode'[r] # "closed" => stale'[r])
      BY <1>2, <3>1, <3>2 DEF Apart, Changing, SoundInv, OneChanges
    <3>3. stale'[p]
      BY <1>2, <3>1
    <3> QED
      BY <1>4, <3>1, <3>2, <3>3
  <2> QED
    BY <2>1 DEF OneChanges
<1>6. Remembers(p)'
  BY <1>2, <1>3, FreshRemembers DEF Remembers, InFlight
<1>7. Follows(p)'
  <2>1. Sound(disk, inserted)
    BY DEF SoundInv
  <2>2. \A n \in DOMAIN pending'[p] : FALSE
    BY <1>1, <1>2, NoneBuffered
  <2>3. \A i \in Slots : Alike(metadata'[p][i], View(p)'.metadata[i])
    BY <1>2, <1>3 DEF Alike
  <2>4. ~InFlight(p)'
    BY <1>2 DEF InFlight
  <2> QED
    BY <1>1, <1>2, <1>3, <2>1, <2>2, <2>3, <2>4 DEF Follows, Sound
<1>8. Knows(p)'
  BY <1>2, <1>6, <1>7 DEF Knows
<1> QED
  BY <1>2, <1>5, <1>8, SoundPreserved DEF SoundInv

LEMMA SoundOpenTable ==
    ASSUME TypesInv, SoundInv, NEW p \in Procs, Apart(p), OpenTable(p)
    PROVE  SoundInv'
<1>1. pc[p] = "open" /\ pending[p] = <<>> /\ mode[p] # "closed"
  BY DEF OpenTable, TypesInv, Local, Buffered
<1>2. PICK table \in [Slots -> Entry] :
        metadata' = [metadata EXCEPT ![p] = table] /\ Cut(table, metadata[p], disk.metadata)
  BY OpenTableIs
<1>3. /\ disk' = disk /\ pending' = pending /\ inserted' = inserted /\ mode' = mode /\ stale' = stale
      /\ metadata'[p] = table /\ pc'[p] = "idle" /\ torn'[p] = (metadata[p] # disk.metadata)
  BY <1>2 DEF OpenTable, TypesInv
<1>4. View(p) = disk /\ View(p)' = disk
  BY <1>1, <1>3, WrittenNone, NoneBuffered DEF View
<1>5. ~Changing(p) /\ ~Changing(p)'
  BY <1>1, <1>3 DEF Changing
<1>6. Remembers(p) /\ (~stale[p] => Follows(p))
  BY <1>1 DEF SoundInv, Knows
<1>7. disk.metadata \in [Slots -> Entry] /\ metadata[p] \in [Slots -> Entry]
  BY FileIs DEF TypesInv
<1>8. ASSUME metadata[p] = disk.metadata PROVE table = disk.metadata
  <2>1. ASSUME NEW i \in Slots PROVE table[i] = disk.metadata[i]
    <3>1. disk.metadata[i] \in Entry
      BY <1>7
    <3>2. [disk.metadata[i] EXCEPT !.img_id = disk.metadata[i].img_id] = disk.metadata[i]
      BY <3>1, TypesAre
    <3> QED
      BY <1>2, <1>8, <3>2 DEF Cut
  <2> QED
    BY <1>2, <1>7, <2>1
<1>9. Remembers(p)'
  <2>1. ASSUME NEW i \in Slots, table[i].is_valid
        PROVE  /\ Holds(table[i], disk.contents)
               /\ Once(table[i].img_id, table[i].SHA, inserted, metadata[p] # disk.metadata)
    <3>1. CASE metadata[p] = disk.metadata
      BY <1>8, <2>1, <3>1, FreshRemembers DEF HoldsAll
    <3>2. CASE metadata[p] # disk.metadata
      <4> DEFINE new == disk.metadata[i]
                 e == [new EXCEPT !.img_id = metadata[p][i].img_id]
      <4>1. new \in Entry
        BY <1>7
      <4>2. e.is_valid = new.is_valid /\ e.SHA = new.SHA /\ e.offset = new.offset
        BY <4>1, TypesAre
      <4>3. new.is_valid => Holds(new, disk.contents) /\ \A id : Once(id, new.SHA, inserted, TRUE)
        BY FreshRemembers DEF HoldsAll, Once
      <4>4. metadata[p][i].is_valid =>
                Holds(metadata[p][i], disk.contents) /\ \A id : Once(id, metadata[p][i].SHA, inserted, TRUE)
        BY <1>4, <1>6 DEF Remembers, HoldsAll, Once
      <4>5. e.is_valid => Holds(e, disk.contents) /\ \A id : Once(id, e.SHA, inserted, TRUE)
        BY <4>2, <4>3 DEF Holds
      <4>6. table[i] = metadata[p][i] \/ table[i] = new \/ table[i] = e
        BY <1>2 DEF Cut
      <4> HIDE DEF new, e
      <4> QED
        BY <2>1, <3>2, <4>3, <4>4, <4>5, <4>6
    <3> QED
      BY <3>1, <3>2
  <2> QED
    BY <1>3, <1>4, <2>1 DEF Remembers, HoldsAll, InFlight
<1>10. ASSUME ~stale[p] PROVE Follows(p)'
  <2>1. Follows(p)
    BY <1>6, <1>10
  <2>2. metadata[p] = disk.metadata /\ table = disk.metadata
    BY <1>1, <1>8, <2>1 DEF Follows
  <2>3. \A n \in DOMAIN pending'[p] : FALSE
    BY <1>1, <1>3, NoneBuffered
  <2>4. \A i \in Slots : Alike(metadata'[p][i], View(p)'.metadata[i])
    BY <1>3, <1>4, <2>2 DEF Alike
  <2>5. Sound(View(p)', inserted') /\ Distinct(metadata'[p])
    BY <1>3, <1>4, <2>2 DEF SoundInv, Sound
  <2> QED
    BY <1>3, <2>2, <2>3, <2>4, <2>5 DEF Follows, InFlight
<1>11. Knows(p)'
  BY <1>1, <1>3, <1>9, <1>10 DEF Knows
<1>12. OneChanges'
  BY <1>1, <1>3, <1>5, OneStillChanges
<1> QED
  BY <1>3, <1>11, <1>12, SoundPreserved DEF SoundInv

LEMMA SoundForget ==
    ASSUME TypesInv, SoundInv, NEW p \in Procs, Apart(p), Forget(p), Sound(disk', inserted),
           disk' = disk \/ (Changing(p) /\ Extends(disk.contents, disk'.contents))
    PROVE  SoundInv'
<1>1. /\ mode'[p] = "closed" /\ pending'[p] = <<>> /\ pc'[p] = "idle" /\ ~torn'[p]
      /\ inserted' = inserted /\ \A q \in Procs \ {p} : stale'[q] = stale[q]
  BY DEF Forget, Continue, Buffer, TypesInv
<1>2. Knows(p)'
  BY <1>1 DEF Knows
<1>3. ~Changing(p)'
  BY <1>1 DEF Changing
<1>4. OneChanges'
  BY <1>1, <1>3, OneStillChanges
<1> QED
  BY <1>1, <1>2, <1>4, SoundPreserved

LEMMA SoundClose ==
    ASSUME TypesInv, SoundInv, NEW p \in Procs, Apart(p), Close(p)
    PROVE  SoundInv'
<1>1. disk' = View(p)
  BY FlushGrows DEF Close
<1> QED
  BY <1>1, FlushSound, SoundForget DEF Close

LEMMA SoundCrash ==
    ASSUME TypesInv, SoundInv, NEW p \in Procs, Apart(p), Crash(p)
    PROVE  SoundInv'
<1>1. disk \in File /\ Sound(disk, inserted) /\ Len(disk.contents) \in Nat
  BY FileIs DEF TypesInv, SoundInv
<1>2. Forget(p) /\ mode[p] # "closed"
  BY DEF Crash
<1>3. CASE disk' = disk \/ disk' = View(p)
  BY <1>1, <1>2, <1>3, FlushSound, SoundForget
<1>4. ASSUME NEW v \in HeaderWrites, pc[p] = "read_fetch", disk' = Write(disk, v)
      PROVE  SoundInv'
  <2>1. disk'.metadata = disk.metadata /\ disk'.contents = disk.contents
    BY <1>1, <1>4, HeaderWritten, FileIs
  <2>2. Changing(p) /\ Extends(disk.contents, disk'.contents)
    BY <1>1, <1>4, <2>1 DEF Changing, Extends
  <2> QED
    BY <1>1, <1>2, <2>1, <2>2, SoundForget DEF Sound
<1>5. ASSUME NEW w \in BlobWrites(Len(disk.contents) + 1), pending[p] = <<w>>,
             disk' = Write(disk, BlobWrite(w.at, Torn))
      PROVE  SoundInv'
  <2>1. pending[p] # <<>> /\ 1 \in DOMAIN pending[p] /\ pending[p][1] = w /\ w.to = "blob"
    BY <1>5 DEF BlobWrites
  <2>2. Changing(p) /\ ~stale[p]
    BY <2>1 DEF Changing, SoundInv, OneChanges
  <2>3. Follows(p)
    BY <1>2, <2>2 DEF SoundInv, Knows
  <2>4. w.at = Len(disk.contents) + 1
    BY <2>1, <2>3 DEF Follows
  <2>5. Extends(disk.contents, disk'.contents) /\ disk'.metadata = disk.metadata
    BY <1>1, <1>5, <2>4, AppendExtends
  <2>6. Sound(disk', inserted)
    BY <1>1, <2>5, SoundFurther
  <2> QED
    BY <1>2, <2>2, <2>5, <2>6, SoundForget
<1> QED
  BY <1>3, <1>4, <1>5, CrashWrites

LEMMA SoundReturn ==
    ASSUME TypesInv, SoundInv, NEW p \in Procs, Apart(p), Return(p)
    PROVE  SoundInv'
<1>1. /\ disk' = disk /\ metadata' = metadata /\ pending' = pending /\ inserted' = inserted
      /\ mode' = mode /\ stale' = stale /\ torn' = torn /\ pc[p] = "return" /\ pc'[p] = "idle"
  BY DEF Return, Continue, KeepsHistory, TypesInv
<1>2. View(p)' = View(p) /\ mode[p] # "closed"
  BY <1>1 DEF View, TypesInv, Local
<1>3. Remembers(p) /\ (~stale[p] => Follows(p))
  BY <1>2 DEF SoundInv, Knows
<1>4. Remembers(p)'
  BY <1>1, <1>2, <1>3 DEF Remembers, InFlight
<1>5. ASSUME ~stale[p] PROVE Follows(p)'
  BY <1>1, <1>2, <1>3, <1>5 DEF Follows, InFlight
<1>6. Knows(p)'
  BY <1>1, <1>2, <1>4, <1>5 DEF Knows
<1>7. Changing(p)' => Changing(p)
  BY <1>1 DEF Changing
<1>8. OneChanges'
  BY <1>1, <1>7, <1>2, OneStillChanges
<1> QED
  BY <1>1, <1>6, <1>8, SoundPreserved DEF SoundInv

\* A refused image changes no entry that is valid.
LEMMA SoundInsertRejected ==
    ASSUME TypesInv, SoundInv, NEW p \in Procs, Apart(p),
           NEW i \in Slots, NEW e \in Entry, Rejects(p, i, e)
    PROVE  SoundInv'
<1>1. /\ disk' = disk /\ pending' = pending /\ inserted' = inserted
      /\ mode' = mode /\ stale' = stale /\ torn' = torn /\ call' = call /\ slot' = slot
      /\ pc' = pc /\ pc[p] = "idle" /\ mode[p] # "closed"
  BY DEF Rejects, KeepsHistory
<1>2. View(p)' = View(p)
  BY <1>1 DEF View
<1>3. Remembers(p) /\ (~stale[p] => Follows(p))
  BY <1>1 DEF SoundInv, Knows
<1>4. /\ ~metadata[p][i].is_valid /\ ~metadata'[p][i].is_valid
      /\ \A j \in Slots \ {i} : metadata'[p][j] = metadata[p][j]
      /\ metadata'[p][i].is_valid = metadata[p][i].is_valid
  <2>1. metadata[p][i] \in Entry /\ ~metadata[p][i].is_valid /\ ~e.is_valid
    BY DEF Rejects, TypesInv
  <2>2. metadata[p][i].is_valid = FALSE /\ e.is_valid = FALSE
    BY <2>1, TypesAre
  <2>3. metadata'[p][i] = e /\ \A j \in Slots \ {i} : metadata'[p][j] = metadata[p][j]
    BY TableTypes DEF Rejects
  <2> QED
    BY <2>2, <2>3
<1>5. Remembers(p)'
  BY <1>1, <1>2, <1>3, <1>4 DEF Remembers, InFlight, HoldsAll
<1>6. ASSUME ~stale[p] PROVE Follows(p)'
  <2>1. Follows(p)
    BY <1>3, <1>6
  <2>2. Distinct(metadata'[p])
    BY <1>4, <2>1 DEF Follows, Distinct
  <2>3. \A j \in Slots : Alike(metadata'[p][j], View(p).metadata[j])
    BY <1>1, <1>4, <2>1 DEF Follows, InFlight, Alike
  <2> QED
    BY <1>1, <1>2, <2>1, <2>2, <2>3 DEF Follows, InFlight, Distinct
<1>7. Knows(p)'
  BY <1>1, <1>5, <1>6 DEF Knows
<1>8. Changing(p)' => Changing(p)
  BY <1>1 DEF Changing
<1>9. OneChanges'
  BY <1>1, <1>8, OneStillChanges
<1> QED
  BY <1>1, <1>7, <1>9, SoundPreserved DEF SoundInv

\* A flush, as all the calls do it.
LEMMA FlushIs ==
    ASSUME TypesInv, SoundInv, NEW p \in Procs, Flush(p), inserted \subseteq inserted'
    PROVE  /\ disk' = View(p) /\ disk' \in File /\ Sound(disk', inserted')
           /\ disk' = disk \/ (Changing(p) /\ Extends(disk.contents, disk'.contents))
<1>1. disk' = View(p) /\ disk' \in File
  BY FlushGrows, ViewTypes
<1>2. Sound(disk', inserted')
  BY <1>1, FlushSound DEF Sound
<1> QED
  BY <1>1, <1>2, FlushSound

\* A process that is in the middle of a change is not stale.
LEMMA ChangingFollows ==
    ASSUME TypesInv, SoundInv, NEW p \in Procs, Changing(p), mode[p] # "closed"
    PROVE  ~stale[p] /\ Remembers(p) /\ Follows(p)
  BY DEF SoundInv, OneChanges, Knows

\* fwrite() of entry i as p has it: the file says of i what p says.
LEMMA EntrySound ==
    ASSUME TypesInv, NEW p \in Procs, Remembers(p), ~torn[p], Distinct(metadata[p]),
           NEW f \in File, Sound(f, inserted), HoldsAll(metadata[p], f.contents), NEW i \in Slots,
           \A j \in Slots \ {i} : Alike(metadata[p][j], f.metadata[j])
    PROVE  LET g == Write(f, EntryWrite(i, metadata[p][i]))
           IN  /\ Sound(g, inserted) /\ g.contents = f.contents
               /\ \A j \in Slots : Alike(metadata[p][j], g.metadata[j])
<1> DEFINE e == metadata[p][i]
           w == EntryWrite(i, e)
           g == Write(f, w)
<1>1. e \in Entry /\ f.metadata \in [Slots -> Entry]
  BY FileIs DEF TypesInv
<1>2. w \in EntryWrites /\ w.at = i /\ w.value = e
  BY <1>1, WritesAre DEF EntryWrite
<1>3. g = [f EXCEPT !.metadata[i] = e]
  BY <1>2, EntryWritten
<1>4. g.contents = f.contents /\ g.metadata = [f.metadata EXCEPT ![i] = e]
  BY <1>3, FileIs
<1> HIDE DEF g, w
<1>5. g.metadata[i] = e /\ \A j \in Slots \ {i} : g.metadata[j] = f.metadata[j]
  BY <1>1, <1>4
<1>6. \A j \in Slots : Alike(metadata[p][j], g.metadata[j])
  BY <1>5 DEF Alike
<1>7. Distinct(g.metadata)
  BY <1>6 DEF Alike, Distinct
<1>8. HoldsAll(g.metadata, g.contents)
  BY <1>4, <1>5 DEF HoldsAll, Sound
<1>9. ASSUME NEW j \in Slots, g.metadata[j].is_valid
      PROVE  <<g.metadata[j].img_id, g.metadata[j].SHA>> \in inserted
  <2>1. CASE j = i
    <3>1. torn[p] = FALSE
      BY DEF TypesInv
    <3>2. Once(e.img_id, e.SHA, inserted, torn[p])
      BY <1>5, <1>9, <2>1 DEF Remembers
    <3> QED
      BY <1>5, <2>1, <3>1, <3>2, OnceIs
  <2>2. CASE j # i
    BY <1>5, <1>9, <2>2 DEF Sound
  <2> QED
    BY <2>1, <2>2
<1> QED
  BY <1>4, <1>6, <1>7, <1>8, <1>9 DEF Sound, g, w

LEMMA SoundWriteHeader ==
    ASSUME TypesInv, SoundInv, NEW p \in Procs, TypesInv', Apart(p),
           WriteHeader(p, "insert_header", "insert_entry")
    PROVE  SoundInv'
<1> DEFINE w == HeaderWrite(header[p])
<1>1. /\ pc[p] = "insert_header" /\ pc'[p] = "insert_entry" /\ call'[p] = call[p] /\ slot'[p] = slot[p]
      /\ pending'[p] = <<w>> /\ metadata' = metadata /\ Flush(p) /\ mode[p] # "closed"
      /\ mode' = mode /\ stale' = stale /\ torn' = torn /\ inserted' = inserted
  BY DEF WriteHeader, Continue, Buffer, KeepsHistory, TypesInv, Local
<1>2. Changing(p)
  BY <1>1 DEF Changing
<1>3. Remembers(p) /\ Follows(p) /\ ~stale[p]
  BY <1>1, <1>2, ChangingFollows
<1>4. /\ disk' = View(p) /\ disk' \in File /\ Sound(disk', inserted')
      /\ disk' = disk \/ (Changing(p) /\ Extends(disk.contents, disk'.contents))
  BY <1>1, FlushIs
<1>5. w \in HeaderWrites /\ w.to = "header"
  BY WritesAre DEF TypesInv, HeaderWrite
<1>6. View(p)' = Write(disk', w) /\ \A n \in DOMAIN pending'[p] : pending'[p][n] = w
  BY <1>1, OneBuffered
<1>7. View(p)'.metadata = View(p).metadata /\ View(p)'.contents = View(p).contents
  BY <1>4, <1>5, <1>6, HeaderWritten, FileIs
<1>8. Remembers(p)'
  BY <1>1, <1>3, <1>7 DEF Remembers, InFlight
<1>9. Follows(p)'
  <2>1. Sound(View(p)', inserted')
    BY <1>1, <1>3, <1>7 DEF Follows, Sound
  <2>2. \A i \in Slots : i = slot'[p] \/ Alike(metadata'[p][i], View(p)'.metadata[i])
    BY <1>1, <1>3, <1>7 DEF Follows, InFlight
  <2>3. metadata'[p][slot'[p]].is_valid /\ ~View(p)'.metadata[slot'[p]].is_valid
    BY <1>1, <1>3, <1>7 DEF Follows
  <2> QED
    BY <1>1, <1>3, <1>5, <1>6, <2>1, <2>2, <2>3 DEF Follows, InFlight
<1>10. Knows(p)'
  BY <1>1, <1>8, <1>9 DEF Knows
<1>11. OneChanges'
  BY <1>1, <1>2, OneStillChanges
<1> QED
  BY <1>1, <1>4, <1>10, <1>11, SoundPreserved

LEMMA SoundWriteEntry ==
    ASSUME TypesInv, SoundInv, NEW p \in Procs, TypesInv', Apart(p),
           NEW from \in {"insert_entry", "delete_entry"}, WriteEntry(p, from)
    PROVE  SoundInv'
<1> DEFINE i == slot[p]
           w == EntryWrite(i, metadata[p][i])
<1>1. /\ pc[p] = from /\ pc'[p] = "return" /\ call'[p].op = call[p].op /\ i \in Slots
      /\ pending'[p] = <<w>> /\ metadata' = metadata /\ Flush(p) /\ mode[p] # "closed"
      /\ mode' = mode /\ stale' = stale /\ torn' = torn /\ inserted' = inserted
  <2>1. call[p] \in Calls
    BY DEF TypesInv
  <2>2. [call[p] EXCEPT !.ret = "ERR_NONE", !.data = NoImage].op = call[p].op
    BY <2>1, CallsAre
  <2> QED
    BY <2>2 DEF WriteEntry, Answer, Continue, Buffer, KeepsHistory, TypesInv, Local
<1>2. Changing(p)
  BY <1>1 DEF Changing
<1>3. Remembers(p) /\ Follows(p) /\ ~stale[p]
  BY <1>1, <1>2, ChangingFollows
<1>4. /\ disk' = View(p) /\ disk' \in File /\ Sound(disk', inserted')
      /\ disk' = disk \/ (Changing(p) /\ Extends(disk.contents, disk'.contents))
  BY <1>1, FlushIs
<1>5. w.to = "entry" /\ w.at = i /\ w.value = metadata[p][i]
  BY DEF EntryWrite
<1>6. View(p)' = Write(disk', w) /\ \A n \in DOMAIN pending'[p] : pending'[p][n] = w
  BY <1>1, OneBuffered
<1>7. /\ Sound(View(p)', inserted) /\ View(p)'.contents = View(p).contents
      /\ \A j \in Slots : Alike(metadata[p][j], View(p)'.metadata[j])
  <2>1. \A j \in Slots \ {i} : Alike(metadata[p][j], disk'.metadata[j])
    BY <1>3, <1>4 DEF Follows
  <2>2. Sound(disk', inserted) /\ HoldsAll(metadata[p], disk'.contents) /\ ~torn[p] /\ Distinct(metadata[p])
    BY <1>1, <1>3, <1>4 DEF Follows, Remembers
  <2> QED
    BY <1>1, <1>3, <1>4, <1>6, <2>1, <2>2, EntrySound
<1>8. Keeps(w, disk')
  <2>1. CASE from = "insert_entry"
    BY <1>1, <1>3, <1>4, <1>5, <2>1 DEF Follows, Keeps
  <2>2. CASE from = "delete_entry"
    BY <1>1, <1>3, <1>4, <1>5, <2>2 DEF Follows, Keeps
  <2> QED
    BY <2>1, <2>2
<1>9. Remembers(p)'
  <2>1. call'[p].op # "read"
    BY <1>1, <1>3 DEF Remembers, InFlight
  <2> QED
    BY <1>1, <1>3, <1>7, <2>1 DEF Remembers, InFlight, ReadTrue
<1>10. Follows(p)'
  BY <1>1, <1>3, <1>5, <1>6, <1>7, <1>8 DEF Follows, InFlight
<1>11. Knows(p)'
  BY <1>1, <1>9, <1>10 DEF Knows
<1>12. OneChanges'
  BY <1>1, <1>2, OneStillChanges
<1> QED
  BY <1>1, <1>4, <1>11, <1>12, SoundPreserved

LEMMA SoundResizeHeader ==
    ASSUME TypesInv, SoundInv, NEW p \in Procs, TypesInv', Apart(p), ResizeHeader(p)
    PROVE  SoundInv'
<1> DEFINE v == HeaderWrite(header[p])
           w == EntryWrite(0, metadata[p][0])
           f == Write(disk', v)
<1>1. /\ pc[p] = "resize_header" /\ pc'[p] = "read_fetch" /\ call'[p] = call[p] /\ slot'[p] = slot[p]
      /\ pending'[p] = <<v, w>> /\ metadata' = metadata /\ Flush(p) /\ mode[p] # "closed"
      /\ mode' = mode /\ stale' = stale /\ torn' = torn /\ inserted' = inserted
  BY DEF ResizeHeader, Continue, Buffer, KeepsHistory, TypesInv, Local
<1>2. Changing(p)
  BY <1>1 DEF Changing
<1>3. Remembers(p) /\ Follows(p) /\ ~stale[p]
  BY <1>1, <1>2, ChangingFollows
<1>4. /\ disk' = View(p) /\ disk' \in File /\ Sound(disk', inserted')
      /\ disk' = disk \/ (Changing(p) /\ Extends(disk.contents, disk'.contents))
  BY <1>1, FlushIs
<1>5. v \in HeaderWrites /\ v.to = "header" /\ w.to = "entry" /\ w.at = 0 /\ w.value = metadata[p][0]
  BY WritesAre DEF TypesInv, HeaderWrite, EntryWrite
<1>6. View(p)' = Write(f, w) /\ \A n \in DOMAIN pending'[p] : pending'[p][n] = v \/ pending'[p][n] = w
  BY <1>1, TwoBuffered
<1>7. f \in File /\ f.metadata = disk'.metadata /\ f.contents = disk'.contents
  BY <1>4, <1>5, HeaderWritten, FileIs
<1> HIDE DEF f
<1>8. 0 \in Slots /\ ~InFlight(p)
  BY <1>1, TypesAre, SharedAssumption DEF InFlight
<1>9. /\ Sound(View(p)', inserted) /\ View(p)'.contents = View(p).contents
      /\ \A j \in Slots : Alike(metadata[p][j], View(p)'.metadata[j])
  <2>1. \A j \in Slots \ {0} : Alike(metadata[p][j], f.metadata[j])
    BY <1>3, <1>4, <1>7, <1>8 DEF Follows
  <2>2. Sound(f, inserted) /\ HoldsAll(metadata[p], f.contents) /\ ~torn[p] /\ Distinct(metadata[p])
    BY <1>1, <1>3, <1>4, <1>7 DEF Follows, Remembers, Sound
  <2> QED
    BY <1>3, <1>4, <1>6, <1>7, <1>8, <2>1, <2>2, EntrySound
<1>10. Keeps(w, disk')
  BY <1>3, <1>4, <1>5, <1>8 DEF Follows, Keeps
<1>11. Remembers(p)'
  BY <1>1, <1>3, <1>9 DEF Remembers, InFlight
<1>12. Follows(p)'
  BY <1>1, <1>3, <1>5, <1>6, <1>9, <1>10 DEF Follows, InFlight
<1>13. Knows(p)'
  BY <1>1, <1>11, <1>12 DEF Knows
<1>14. OneChanges'
  BY <1>1, <1>2, OneStillChanges
<1> QED
  BY <1>1, <1>4, <1>13, <1>14, SoundPreserved

\* What fread() gets at an offset of an entry in use is its image.
LEMMA SoundFetch ==
    ASSUME TypesInv, SoundInv, NEW p \in Procs, TypesInv', Apart(p), mode[p] # "closed", ~InFlight(p),
           pc[p] # "open", NEW c \in Calls, NEW i \in Slots, metadata[p][i].is_valid,
           metadata[p][i].img_id = c.id, Fetch(p, c, metadata[p][i].offset[c.res])
    PROVE  SoundInv'
<1> DEFINE offset == metadata[p][i].offset[c.res]
<1>1. /\ pc'[p] = "return" /\ pending'[p] = <<>> /\ metadata' = metadata /\ Flush(p)
      /\ mode' = mode /\ stale' = stale /\ torn' = torn /\ inserted' = inserted
  BY DEF Fetch, Answer, Continue, Buffer, KeepsHistory, TypesInv
<1>2. Remembers(p) /\ (~stale[p] => Follows(p))
  BY DEF SoundInv, Knows
<1>3. /\ disk' = View(p) /\ disk' \in File /\ Sound(disk', inserted')
      /\ disk' = disk \/ (Changing(p) /\ Extends(disk.contents, disk'.contents))
  BY <1>1, FlushIs
<1>4. View(p)' = View(p) /\ \A n \in DOMAIN pending'[p] : FALSE
  BY <1>1, <1>3, NoneBuffered
<1>5. c.res \in Resolutions
  BY CallsAre
<1>6. ReadTrue(call'[p], inserted, torn[p])
  <2>1. CASE Proc(p)!Readable(disk', offset)
    <3>1. offset \in 1 .. Len(disk'.contents)
      BY <2>1 DEF Proc!Readable
    <3>2. disk'.contents[offset] = [img |-> metadata[p][i].SHA, res |-> c.res]
      BY <1>2, <1>3, <1>5, <3>1 DEF Remembers, HoldsAll, Holds
    <3>3. call'[p] = [c EXCEPT !.ret = "ERR_NONE", !.data = disk'.contents[offset]]
      BY <2>1 DEF Fetch, Answer, Continue, TypesInv
    <3>4. call'[p].res = c.res /\ call'[p].id = c.id /\ call'[p].data = disk'.contents[offset]
      BY <3>3, CallsAre
    <3>5. Once(c.id, metadata[p][i].SHA, inserted, torn[p])
      BY <1>2 DEF Remembers
    <3> QED
      BY <3>2, <3>4, <3>5 DEF ReadTrue
  <2>2. CASE ~Proc(p)!Readable(disk', offset)
    <3>1. call'[p] = [c EXCEPT !.ret = "ERR_IO"]
      BY <2>2 DEF Fetch, Continue, TypesInv
    <3>2. call'[p].ret = "ERR_IO"
      BY <3>1, CallsAre
    <3> QED
      BY <3>2 DEF ReadTrue
  <2> QED
    BY <2>1, <2>2
<1>7. Remembers(p)'
  BY <1>1, <1>2, <1>4, <1>6 DEF Remembers, InFlight
<1>8. ASSUME ~stale[p] PROVE Follows(p)'
  BY <1>1, <1>2, <1>4, <1>8 DEF Follows, InFlight
<1>9. Knows(p)'
  BY <1>1, <1>7, <1>8 DEF Knows
<1>10. ~Changing(p)'
  BY <1>1 DEF Changing
<1>11. OneChanges'
  BY <1>1, <1>10, OneStillChanges
<1> QED
  BY <1>1, <1>3, <1>9, <1>11, SoundPreserved

LEMMA SoundReadStored ==
    ASSUME TypesInv, SoundInv, NEW p \in Procs, TypesInv', Apart(p),
           NEW id \in ImgIds, NEW res \in Resolutions, ReadStored(p, id, res)
    PROVE  SoundInv'
<1> DEFINE c == Proc(p)!ReadCall(id, res)
<1>1. PICK i \in Proc(p)!FirstOf(Proc(p)!Named(id)) :
        metadata[p][i].is_valid /\ Fetch(p, c, metadata[p][i].offset[res])
  BY DEF ReadStored
<1>2. i \in Slots /\ metadata[p][i].img_id = id
  BY ProcIs DEF Proc!FirstOf, Proc!Named
<1>3. c \in Calls /\ c.id = id /\ c.res = res
  BY RequestTypes
<1>4. mode[p] # "closed" /\ pc[p] = "idle"
  BY DEF ReadStored, Proc!Idle
<1> QED
  BY <1>1, <1>2, <1>3, <1>4, SoundFetch DEF InFlight

LEMMA SoundReadFetch ==
    ASSUME TypesInv, SoundInv, NEW p \in Procs, TypesInv', Apart(p), ReadFetch(p)
    PROVE  SoundInv'
<1>1. pc[p] = "read_fetch" /\ mode[p] # "closed" /\ slot[p] \in Slots /\ call[p] \in Calls
  BY DEF ReadFetch, TypesInv, Local
<1>2. metadata[p][slot[p]].is_valid /\ metadata[p][slot[p]].img_id = call[p].id
  BY <1>1 DEF SoundInv, Knows, Remembers
<1> QED
  BY <1>1, <1>2, SoundFetch DEF ReadFetch, InFlight

\* p begins to change the file: it is not stale, so that its table is the file's.
LEMMA BeginFollows ==
    ASSUME TypesInv, SoundInv, NEW p \in Procs, mode[p] # "closed", pc[p] = "idle",
           ~spoiled', Changes(p)
    PROVE  /\ Remembers(p) /\ Follows(p)
           /\ \A i \in Slots : Alike(metadata[p][i], View(p).metadata[i])
  BY DEF Changes, SoundInv, Knows, Follows, InFlight

\* p appends the blob b to the file it has flushed, and changes entry i of its
\* table to e, whose offsets are those of its image.
HoldsWith(p, e, b) ==
    \A r \in Resolutions :
        \/ r # "orig" /\ e.offset[r] = 0
        \/ e.offset[r] = EndOf(p, disk') /\ b = [img |-> e.SHA, res |-> r]
        \/ /\ e.offset[r] \in 1 .. Len(disk'.contents)
           /\ disk'.contents[e.offset[r]] = [img |-> e.SHA, res |-> r]
NamedNoOther(p, i, id) == \A j \in Slots \ {i} : metadata[p][j].is_valid => metadata[p][j].img_id # id
GoesOn(p, i, e) ==
    \/ /\ pc'[p] = "insert_header" /\ call'[p].op # "read"
       /\ ~metadata[p][i].is_valid
    \/ /\ pc'[p] = "resize_header" /\ call'[p].op = "read" /\ call'[p].id = e.img_id
       /\ Alike(e, metadata[p][i])

LEMMA SoundAppend ==
    ASSUME TypesInv, SoundInv, NEW p \in Procs, TypesInv', Apart(p), mode[p] # "closed", pc[p] = "idle",
           ~spoiled', Changes(p), Flush(p), inserted \subseteq inserted',
           NEW b \in Content, Buffer(p, <<BlobWrite(EndOf(p, disk'), b)>>),
           NEW i \in Slots, NEW e \in Entry, metadata' = [metadata EXCEPT ![p][i] = e], slot'[p] = i,
           NamedNoOther(p, i, e.img_id), e.is_valid, Once(e.img_id, e.SHA, inserted', FALSE),
           HoldsWith(p, e, b), GoesOn(p, i, e)
    PROVE  SoundInv'
<1> USE DEF HoldsWith, NamedNoOther, GoesOn
<1> DEFINE at == EndOf(p, disk')
           w == BlobWrite(at, b)
<1>1. Remembers(p) /\ Follows(p) /\ \A j \in Slots : Alike(metadata[p][j], View(p).metadata[j])
  BY BeginFollows
<1>2. /\ disk' = View(p) /\ disk' \in File /\ Sound(disk', inserted')
      /\ disk' = disk \/ (Changing(p) /\ Extends(disk.contents, disk'.contents))
  BY FlushIs
<1>3. OneChanges' /\ ~stale'[p] /\ \A q \in Procs \ {p} : stale[q] => stale'[q]
  BY OneBegins
<1>4. pending'[p] = <<w>> /\ mode'[p] # "closed" /\ torn' = torn /\ ~torn[p]
  BY <1>1 DEF Buffer, Changes, Follows, TypesInv
<1>5. metadata'[p][i] = e /\ \A j \in Slots \ {i} : metadata'[p][j] = metadata[p][j]
  BY TableTypes
<1>6. at = Len(disk'.contents) + 1 /\ Len(disk'.contents) \in Nat
  BY <1>2, FileIs DEF EndOf
<1>7. w.to = "blob" /\ w.at = at
  BY DEF BlobWrite
<1>8. View(p)' = Write(disk', w) /\ \A n \in DOMAIN pending'[p] : pending'[p][n] = w
  BY <1>4, OneBuffered
<1>9. /\ View(p)'.metadata = disk'.metadata /\ Extends(disk'.contents, View(p)'.contents)
      /\ Len(View(p)'.contents) = at /\ View(p)'.contents[at] = b
  BY <1>2, <1>6, <1>8, AppendExtends
<1> HIDE DEF at, w
<1>10. Sound(View(p)', inserted')
  BY <1>2, <1>9, SoundFurther
<1>11. Holds(e, View(p)'.contents)
  <2>1. at \in 1 .. Len(View(p)'.contents)
    BY <1>6, <1>9
  <2>2. \A k \in 1 .. Len(disk'.contents) :
            k \in 1 .. Len(View(p)'.contents) /\ View(p)'.contents[k] = disk'.contents[k]
    BY <1>9 DEF Extends
  <2>3. ASSUME NEW r \in Resolutions
        PROVE  \/ r # "orig" /\ e.offset[r] = 0
               \/ /\ e.offset[r] \in 1 .. Len(View(p)'.contents)
                  /\ View(p)'.contents[e.offset[r]] = [img |-> e.SHA, res |-> r]
    BY <1>9, <2>1, <2>2 DEF at
  <2> QED
    BY <2>3 DEF Holds
<1>12. HoldsAll(metadata'[p], View(p)'.contents)
  <2>1. HoldsAll(metadata[p], View(p)'.contents)
    BY <1>1, <1>2, <1>9, HoldsFurther DEF Remembers
  <2> QED
    BY <1>5, <1>11, <2>1 DEF HoldsAll
<1>13. \A j \in Slots : metadata'[p][j].is_valid =>
            Once(metadata'[p][j].img_id, metadata'[p][j].SHA, inserted', torn'[p])
  <2>1. torn'[p] = FALSE
    BY <1>4 DEF TypesInv
  <2>2. \A j \in Slots : metadata[p][j].is_valid =>
            Once(metadata[p][j].img_id, metadata[p][j].SHA, inserted', torn[p])
    BY <1>1, OnceMore DEF Remembers
  <2> QED
    BY <1>4, <1>5, <2>1, <2>2
<1>14. Remembers(p)'
  BY <1>5, <1>12, <1>13 DEF Remembers, InFlight
<1>15. Distinct(metadata'[p])
  BY <1>1, <1>5 DEF Follows, Distinct
<1>16. \A j \in Slots \ {i} : Alike(metadata'[p][j], View(p)'.metadata[j])
  BY <1>1, <1>2, <1>5, <1>9
<1>17. Follows(p)'
  <2>1. /\ \A n \in DOMAIN pending'[p] : pending'[p][n].to # "entry"
        /\ \A n \in DOMAIN pending'[p] : pending'[p][n].at = Len(disk'.contents) + 1
    BY <1>6, <1>7, <1>8
  <2>2. CASE pc'[p] = "insert_header" /\ ~metadata[p][i].is_valid
    <3>1. ~View(p)'.metadata[i].is_valid
      BY <1>1, <1>2, <1>9, <2>2 DEF Alike
    <3> QED
      BY <1>4, <1>5, <1>10, <1>15, <1>16, <2>1, <2>2, <3>1 DEF Follows, InFlight
  <2>3. CASE pc'[p] = "resize_header" /\ Alike(e, metadata[p][i])
    <3>1. Alike(metadata'[p][i], View(p)'.metadata[i])
      BY <1>1, <1>2, <1>5, <1>9, <2>3 DEF Alike
    <3> QED
      BY <1>4, <1>10, <1>15, <1>16, <2>1, <2>3, <3>1 DEF Follows, InFlight
  <2> QED
    BY <2>2, <2>3
<1>18. Knows(p)'
  BY <1>4, <1>14, <1>17 DEF Knows
<1> QED
  BY <1>2, <1>3, <1>18, SoundPreserved

LEMMA SoundInsert ==
    ASSUME TypesInv, SoundInv, NEW p \in Procs, TypesInv', Apart(p), ~spoiled',
           NEW id \in ImgIds, NEW img \in Images, Insert(p, id, img)
    PROVE  SoundInv'
<1>1. PICK i \in Slots, offset \in [Resolutions -> Nat] : Inserts(p, i, id, img, offset)
  BY InsertIs
<1>2. /\ pc[p] = "idle" /\ mode[p] # "closed" /\ Changes(p)
      /\ ~metadata[p][i].is_valid
      /\ \A j \in Slots : metadata[p][j].is_valid => metadata[p][j].img_id # id
      /\ inserted' = inserted \cup {<<id, img>>}
      /\ Continue(p, Proc(p)!InsertCall(id, img), i, "insert_header")
  BY <1>1 DEF Inserts
<1>3. pc'[p] = "insert_header" /\ call'[p].op # "read" /\ slot'[p] = i
  <2>1. Proc(p)!InsertCall(id, img) \in Calls /\ Proc(p)!InsertCall(id, img).op = "insert"
    BY RequestTypes
  <2>2. call'[p] = Proc(p)!InsertCall(id, img) /\ slot'[p] = i /\ pc'[p] = "insert_header"
    BY <1>2, <2>1, ContinueTypes DEF Pcs
  <2> QED
    BY <2>1, <2>2
<1>4. Remembers(p) /\ Follows(p) /\ \A j \in Slots : Alike(metadata[p][j], View(p).metadata[j])
  BY <1>2, BeginFollows
<1>5. "orig" \in Resolutions
  BY TypesAre
<1>6. Once(id, img, inserted', FALSE)
  <2>1. <<id, img>> \in inserted' /\ <<id, img>>[1] = id /\ <<id, img>>[2] = img
    BY <1>2
  <2> QED
    BY <2>1 DEF Once
\* The offsets do_insert() takes over are those of the same contents.
<1>7. ASSUME NEW j \in Slots, metadata[p][j].is_valid, metadata[p][j].SHA = img,
             offset = metadata[p][j].offset, NEW r \in Resolutions
      PROVE  \/ r # "orig" /\ offset[r] = 0
             \/ /\ offset[r] \in 1 .. Len(View(p).contents)
                /\ View(p).contents[offset[r]] = [img |-> img, res |-> r]
  BY <1>4, <1>7 DEF Remembers, HoldsAll, Holds
<1>8. CASE Appends(p, i, id, img, offset)
  <2> DEFINE at == EndOf(p, disk')
             o == [offset EXCEPT !["orig"] = at]
             e == FreshEntry(id, img, o)
  <2>1. Flush(p) /\ Buffer(p, <<BlobWrite(EndOf(p, disk'), Original(img))>>)
        /\ metadata' = [metadata EXCEPT ![p][i] = e] /\ offset["orig"] = 0
    BY <1>8 DEF Appends
  <2>2. disk' = View(p) /\ Len(disk'.contents) \in Nat
    BY <2>1, FlushGrows, ViewTypes
  <2>3. at \in Nat
    BY <2>2 DEF EndOf
  <2> HIDE DEF at
  <2>4. o \in [Resolutions -> Nat] /\ o["orig"] = at /\ \A r \in Resolutions \ {"orig"} : o[r] = offset[r]
    BY <1>5, <2>3
  <2>5. \A r \in Resolutions : offset[r] = 0
    <3>1. ASSUME NEW j \in Slots, metadata[p][j].is_valid, metadata[p][j].SHA = img,
                 offset = metadata[p][j].offset
          PROVE  FALSE
      <4>1. offset["orig"] \in 1 .. Len(View(p).contents)
        BY <1>5, <1>7, <3>1
      <4>2. Len(View(p).contents) \in Nat /\ offset["orig"] = 0
        BY <2>1, <2>2
      <4> QED
        BY <4>1, <4>2
    <3> QED
      BY <1>1, <3>1 DEF Inserts
  <2> HIDE DEF o
  <2>6. e \in Entry /\ e.offset = o /\ e.is_valid /\ e.img_id = id /\ e.SHA = img
    BY <2>4, TypesAre DEF FreshEntry
  <2> HIDE DEF e
  <2>7. Original(img) \in Content /\ Original(img) = [img |-> img, res |-> "orig"]
    BY TypesAre DEF Original
  <2>8. \A r \in Resolutions :
            \/ r # "orig" /\ e.offset[r] = 0
            \/ e.offset[r] = EndOf(p, disk') /\ Original(img) = [img |-> e.SHA, res |-> r]
    BY <2>4, <2>5, <2>6, <2>7 DEF at
  <2>9. HoldsWith(p, e, Original(img))
    BY <2>8 DEF HoldsWith
  <2>10. NamedNoOther(p, i, e.img_id)
    BY <1>2, <2>6 DEF NamedNoOther
  <2>11. GoesOn(p, i, e)
    BY <1>2, <1>3 DEF GoesOn
  <2>12. Once(e.img_id, e.SHA, inserted', FALSE) /\ e.is_valid
    BY <1>6, <2>6
  <2>13. inserted \subseteq inserted' /\ mode[p] # "closed" /\ pc[p] = "idle" /\ Changes(p)
    BY <1>2
  <2>14. Flush(p) /\ Buffer(p, <<BlobWrite(EndOf(p, disk'), Original(img))>>)
         /\ metadata' = [metadata EXCEPT ![p][i] = e] /\ slot'[p] = i
    BY <1>3, <2>1
  <2> QED
    BY <2>6, <2>7, <2>9, <2>10, <2>11, <2>12, <2>13, <2>14, SoundAppend
<1>9. CASE Copies(p, i, id, img, offset)
  <2> DEFINE e == FreshEntry(id, img, offset)
  <2>1. disk' = disk /\ pending' = pending /\ metadata' = [metadata EXCEPT ![p][i] = e]
    BY <1>9 DEF Copies
  <2>2. e \in Entry /\ e.offset = offset /\ e.is_valid /\ e.img_id = id /\ e.SHA = img
    BY TypesAre DEF FreshEntry
  <2> HIDE DEF e
  <2>3. metadata'[p][i] = e /\ \A j \in Slots \ {i} : metadata'[p][j] = metadata[p][j]
    BY <2>1, <2>2, TableTypes
  <2>4. View(p)' = View(p)
    BY <2>1 DEF View
  <2>5. Holds(e, View(p).contents)
    BY <1>7, <1>9, <2>2 DEF Copies, Holds
  <2>6. torn' = torn /\ torn[p] = FALSE /\ mode'[p] # "closed"
    BY <1>2, <1>4 DEF Changes, Follows, TypesInv
  <2>7. \A j \in Slots : metadata'[p][j].is_valid =>
            Once(metadata'[p][j].img_id, metadata'[p][j].SHA, inserted', torn'[p])
    <3>1. \A j \in Slots : metadata[p][j].is_valid =>
            Once(metadata[p][j].img_id, metadata[p][j].SHA, inserted', torn[p])
      BY <1>2, <1>4, OnceMore DEF Remembers
    <3> QED
      BY <1>6, <2>2, <2>3, <2>6, <3>1
  <2>8. Remembers(p)'
    BY <1>3, <1>4, <2>3, <2>4, <2>5, <2>7 DEF Remembers, HoldsAll, InFlight
  <2>9. Distinct(metadata'[p])
    BY <1>2, <1>4, <2>2, <2>3 DEF Follows, Distinct
  <2>10. Sound(View(p)', inserted') /\ Sound(disk', inserted')
    BY <1>2, <1>4, <2>1, <2>4 DEF Follows, Sound, SoundInv
  <2>11. ~View(p)'.metadata[i].is_valid
    BY <1>2, <1>4, <2>4 DEF Alike
  <2>12. \A j \in Slots \ {i} : Alike(metadata'[p][j], View(p)'.metadata[j])
    BY <1>4, <2>3, <2>4
  <2>13. Follows(p)'
    BY <1>3, <1>4, <2>1, <2>2, <2>3, <2>6, <2>9, <2>10, <2>11, <2>12 DEF Follows, InFlight
  <2>14. Knows(p)'
    BY <2>6, <2>8, <2>13 DEF Knows
  <2> QED
    BY <1>2, <2>1, <2>10, <2>14, OneBegins, SoundPreserved
<1> QED
  BY <1>1, <1>8, <1>9 DEF Inserts

LEMMA SoundReadResize ==
    ASSUME TypesInv, SoundInv, NEW p \in Procs, TypesInv', Apart(p), ~spoiled',
           NEW id \in ImgIds, NEW res \in Resolutions, ReadResize(p, id, res)
    PROVE  SoundInv'
<1>1. PICK i \in Slots, img \in Images : Resizes(p, i, id, res, img)
  BY ReadResizeIs
<1> DEFINE at == EndOf(p, disk')
           o == [metadata[p][i].offset EXCEPT ![res] = at]
           e == [metadata[p][i] EXCEPT !.offset = o]
           b == [img |-> img, res |-> res]
           orig == metadata[p][i].offset["orig"]
<1>2. /\ pc[p] = "idle" /\ mode[p] # "closed" /\ Changes(p) /\ Flush(p) /\ inserted' = inserted
      /\ metadata[p][i].is_valid /\ metadata[p][i].img_id = id
      /\ orig \in 1 .. Len(disk'.contents) /\ img = disk'.contents[orig].img
      /\ Buffer(p, <<BlobWrite(EndOf(p, disk'), b)>>)
      /\ metadata' = [metadata EXCEPT ![p][i] = e]
      /\ Continue(p, Proc(p)!ReadCall(id, res), i, "resize_header")
      /\ res \in Resized
  BY <1>1 DEF Resizes
<1>3. pc'[p] = "resize_header" /\ call'[p].op = "read" /\ call'[p].id = id /\ slot'[p] = i
  <2> DEFINE c == Proc(p)!ReadCall(id, res)
  <2>1. c \in Calls /\ c.op = "read" /\ c.id = id
    BY RequestTypes
  <2>2. call'[p] = c /\ slot'[p] = i /\ pc'[p] = "resize_header"
    BY <1>2, <2>1, ContinueTypes DEF Pcs
  <2> QED
    BY <2>1, <2>2
<1>4. Remembers(p) /\ Follows(p)
  BY <1>2, BeginFollows
<1>5. disk' = View(p) /\ Len(disk'.contents) \in Nat
  BY <1>2, FlushGrows, ViewTypes
<1>6. at \in Nat
  BY <1>5 DEF EndOf
<1>7. "orig" \in Resolutions /\ res # "orig"
  BY <1>2, TypesAre, SharedAssumption
<1>8. \A r \in Resolutions :
        \/ r # "orig" /\ metadata[p][i].offset[r] = 0
        \/ /\ metadata[p][i].offset[r] \in 1 .. Len(disk'.contents)
           /\ disk'.contents[metadata[p][i].offset[r]] = [img |-> metadata[p][i].SHA, res |-> r]
  BY <1>2, <1>4, <1>5 DEF Remembers, HoldsAll, Holds
<1>9. img = metadata[p][i].SHA
  <2>1. disk'.contents[orig] = [img |-> metadata[p][i].SHA, res |-> "orig"]
    BY <1>7, <1>8
  <2> QED
    BY <1>2, <2>1
<1> HIDE DEF at
<1>10. metadata[p][i] \in Entry
  BY DEF TypesInv
<1>11. o \in [Resolutions -> Nat] /\ o[res] = at
       /\ \A r \in Resolutions \ {res} : o[r] = metadata[p][i].offset[r]
  BY <1>6, <1>10, TypesAre
<1> HIDE DEF o
<1>12. /\ e \in Entry /\ e.offset = o /\ e.is_valid /\ e.img_id = id /\ e.SHA = img
       /\ Alike(e, metadata[p][i])
  BY <1>2, <1>9, <1>10, <1>11, TypesAre DEF Alike
<1> HIDE DEF e
<1>13. \A r \in Resolutions :
        \/ r # "orig" /\ e.offset[r] = 0
        \/ e.offset[r] = EndOf(p, disk') /\ b = [img |-> e.SHA, res |-> r]
        \/ /\ e.offset[r] \in 1 .. Len(disk'.contents)
           /\ disk'.contents[e.offset[r]] = [img |-> e.SHA, res |-> r]
  BY <1>8, <1>9, <1>11, <1>12 DEF at
<1>14. b \in Content
  BY TypesAre
<1>15. \A j \in Slots \ {i} : metadata[p][j].is_valid => metadata[p][j].img_id # e.img_id
  BY <1>2, <1>4, <1>12 DEF Follows, Distinct
<1>16. Once(e.img_id, e.SHA, inserted', FALSE)
  <2>1. torn[p] = FALSE
    BY <1>4 DEF Follows, TypesInv
  <2> QED
    BY <1>2, <1>4, <1>9, <1>12, <2>1 DEF Remembers
<1>17. HoldsWith(p, e, b)
  BY <1>13 DEF HoldsWith
<1> HIDE DEF b
<1>18. NamedNoOther(p, i, e.img_id)
  BY <1>15 DEF NamedNoOther
<1>19. GoesOn(p, i, e)
  BY <1>3, <1>12 DEF GoesOn
<1>20. inserted \subseteq inserted' /\ mode[p] # "closed" /\ pc[p] = "idle" /\ Changes(p) /\ Flush(p)
  BY <1>2
<1>21. Buffer(p, <<BlobWrite(EndOf(p, disk'), b)>>) /\ metadata' = [metadata EXCEPT ![p][i] = e]
       /\ slot'[p] = i
  BY <1>2, <1>3
<1> QED
  BY <1>12, <1>14, <1>16, <1>17, <1>18, <1>19, <1>20, <1>21, SoundAppend

LEMMA SoundDelete ==
    ASSUME TypesInv, SoundInv, NEW p \in Procs, TypesInv', Apart(p), ~spoiled',
           NEW id \in ImgIds, Delete(p, id)
    PROVE  SoundInv'
<1>1. PICK i \in Slots : Deletes(p, i, id)
  BY DeleteIs
<1> DEFINE e == [metadata[p][i] EXCEPT !.is_valid = FALSE]
           w == HeaderWrite(header'[p])
<1>2. /\ pc[p] = "idle" /\ mode[p] # "closed" /\ Changes(p) /\ Flush(p) /\ inserted' = inserted
      /\ metadata[p][i].is_valid /\ metadata' = [metadata EXCEPT ![p][i] = e]
      /\ Buffer(p, <<w>>)
      /\ Continue(p, Proc(p)!DeleteCall(id), i, "delete_entry")
  BY <1>1 DEF Deletes
<1>3. pc'[p] = "delete_entry" /\ call'[p].op # "read" /\ slot'[p] = i
  <2> DEFINE c == Proc(p)!DeleteCall(id)
  <2>1. c \in Calls /\ c.op = "delete"
    BY RequestTypes
  <2>2. call'[p] = c /\ slot'[p] = i /\ pc'[p] = "delete_entry"
    BY <1>2, <2>1, ContinueTypes DEF Pcs
  <2> QED
    BY <2>1, <2>2
<1>4. Remembers(p) /\ Follows(p) /\ \A j \in Slots : Alike(metadata[p][j], View(p).metadata[j])
  BY <1>2, BeginFollows
<1>5. /\ disk' = View(p) /\ disk' \in File /\ Sound(disk', inserted')
      /\ disk' = disk \/ (Changing(p) /\ Extends(disk.contents, disk'.contents))
  BY <1>2, FlushIs
<1>6. metadata[p][i] \in Entry
  BY DEF TypesInv
<1>7. e \in Entry /\ ~e.is_valid /\ e.img_id = metadata[p][i].img_id
  BY <1>6, TypesAre
<1> HIDE DEF e
<1>8. metadata'[p][i] = e /\ \A j \in Slots \ {i} : metadata'[p][j] = metadata[p][j]
  BY <1>2, <1>7, TableTypes
<1>9. pending'[p] = <<w>> /\ torn' = torn /\ mode'[p] # "closed"
  BY <1>2 DEF Buffer, Changes, TypesInv
<1>10. w \in HeaderWrites /\ w.to = "header"
  BY WritesAre DEF TypesInv, HeaderWrite
<1> HIDE DEF w
<1>11. View(p)' = Write(disk', w) /\ \A n \in DOMAIN pending'[p] : pending'[p][n] = w
  BY <1>9, OneBuffered
<1>12. View(p)'.metadata = View(p).metadata /\ View(p)'.contents = View(p).contents
  BY <1>5, <1>10, <1>11, HeaderWritten, FileIs
<1>13. \A j \in Slots : metadata'[p][j].is_valid => j # i /\ metadata'[p][j] = metadata[p][j]
  BY <1>7, <1>8
<1>14. Remembers(p)'
  BY <1>2, <1>3, <1>4, <1>9, <1>12, <1>13 DEF Remembers, HoldsAll, InFlight
<1>15. Follows(p)'
  <2>1. Distinct(metadata'[p])
    BY <1>4, <1>13 DEF Follows, Distinct
  <2>2. Sound(View(p)', inserted')
    BY <1>2, <1>4, <1>12 DEF Follows, Sound
  <2>3. e.img_id = View(p)'.metadata[i].img_id
    BY <1>2, <1>4, <1>7, <1>12 DEF Alike
  <2>4. \A j \in Slots \ {i} : Alike(metadata'[p][j], View(p)'.metadata[j])
    BY <1>4, <1>8, <1>12
  <2> QED
    BY <1>3, <1>4, <1>7, <1>8, <1>9, <1>10, <1>11, <2>1, <2>2, <2>3, <2>4 DEF Follows, InFlight
<1>16. Knows(p)'
  BY <1>9, <1>14, <1>15 DEF Knows
<1> QED
  BY <1>2, <1>5, <1>16, OneBegins, SoundPreserved

\* Each step of a process, as long as none has changed the file from a stale copy.
LEMMA StepSound ==
    ASSUME TypesInv, SoundInv, NEW p \in Procs, Steps(p), ~spoiled'
    PROVE  SoundInv'
<1>1. TypesInv' /\ Apart(p)
  BY StepTypes
<1>2. ASSUME NEW m \in {"rb", "rb+"}, OpenHeader(p, m) PROVE SoundInv'
  BY <1>1, <1>2, SoundOpenHeader
<1>3. CASE OpenTable(p) \/ Close(p) \/ Crash(p) \/ Return(p)
  BY <1>1, <1>3, SoundOpenTable, SoundClose, SoundCrash, SoundReturn
<1>4. ASSUME NEW id \in ImgIds, NEW img \in Images, Insert(p, id, img) PROVE SoundInv'
  BY <1>1, <1>4, SoundInsert
<1>5. ASSUME NEW id \in ImgIds, Delete(p, id) PROVE SoundInv'
  BY <1>1, <1>5, SoundDelete
<1>6. ASSUME NEW from \in {"insert_entry", "delete_entry"}, WriteEntry(p, from) PROVE SoundInv'
  BY <1>1, <1>6, SoundWriteEntry
<1>7. CASE WriteHeader(p, "insert_header", "insert_entry") \/ ResizeHeader(p) \/ ReadFetch(p)
  BY <1>1, <1>7, SoundWriteHeader, SoundResizeHeader, SoundReadFetch
<1>8. ASSUME NEW id \in ImgIds, NEW res \in Resolutions, ReadStored(p, id, res) PROVE SoundInv'
  BY <1>1, <1>8, SoundReadStored
<1>9. ASSUME NEW id \in ImgIds, NEW res \in Resolutions, ReadResize(p, id, res) PROVE SoundInv'
  BY <1>1, <1>9, SoundReadResize
<1>10. ASSUME NEW id \in ImgIds, NEW img \in Images \cup NonImages, InsertRejected(p, id, img)
       PROVE  SoundInv'
  BY <1>1, <1>10, InsertRejectedIs, SoundInsertRejected
<1> QED
  BY <1>2, <1>3, <1>4, <1>5, <1>6, <1>7, <1>8, <1>9, <1>10 DEF Steps

\* A file that was changed from a stale copy stays marked.
LEMMA SpoiledStays ==
    ASSUME NEW p \in Procs, Steps(p), spoiled
    PROVE  spoiled'
<1>1. ASSUME Changes(p) PROVE spoiled'
  BY <1>1 DEF Changes
<1>2. ASSUME NEW id \in ImgIds, NEW img \in Images, Insert(p, id, img) PROVE spoiled'
  BY <1>1, <1>2 DEF Insert
<1>3. ASSUME NEW id \in ImgIds, Delete(p, id) PROVE spoiled'
  BY <1>1, <1>3 DEF Delete
<1>4. ASSUME NEW id \in ImgIds, NEW res \in Resolutions, ReadResize(p, id, res) PROVE spoiled'
  BY <1>1, <1>4 DEF ReadResize
<1>5. ASSUME NEW id \in ImgIds, NEW res \in Resolutions, ReadStored(p, id, res) PROVE spoiled'
  BY <1>5 DEF ReadStored, Fetch, KeepsHistory
<1>6. ASSUME NEW m \in {"rb", "rb+"}, OpenHeader(p, m) PROVE spoiled'
  BY <1>6 DEF OpenHeader
<1>7. CASE OpenTable(p) \/ Close(p) \/ Crash(p) \/ Return(p)
  BY <1>7 DEF OpenTable, Close, Crash, Forget, Return, KeepsHistory
<1>8. CASE \/ WriteHeader(p, "insert_header", "insert_entry") \/ ResizeHeader(p)
           \/ WriteEntry(p, "insert_entry") \/ WriteEntry(p, "delete_entry") \/ ReadFetch(p)
  BY <1>8 DEF WriteHeader, ResizeHeader, WriteEntry, ReadFetch, Fetch, KeepsHistory
<1>9. ASSUME NEW id, NEW img, InsertRejected(p, id, img) PROVE spoiled'
  BY <1>9 DEF InsertRejected, KeepsHistory
<1> QED
  BY <1>2, <1>3, <1>4, <1>5, <1>6, <1>7, <1>8, <1>9 DEF Steps

LEMMA InitSound == Init => SoundInv
<1> SUFFICES ASSUME Init PROVE SoundInv
  OBVIOUS
<1>1. \A i \in Slots : ~disk.metadata[i].is_valid
  BY ProcIs DEF Init, EmptyFile, Slots, Proc!EmptyFile, Proc!EmptyMetadata, Proc!EmptyEntry
<1>2. Sound(disk, inserted)
  BY <1>1 DEF Sound, Distinct, HoldsAll
<1>3. \A p \in Procs : ~Changing(p) /\ Knows(p)
  BY DEF Init, Changing, Knows
<1> QED
  BY <1>2, <1>3 DEF SoundInv, OneChanges

LEMMA InitShared == Init => SharedInv
  BY InitOffsets, InitSound DEF SharedInv

LEMMA StillSound == OffsetsInv /\ SoundInv /\ UNCHANGED vars => SoundInv'
<1> SUFFICES ASSUME OffsetsInv, SoundInv, UNCHANGED vars PROVE SoundInv'
  OBVIOUS
<1> USE DEF vars, View
<1>1. OneChanges'
  BY DEF SoundInv, OneChanges, Changing
<1>2. Sound(disk', inserted')
  BY DEF SoundInv, Sound
<1>3. ASSUME NEW p \in Procs PROVE Knows(p)'
  <2>1. Knows(p) /\ View(p)' = View(p)
    BY DEF SoundInv
  <2>2. Remembers(p) => Remembers(p)'
    BY <2>1 DEF Remembers, InFlight, ReadTrue
  <2>3. Follows(p) => Follows(p)'
    BY <2>1 DEF Follows, InFlight, Sound
  <2> QED
    BY <2>1, <2>2, <2>3 DEF Knows
<1> QED
  BY <1>1, <1>2, <1>3 DEF SoundInv

LEMMA NextShared == SharedInv /\ [Next]_vars => SharedInv'
<1> SUFFICES ASSUME SharedInv, [Next]_vars PROVE SharedInv'
  OBVIOUS
<1>1. OffsetsInv /\ OffsetsInv' /\ TypesInv
  BY NextOffsets DEF SharedInv, OffsetsInv
<1>2. ASSUME Next, ~spoiled' PROVE SoundInv'
  <2>1. PICK p \in Procs : Steps(p)
    BY <1>2, NextIs
  <2>2. ~spoiled
    BY <1>2, <2>1, SpoiledStays
  <2> QED
    BY <1>1, <1>2, <2>1, <2>2, StepSound DEF SharedInv
<1>3. ASSUME UNCHANGED vars, ~spoiled' PROVE SoundInv'
  BY <1>1, <1>3, StillSound DEF vars, SharedInv
<1> QED
  BY <1>1, <1>2, <1>3 DEF SharedInv

LEMMA SharedHolds == Spec => []SharedInv
  BY InitShared, NextShared, PTL DEF Spec

\* As long as no process has changed the file from a copy that another had made
\* stale, the file is what one process alone would leave, at every moment of
\* every interleaving and wherever a process dies: no name twice (do_insert()
\* compared with all of the table), and every offset the file says is that of a
\* blob of that image in that resolution.
THEOREM StoreIsSoundCorrect == Spec => []StoreIsSound
<1>1. ASSUME Sound(disk, inserted)
      PROVE  Proc(One)!Unique(disk.metadata) /\ Proc(One)!Stored(disk.metadata, disk.contents)
  <2>1. /\ Proc(One)!ValidSlots(disk.metadata) = {i \in Slots : disk.metadata[i].is_valid}
        /\ Proc(One)!Resolutions = Resolutions
    BY ProcIs DEF Proc!ValidSlots
  <2>2. Proc(One)!Unique(disk.metadata)
    BY <1>1, <2>1 DEF Proc!Unique, Sound, Distinct
  <2>3. Proc(One)!Stored(disk.metadata, disk.contents)
    BY <1>1, <2>1 DEF Proc!Stored, Sound, HoldsAll, Holds
  <2> QED
    BY <2>2, <2>3
<1>2. SharedInv => StoreIsSound
  BY <1>1 DEF SharedInv, SoundInv, StoreIsSound
<1> QED
  BY <1>2, SharedHolds, PTL

\* Under the same condition, what do_read() answers is true, also through a
\* table that others have made stale: the contents it returns were inserted,
\* they are in the resolution it was asked for, and, unless the table was
\* changed while do_open() read it, under the name it was asked for.
THEOREM StaleReadsAreTrueCorrect == Spec => []StaleReadsAreTrue
<1>1. ASSUME SharedInv, ~spoiled, NEW p \in Procs, pc[p] = "return", call[p].op = "read",
             call[p].ret = "ERR_NONE"
      PROVE  /\ call[p].data.res = call[p].res
             /\ call[p].data.img \in {image[2] : image \in inserted}
             /\ torn[p] \/ <<call[p].id, call[p].data.img>> \in inserted
  <2>1. TypesInv /\ SoundInv
    BY <1>1 DEF SharedInv, OffsetsInv
  <2>2. mode[p] # "closed"
    BY <1>1, <2>1 DEF TypesInv, Local
  <2>3. ReadTrue(call[p], inserted, torn[p])
    BY <1>1, <2>1, <2>2 DEF SoundInv, Knows, Remembers
  <2>4. call[p].data.res = call[p].res /\ Once(call[p].id, call[p].data.img, inserted, torn[p])
    BY <1>1, <2>3 DEF ReadTrue
  <2>5. PICK image \in inserted : image[2] = call[p].data.img /\ (torn[p] \/ image[1] = call[p].id)
    BY <2>4 DEF Once
  <2>6. image = <<image[1], image[2]>>
    BY <2>1 DEF TypesInv
  <2> QED
    BY <2>4, <2>5, <2>6
<1>2. SharedInv => StaleReadsAreTrue
  BY <1>1 DEF StaleReadsAreTrue
<1> QED
  BY <1>2, SharedHolds, PTL

\* A step leaves the table of the file, or writes what one process has buffered.
LEMMA StepWrites ==
    ASSUME TypesInv, NEW p \in Procs, Steps(p)
    PROVE  disk'.metadata = disk.metadata \/ disk' = View(p)
<1> USE FlushGrows
<1>1. ASSUME NEW id \in ImgIds, NEW img \in Images, Insert(p, id, img)
      PROVE  disk'.metadata = disk.metadata \/ disk' = View(p)
  BY <1>1, InsertIs DEF Inserts, Appends, Copies
<1>2. ASSUME NEW id \in ImgIds, Delete(p, id) PROVE disk' = View(p)
  BY <1>2 DEF Delete
<1>3. ASSUME NEW id \in ImgIds, NEW res \in Resolutions, ReadStored(p, id, res) PROVE disk' = View(p)
  BY <1>3 DEF ReadStored, Fetch
<1>4. ASSUME NEW id \in ImgIds, NEW res \in Resolutions, ReadResize(p, id, res) PROVE disk' = View(p)
  BY <1>4 DEF ReadResize
<1>5. ASSUME NEW m \in {"rb", "rb+"}, OpenHeader(p, m) PROVE disk' = disk
  BY <1>5 DEF OpenHeader
<1>6. CASE OpenTable(p) \/ Return(p)
  BY <1>6 DEF OpenTable, Return
<1>7. CASE \/ WriteHeader(p, "insert_header", "insert_entry") \/ ResizeHeader(p) \/ Close(p)
           \/ WriteEntry(p, "insert_entry") \/ WriteEntry(p, "delete_entry") \/ ReadFetch(p)
  BY <1>7 DEF WriteHeader, ResizeHeader, WriteEntry, ReadFetch, Fetch, Close
<1>8. CASE Crash(p)
  <2>1. disk \in File
    BY DEF TypesInv
  <2>2. ASSUME NEW v \in HeaderWrites, disk' = Write(disk, v) PROVE disk'.metadata = disk.metadata
    BY <2>1, <2>2, HeaderWritten, FileIs
  <2>3. ASSUME NEW w \in BlobWrites(Len(disk.contents) + 1), disk' = Write(disk, BlobWrite(w.at, Torn))
        PROVE  disk'.metadata = disk.metadata
    <3>1. w.at \in Nat \ {0}
      BY <2>1, FileIs DEF BlobWrites
    <3> QED
      BY <2>1, <2>3, <3>1, BlobWritten
  <2> QED
    BY <1>8, <2>2, <2>3, CrashWrites
<1>9. ASSUME NEW id, NEW img, InsertRejected(p, id, img) PROVE disk' = disk
  BY <1>9 DEF InsertRejected
<1> QED
  BY <1>1, <1>2, <1>3, <1>4, <1>5, <1>6, <1>7, <1>8, <1>9 DEF Steps

LEMMA StockedIs ==
    ASSUME NEW md, NEW image
    PROVE  image \in Stocked(md) <=>
                \E i \in Slots : md[i].is_valid /\ image = <<md[i].img_id, md[i].SHA>>
  BY ProcIs DEF Stocked, Proc!Live, Proc!ValidSlots

\* Under the same condition no image is lost: if a step, of a process or of its
\* death, takes an image from the file, the process that writes has deleted an
\* image of that name; neither an insert over its slot nor the first entry that
\* lazily_resize() writes back does.
THEOREM OnlyDeletesRemoveCorrect == Spec => OnlyDeletesRemove
<1> DEFINE Deleting(image) ==
        \E p \in Procs : \E w \in Range(pending[p]) :
            w.to = "entry" /\ w.value.img_id = image[1] /\ ~w.value.is_valid
<1>1. ASSUME SharedInv, Next, ~spoiled',
             NEW image \in Stocked(disk.metadata) \ Stocked(disk.metadata')
      PROVE  Deleting(image)
  <2>1. PICK p \in Procs : Steps(p)
    BY <1>1, NextIs
  <2>2. TypesInv /\ SoundInv
    BY <1>1, <2>1, SpoiledStays DEF SharedInv, OffsetsInv
  <2>3. PICK i \in Slots : disk.metadata[i].is_valid
                           /\ image = <<disk.metadata[i].img_id, disk.metadata[i].SHA>>
    BY <1>1, StockedIs
  <2>4. ~(disk'.metadata[i].is_valid /\ image = <<disk'.metadata[i].img_id, disk'.metadata[i].SHA>>)
    BY <1>1, StockedIs
  <2>5. disk'.metadata[i] # disk.metadata[i] /\ disk' = View(p)
    BY <2>1, <2>2, <2>3, <2>4, StepWrites
  <2>6. PICK n \in DOMAIN pending[p] :
            pending[p][n] \in EntryWrites /\ pending[p][n].at = i
            /\ disk'.metadata[i] = pending[p][n].value
    BY <2>2, <2>5, ViewedEntries
  <2>7. pending[p][n].to = "entry"
    BY <2>6 DEF EntryWrites
  <2>8. Changing(p) /\ ~stale[p] /\ mode[p] # "closed"
    BY <2>2, <2>6 DEF Changing, SoundInv, OneChanges, TypesInv, Local
  <2>9. Keeps(pending[p][n], disk)
    BY <2>2, <2>7, <2>8 DEF SoundInv, Knows, Follows
  <2>10. ~pending[p][n].value.is_valid /\ pending[p][n].value.img_id = disk.metadata[i].img_id
    BY <2>3, <2>4, <2>6, <2>9 DEF Keeps, Alike
  <2>11. pending[p][n] \in Range(pending[p]) /\ image[1] = disk.metadata[i].img_id
    BY <2>3 DEF Range
  <2> QED
    BY <2>7, <2>10, <2>11
<1>2. SharedInv /\ [Next]_vars =>
        [~spoiled' => \A image \in Stocked(disk.metadata) \ Stocked(disk.metadata') : Deleting(image)]_vars
  BY <1>1
<1> QED
  BY <1>2, SharedHolds, PTL DEF Spec, OnlyDeletesRemove
-----------------------------------------------------------------------------
(***************************************************************************)
(* One writer at a time.                                                   *)
(***************************************************************************)
\* The discipline a user of the program can keep: one process at a time has the
\* file open for writing, others may have it open for reading.
OneWriter == \A p, q \in Procs : mode[p] = "rb+" /\ mode[q] = "rb+" => p = q

\* Then only a writer changes the file, and a writer's copy is never stale.
WriterInv ==
    /\ ~spoiled
    /\ \A p \in Procs : (Changing(p) => mode[p] = "rb+") /\ (mode[p] = "rb+" => ~stale[p])

\* What a step is to the discipline: the start of a change, an open, the end of
\* a FILE, or neither.
Begins(p) == Changes(p) /\ mode[p] = "rb+"
Leaves(p) ==
    /\ spoiled' = spoiled /\ \A q \in Procs \ {p} : stale'[q] = stale[q]
    /\ mode'[p] = "closed" /\ ~Changing(p)'
Proceeds(p) ==
    /\ spoiled' = spoiled /\ stale' = stale /\ mode'[p] = mode[p]
    /\ Changing(p)' => Changing(p)

LEMMA StepIs ==
    ASSUME TypesInv, NEW p \in Procs, Steps(p)
    PROVE  Begins(p) \/ Leaves(p) \/ Proceeds(p) \/ \E m \in {"rb", "rb+"} : OpenHeader(p, m)
<1>1. ASSUME NEW id \in ImgIds, NEW img \in Images, Insert(p, id, img) PROVE Begins(p)
  BY <1>1, InsertIs DEF Inserts, Begins
<1>2. ASSUME NEW id \in ImgIds, Delete(p, id) PROVE Begins(p)
  BY <1>2, DeleteIs DEF Deletes, Begins
<1>3. ASSUME NEW id \in ImgIds, NEW res \in Resolutions, ReadResize(p, id, res) PROVE Begins(p)
  BY <1>3, ReadResizeIs DEF Resizes, Begins
<1>4. CASE Close(p) \/ Crash(p)
  <2>1. Forget(p)
    BY <1>4 DEF Close, Crash
  <2>2. mode'[p] = "closed" /\ pending'[p] = <<>> /\ pc'[p] = "idle"
    BY <2>1 DEF Forget, Buffer, Continue, TypesInv
  <2>3. spoiled' = spoiled /\ \A q \in Procs \ {p} : stale'[q] = stale[q]
    BY <2>1 DEF Forget, TypesInv
  <2> QED
    BY <2>2, <2>3 DEF Leaves, Changing
<1>5. CASE OpenTable(p) \/ Return(p)
  <2>1. pending'[p] = pending[p] /\ pc'[p] = "idle" /\ mode' = mode /\ spoiled' = spoiled /\ stale' = stale
    BY <1>5 DEF OpenTable, Return, Continue, KeepsHistory, TypesInv
  <2> QED
    BY <2>1 DEF Proceeds, Changing
<1>6. ASSUME NEW c, NEW offset, Fetch(p, c, offset) PROVE Proceeds(p)
  <2>1. pending'[p] = <<>> /\ pc'[p] = "return" /\ KeepsHistory
    BY <1>6 DEF Fetch, Buffer, Answer, Continue, TypesInv
  <2> QED
    BY <2>1 DEF Proceeds, Changing, KeepsHistory
<1>7. ASSUME NEW id \in ImgIds, NEW res \in Resolutions, ReadStored(p, id, res) PROVE Proceeds(p)
  BY <1>6, <1>7 DEF ReadStored
<1>8. CASE ReadFetch(p)
  BY <1>6, <1>8 DEF ReadFetch
<1>9. CASE \/ WriteHeader(p, "insert_header", "insert_entry") \/ ResizeHeader(p)
           \/ WriteEntry(p, "insert_entry") \/ WriteEntry(p, "delete_entry")
  <2>1. Changing(p) /\ KeepsHistory
    BY <1>9 DEF WriteHeader, ResizeHeader, WriteEntry, Changing
  <2> QED
    BY <2>1 DEF Proceeds, KeepsHistory
<1>10. ASSUME NEW id, NEW img, InsertRejected(p, id, img) PROVE Proceeds(p)
  BY <1>10 DEF InsertRejected, Proceeds, KeepsHistory, Changing
<1> QED
  BY <1>1, <1>2, <1>3, <1>4, <1>5, <1>7, <1>8, <1>9, <1>10 DEF Steps

\* A step under the discipline keeps the writer's copy up to date.
LEMMA StepKeepsWriter ==
    ASSUME TypesInv, WriterInv, OneWriter, OneWriter', NEW p \in Procs, Steps(p)
    PROVE  WriterInv'
<1>1. TypesInv' /\ Apart(p)
  BY StepTypes
<1>2. \A q \in Procs \ {p} : mode'[q] = mode[q] /\ (Changing(q)' <=> Changing(q))
  BY <1>1 DEF Apart, Changing
<1>3. SUFFICES /\ ~spoiled' /\ \A q \in Procs : mode'[q] = "rb+" => ~stale'[q]
               /\ Changing(p)' => mode'[p] = "rb+"
  BY <1>2 DEF WriterInv
<1>4. CASE Begins(p)
  <2>1. ~stale[p] /\ mode' = mode
    BY <1>4 DEF Begins, Changes, WriterInv
  <2>2. ~spoiled' /\ \A q \in Procs : stale'[q] = (stale[q] \/ (q # p /\ mode[q] # "closed"))
    BY <1>4, <2>1 DEF Begins, Changes, WriterInv
  <2> QED
    BY <1>4, <2>1, <2>2 DEF Begins, WriterInv, OneWriter
<1>5. CASE Leaves(p)
  BY <1>2, <1>5 DEF Leaves, WriterInv
<1>6. CASE Proceeds(p)
  BY <1>2, <1>6 DEF Proceeds, WriterInv
<1>7. ASSUME NEW m \in {"rb", "rb+"}, OpenHeader(p, m)
      PROVE  /\ ~spoiled' /\ \A q \in Procs : mode'[q] = "rb+" => ~stale'[q]
             /\ Changing(p)' => mode'[p] = "rb+"
  <2>1. /\ mode[p] = "closed" /\ pending'[p] = pending[p] /\ pc'[p] = "open" /\ spoiled' = spoiled
        /\ stale'[p] = (\E q \in Procs : Changing(q)) /\ \A q \in Procs \ {p} : stale'[q] = stale[q]
    BY <1>7 DEF OpenHeader, TypesInv
  <2>2. pending[p] = <<>>
    BY <2>1 DEF TypesInv, Local
  <2>3. ~Changing(p)'
    BY <2>1, <2>2 DEF Changing
  <2>4. ASSUME mode'[p] = "rb+" PROVE ~stale'[p]
    <3>1. ASSUME NEW q \in Procs, Changing(q) PROVE FALSE
      BY <1>2, <2>1, <2>4, <3>1 DEF WriterInv, OneWriter
    <3> QED
      BY <2>1, <3>1
  <2> QED
    BY <1>2, <2>1, <2>3, <2>4 DEF WriterInv
<1> QED
  BY <1>4, <1>5, <1>6, <1>7, StepIs

LEMMA WriterHolds == Spec /\ []OneWriter => [](~spoiled)
<1>1. Init => WriterInv
  BY DEF Init, WriterInv, Changing
<1>2. ASSUME SharedInv, WriterInv, OneWriter, OneWriter', [Next]_vars PROVE WriterInv'
  <2>1. TypesInv
    BY <1>2 DEF SharedInv, OffsetsInv
  <2>2. CASE UNCHANGED vars
    BY <1>2, <2>2 DEF vars, WriterInv, Changing
  <2> QED
    BY <1>2, <2>1, <2>2, NextIs, StepKeepsWriter
<1>3. WriterInv => ~spoiled
  BY DEF WriterInv
<1> QED
  BY <1>1, <1>2, <1>3, SharedHolds, PTL DEF Spec

\* If one process at a time opens the file with "rb+" (imgfs_open()), whoever
\* reads it meanwhile and wherever a process dies, the store is sound, with no
\* lock: no name twice, every offset that of a blob of that image in that
\* resolution; and the contents that do_read() returns to anyone were inserted
\* under the name asked for, unless the table changed while do_open() read it.
THEOREM OneWriterSuffices ==
    Spec /\ []OneWriter =>
        []( /\ Proc(One)!Unique(disk.metadata)
            /\ Proc(One)!Stored(disk.metadata, disk.contents)
            /\ \A p \in Procs :
                 pc[p] = "return" /\ call[p].op = "read" /\ call[p].ret = "ERR_NONE" =>
                    /\ call[p].data.res = call[p].res
                    /\ torn[p] \/ <<call[p].id, call[p].data.img>> \in inserted)
<1>1. StoreIsSound /\ StaleReadsAreTrue /\ ~spoiled =>
        /\ Proc(One)!Unique(disk.metadata)
        /\ Proc(One)!Stored(disk.metadata, disk.contents)
        /\ \A p \in Procs :
             pc[p] = "return" /\ call[p].op = "read" /\ call[p].ret = "ERR_NONE" =>
                /\ call[p].data.res = call[p].res
                /\ torn[p] \/ <<call[p].id, call[p].data.img>> \in inserted
  BY DEF StoreIsSound, StaleReadsAreTrue
<1> QED
  BY <1>1, WriterHolds, StoreIsSoundCorrect, StaleReadsAreTrueCorrect, PTL

\* Nor does an image then leave the file unless a process has deleted it, with
\* do_delete(), and is writing that: no other write, and no death, loses one.
THEOREM OneWriterLosesNothing ==
    Spec /\ []OneWriter =>
        [][\A image \in Stocked(disk.metadata) \ Stocked(disk.metadata') :
              \E p \in Procs : \E w \in Range(pending[p]) :
                w.to = "entry" /\ w.value.img_id = image[1] /\ ~w.value.is_valid]_vars
<1> DEFINE Explained ==
        \A image \in Stocked(disk.metadata) \ Stocked(disk.metadata') :
           \E p \in Procs : \E w \in Range(pending[p]) :
             w.to = "entry" /\ w.value.img_id = image[1] /\ ~w.value.is_valid
<1>1. Spec => [][~spoiled' => Explained]_vars
  BY OnlyDeletesRemoveCorrect DEF OnlyDeletesRemove
<1> HIDE DEF Explained
<1>2. Spec /\ []OneWriter => [][Explained]_vars
  BY <1>1, WriterHolds, PTL
<1> QED
  BY <1>2 DEF Explained
=============================================================================
