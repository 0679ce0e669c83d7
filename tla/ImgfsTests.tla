---------------------------- MODULE ImgfsTests ----------------------------
(***************************************************************************)
(* The unit tests of the store, replayed on Imgfs: the file a test starts  *)
(* from, what it does to the store and to the table in memory, the result  *)
(* it expects of the call, and what it expects to find in memory then and  *)
(* after opening the file again.  Imgfs is right about the code only if    *)
(* every test that passes on the code passes here.                         *)
(*                                                                         *)
(* Left out: arguments that are NULL or out of range, vips' sizes, and the *)
(* tests of do_delete that are commented out.  lazily_resize() is called   *)
(* through do_read(), and the stores of 10 and of 100 entries have three.  *)
(***************************************************************************)
EXTENDS Imgfs

VARIABLES
    test,  \* the test that runs: the file it starts from, and its steps
    todo   \* the steps that are left

ASSUME NamesAssumption ==
    /\ {"pic", "pic1", "pic2", "pic3", "pic42"} \subseteq ImgIds
    /\ {"papillon", "coquelicots", "brouillard", "foret"} \subseteq Images
    /\ "zeros" \in NonImages
    /\ MaxFiles = 3 /\ Resized = {"thumb", "small"} /\ MaxFaults = 0 /\ MaxCrashes = 0
-----------------------------------------------------------------------------
(***************************************************************************)
(* The files of tests/data                                                 *)
(***************************************************************************)
Offsets(orig, thumb, small) ==
    [r \in Resolutions |-> CASE r = "orig" -> orig [] r = "thumb" -> thumb [] OTHER -> small]
Image(id, img, offset) == [img_id |-> id, SHA |-> img, offset |-> offset, is_valid |-> TRUE]
Blob(img, res) == [img |-> img, res |-> res]
Originals(imgs) == [i \in DOMAIN imgs |-> Blob(imgs[i], "orig")]
Counted(n) == [version |-> n, nb_files |-> n]

TwoPics(pic1, pic2) ==
    [EmptyMetadata EXCEPT ![0] = Image("pic1", "papillon", pic1), ![1] = Image("pic2", "coquelicots", pic2)]

empty == EmptyFile
test02 == [header |-> Counted(2), metadata |-> TwoPics(Offsets(1, 0, 0), Offsets(2, 0, 0)),
           contents |-> Originals(<<"papillon", "coquelicots">>), intact |-> TRUE]
test03 == [header |-> Counted(2), metadata |-> TwoPics(Offsets(1, 4, 3), Offsets(2, 5, 6)),
           contents |-> test02.contents \o
                <<Blob("papillon", "small"), Blob("papillon", "thumb"),
                  Blob("coquelicots", "thumb"), Blob("coquelicots", "small")>>, intact |-> TRUE]
full == [header |-> Counted(3),
         metadata |-> [EmptyMetadata EXCEPT
             ![0] = Image("pic1", "coquelicots", Offsets(1, 0, 0)),
             ![1] = Image("pic2", "brouillard", Offsets(2, 0, 0)),
             ![2] = Image("pic3", "foret", Offsets(3, 0, 0))],
         contents |-> Originals(<<"coquelicots", "brouillard", "foret">>), intact |-> TRUE]
-----------------------------------------------------------------------------
(***************************************************************************)
(* What a test does: open the file, close it, change entries in memory, a  *)
(* call and its result, or an expectation of what is in memory.            *)
(***************************************************************************)
Opened(m) == [do |-> "open", mode |-> m]
Closed == [do |-> "close"]
Sets(i, e) == [do |-> "set", slot |-> i, entry |-> e]
Gives(c, ret) == [do |-> "call", call |-> [c EXCEPT !.ret = ret]]
Finds(c, data) == [do |-> "call", call |-> [c EXCEPT !.ret = "ERR_NONE", !.data = data]]
Dedups(i, ret) == [do |-> "dedup", slot |-> i, ret |-> ret]
Counts(n) == [do |-> "header", header |-> Counted(n)]
Holds(i, e) == [do |-> "entry", slot |-> i, entry |-> e]
Measures(n) == [do |-> "length", length |-> n]

Test(file, steps) == [file |-> file, steps |-> steps]
\* A test of one call.
Only(file, m, step) == Test(file, <<Opened(m), step, Closed>>)
\* What is checked in memory is checked again after do_close() and do_open().
Persisted(m, checks) == checks \o <<Closed, Opened(m)>> \o checks \o <<Closed>>

\* unit-test-imgfsinsert.c.  The new entry is that of slot 2.
Pic3(img, offset) == Image("pic3", img, Offsets(offset, 0, 0))
Garbage == [img_id |-> EmptyId, SHA |-> "zeros", offset |-> Offsets(9, 9, 9), is_valid |-> FALSE]
WithThumb == [EmptyEntry EXCEPT !.offset["thumb"] = 1]

do_insert_full == Only(full, "rb+", Gives(InsertCall("pic", "papillon"), "ERR_IMGFS_FULL"))
do_insert_duplicate_id == Only(test02, "rb+", Gives(InsertCall("pic1", "papillon"), "ERR_DUPLICATE_ID"))
do_insert_invalid_image == Only(test02, "rb+", Gives(InsertCall("pic42", "zeros"), "ERR_IMGLIB"))
do_insert_invalid_file_mode == Only(test02, "rb", Gives(InsertCall("pic3", "papillon"), "ERR_IO"))
do_insert_duplicate == Test(test02,
    <<Opened("rb+"), Gives(InsertCall("pic3", "papillon"), "ERR_NONE")>> \o
    Persisted("rb+", <<Holds(2, Pic3("papillon", 1)), Counts(3)>>))
do_insert_valid == Test(test02,
    <<Opened("rb+"), Gives(InsertCall("pic3", "brouillard"), "ERR_NONE")>> \o
    Persisted("rb+", <<Holds(2, Pic3("brouillard", 3)), Counts(3)>>))
do_insert_write_correct_metadata == Test(empty,
    <<Opened("rb+"), Sets(0, WithThumb), Sets(1, WithThumb), Sets(2, WithThumb),
      Gives(InsertCall("pic3", "brouillard"), "ERR_NONE"), Closed, Opened("rb+"),
      Holds(0, Pic3("brouillard", 1)), Holds(1, EmptyEntry), Holds(2, EmptyEntry), Closed>>)
do_insert_write_initializes_metadata == Test(test02,
    <<Opened("rb+"), Sets(2, Garbage), Gives(InsertCall("pic3", "brouillard"), "ERR_NONE"),
      Closed, Opened("rb+"), Holds(2, Pic3("brouillard", 3)), Closed>>)

\* unit-test-imgfsdedup.c.  The test makes slot 2 by hand.
Pic1 == test02.metadata[0]
Emptied(e) == [e EXCEPT !.is_valid = FALSE]
ByHand(id, sha, offset) == Sets(2, Image(id, sha, offset))

do_name_and_content_dedup_duplicate_id == Test(test02,
    <<Opened("rb+"), ByHand("pic1", NoImage, NoOffsets), Dedups(2, "ERR_DUPLICATE_ID"), Closed>>)
do_name_and_content_dedup_duplicate_id_empty == Test(test02,
    <<Opened("rb+"), Sets(0, Emptied(Pic1)), ByHand("pic1", NoImage, NoOffsets),
      Dedups(2, "ERR_NONE"), Closed>>)
do_name_and_content_dedup_duplicate_content == Test(test02,
    <<Opened("rb+"), ByHand("pic3", Pic1.SHA, NoOffsets), Dedups(2, "ERR_NONE"),
      Holds(2, Image("pic3", Pic1.SHA, Pic1.offset)), Closed>>)
do_name_and_content_dedup_duplicate_content_empty == Test(test02,
    <<Opened("rb+"), Sets(0, Emptied(Pic1)), ByHand("pic3", "papillon", Offsets(7, 7, 7)),
      Dedups(2, "ERR_NONE"), Holds(2, Image("pic3", "papillon", Offsets(0, 7, 7))), Closed>>)
do_name_and_content_dedup_no_duplicate == Test(test02,
    <<Opened("rb+"), ByHand("pic3", NoImage, Offsets(7, 9, 8)),
      Dedups(2, "ERR_NONE"), Holds(2, Image("pic3", NoImage, Offsets(0, 9, 8))), Closed>>)

\* unit-test-imgfsread.c
do_read_not_found == Only(empty, "rb", Gives(ReadCall("pic", "orig"), "ERR_IMAGE_NOT_FOUND"))
do_read_valid == Only(test02, "rb", Finds(ReadCall("pic1", "orig"), Blob("papillon", "orig")))
do_read_resize == Only(test02, "rb+", Finds(ReadCall("pic1", "small"), Blob("papillon", "small")))
do_read_resize_invalid_mode == Only(test02, "rb", Gives(ReadCall("pic1", "small"), "ERR_IO"))

\* unit-test-imgfscontent.c
lazily_resize_res_orig == Test(test02,
    <<Opened("rb+"), Finds(ReadCall("pic1", "orig"), Blob("papillon", "orig")), Measures(2), Closed>>)
lazily_resize_invalid_mode == Only(test02, "rb", Gives(ReadCall("pic1", "thumb"), "ERR_IO"))
lazily_resize_already_exists == Test(test03,
    <<Opened("rb+"), Finds(ReadCall("pic2", "thumb"), Blob("coquelicots", "thumb")),
      Measures(6), Holds(1, test03.metadata[1]), Closed>>)
lazily_resize_valid == Test(test02,
    <<Opened("rb+"), Finds(ReadCall("pic1", "small"), Blob("papillon", "small"))>> \o
    Persisted("rb+", <<Measures(3), Holds(0, Image("pic1", "papillon", Offsets(1, 0, 3)))>>))

\* unit-test-imgfsdelete.c, unit-test-imgfstools.c
do_delete_bad_open_mode == Test(test02,
    <<Opened("rb"), Gives(DeleteCall("pic1"), "ERR_IO")>> \o Persisted("rb", <<Counts(2), Holds(0, Pic1)>>))
do_open_correct_header == Only(empty, "rb", Counts(0))
do_open_correct_metadata == Test(test02,
    <<Opened("rb"), Holds(0, Pic1), Holds(1, test02.metadata[1]), Closed>>)

Tests == {
    do_insert_full, do_insert_duplicate_id, do_insert_invalid_image, do_insert_invalid_file_mode,
    do_insert_duplicate, do_insert_valid,
    do_insert_write_correct_metadata, do_insert_write_initializes_metadata,
    do_name_and_content_dedup_duplicate_id, do_name_and_content_dedup_duplicate_id_empty,
    do_name_and_content_dedup_duplicate_content, do_name_and_content_dedup_duplicate_content_empty,
    do_name_and_content_dedup_no_duplicate,
    do_read_not_found, do_read_valid, do_read_resize, do_read_resize_invalid_mode,
    lazily_resize_res_orig, lazily_resize_invalid_mode, lazily_resize_already_exists,
    lazily_resize_valid,
    do_delete_bad_open_mode, do_open_correct_header, do_open_correct_metadata}
-----------------------------------------------------------------------------
InitTest ==
    /\ test \in Tests
    /\ todo = test.steps
    /\ mode = "closed"
    /\ header = EmptyHeader /\ metadata = EmptyMetadata
    /\ stream = test.file /\ disk = test.file
    /\ call = NoCall /\ slot = NoSlot /\ pc = "idle"
    /\ faults = 0 /\ crashes = 0

Is(what) == todo # <<>> /\ Head(todo).do = what
Done == todo' = Tail(todo) /\ UNCHANGED test

RunOpen == Is("open") /\ Open(Head(todo).mode) /\ Done
RunClose == Is("close") /\ Close /\ Done

RunSet ==
    /\ Is("set") /\ Done
    /\ metadata' = [metadata EXCEPT ![Head(todo).slot] = Head(todo).entry]
    /\ UNCHANGED <<mode, header, stream, disk, call, slot, pc, faults, crashes>>

\* do_name_and_content_dedup() on its own, on an entry that is not fresh.
RunDedup ==
    LET i == Head(todo).slot
        e == metadata[i]
    IN  /\ Is("dedup") /\ Done
        /\ \E offset \in IF Copies(i, e.img_id, e.SHA) # {} THEN DedupOffsets(i, e.img_id, e.SHA)
                         ELSE IF Namesakes(i, e.img_id) # {} THEN {e.offset}
                         ELSE {[e.offset EXCEPT !["orig"] = 0]} :
              metadata' = [metadata EXCEPT ![i].offset = offset]
        /\ UNCHANGED <<mode, header, stream, disk, call, slot, pc, faults, crashes>>

RunCall ==
    /\ Is("call") /\ UNCHANGED <<test, todo>>
    /\ LET c == Head(todo).call
       IN  \/ c.op = "insert" /\ Insert(c.id, c.img)
           \/ c.op = "delete" /\ Delete(c.id)
           \/ c.op = "read" /\ Read(c.id, c.res)
RunStep == Step /\ IF pc = "return" THEN Done ELSE UNCHANGED <<test, todo>>

RunCheck == (Is("header") \/ Is("entry") \/ Is("length")) /\ Done /\ UNCHANGED vars

Finished == todo = <<>> /\ UNCHANGED <<vars, test, todo>>

NextTest ==
    \/ RunOpen \/ RunClose \/ RunSet \/ RunDedup \/ RunCall \/ RunStep \/ RunCheck
    \/ Finished

SpecTests == InitTest /\ [][NextTest]_<<vars, test, todo>>
-----------------------------------------------------------------------------
\* Every unit test passes: each call gives the result the test expects, and the
\* header, the entries and the length of the file are what it expects, in
\* memory and after the file is closed and opened again.
TestsPass ==
    /\ pc = "return" => call = Head(todo).call
    /\ Is("dedup") =>
        LET i == Head(todo).slot
        IN  Head(todo).ret = "ERR_DUPLICATE_ID" <=> Namesakes(i, metadata[i].img_id) # {}
    /\ Is("header") => header = Head(todo).header
    /\ Is("entry") => metadata[Head(todo).slot] = Head(todo).entry
    /\ Is("length") => Len(stream.contents) = Head(todo).length
=============================================================================
