--------------------------- MODULE ImageDatabase ---------------------------
(***************************************************************************)
(* What the imgFS store promises its callers: a set of images by           *)
(* identifier, changed by one call at a time, of which a copy follows on   *)
(* disk.  The last change may still be in memory when its call returns, so *)
(* a crash can take it back, and nothing else.                             *)
(*                                                                         *)
(* The store may refuse a call it could serve (an image that an entry of a *)
(* refused insertion hides, a header that counts an image a crash lost),   *)
(* but what it answers is true.                                            *)
(***************************************************************************)
CONSTANTS ImgIds, EmptyId, Images, NonImages, NoImage, Resolutions

VARIABLES
    db,       \* the images, as pairs <<img_id, image>>
    durable,  \* the images a crash would leave
    call      \* the call in progress, or its result

vars == <<db, durable, call>>
-----------------------------------------------------------------------------
Ids(images) == {p[1] : p \in images}

NoCall == [op |-> "none", id |-> EmptyId, img |-> NoImage, res |-> "orig",
           ret |-> "pending", data |-> NoImage, ids |-> {}]
Call(op, ids, images, resolutions) ==
    [op : {op}, id : ids, img : images, res : resolutions,
     ret : {"pending"}, data : {NoImage}, ids : {{}}]
Inserts == Call("insert", ImgIds, Images \cup NonImages, {"orig"})
Deletes == Call("delete", ImgIds, {NoImage}, {"orig"})
Reads == Call("read", ImgIds, {NoImage}, Resolutions)
Lists(output) == Call(output, {EmptyId}, {NoImage}, {"orig"})

\* What is buffered may be written at any step.
MaySync == durable' \in {durable, db}

\* The request c is answered with r, maybe in the very step it arrives in.
Serving(c) == call \in {NoCall, c}
Answer(c, r) == Serving(c) /\ call' = [c EXCEPT !.ret = r]

Init == db = {} /\ durable = {} /\ call = NoCall

Begin ==
    /\ call = NoCall
    /\ \/ call' \in Inserts \/ call' \in Deletes \/ call' \in Reads
       \/ call' \in Lists("STDOUT") \/ call' \in Lists("JSON")
    /\ MaySync /\ UNCHANGED db

\* A change is made when all the earlier ones are on disk.
Insert ==
    /\ call \in Inserts
    /\ call.img \in Images /\ call.id \notin Ids(db)
    /\ Answer(call, "ERR_NONE")
    /\ db' = db \cup {<<call.id, call.img>>}
    /\ durable' = db

Delete ==
    /\ call \in Deletes
    /\ call.id \in Ids(db)
    /\ Answer(call, "ERR_NONE")
    /\ db' = {p \in db : p[1] # call.id}
    /\ durable' = db

Read ==
    /\ \E c \in Reads : \E p \in db :
        /\ Serving(c) /\ p[1] = c.id
        /\ call' = [c EXCEPT !.ret = "ERR_NONE",
                             !.data = [img |-> p[2], res |-> c.res]]
    /\ MaySync /\ UNCHANGED db

\* The list on stdout may be empty when it should not be; the JSON one is true.
List ==
    /\ \/ \E c \in Lists("JSON") :
            /\ Serving(c)
            /\ call' = [c EXCEPT !.ret = "ERR_NONE", !.ids = Ids(db)]
       \/ \E c \in Lists("STDOUT") : \E ids \in {{}, Ids(db)} :
            /\ Serving(c)
            /\ call' = [c EXCEPT !.ret = "ERR_NONE", !.ids = ids]
    /\ MaySync /\ UNCHANGED db

Refuse ==
    /\ \/ \E c \in Inserts :
            \/ Answer(c, "ERR_IO")
            \/ Answer(c, "ERR_IMGFS_FULL")
            \/ c.img \in NonImages /\ Answer(c, "ERR_IMGLIB")
            \/ c.id \in Ids(db) /\ Answer(c, "ERR_DUPLICATE_ID")
       \/ \E c \in Deletes :
            \/ Answer(c, "ERR_IO")
            \/ Answer(c, "ERR_IMAGE_NOT_FOUND")
       \/ \E c \in Reads :
            \/ Answer(c, "ERR_IO")
            \/ Answer(c, "ERR_IMAGE_NOT_FOUND")
            \/ Answer(c, "ERR_INVALID_IMGID")
    /\ MaySync /\ UNCHANGED db

Return ==
    /\ call.ret # "pending"
    /\ call' = NoCall
    /\ MaySync /\ UNCHANGED db

Sync == durable' = db /\ UNCHANGED <<db, call>>

Crash ==
    /\ call' = NoCall
    /\ MaySync
    /\ db' = durable'

Next ==
    \/ Begin \/ Insert \/ Delete \/ Read \/ List \/ Refuse
    \/ Return \/ Sync \/ Crash

Spec == Init /\ [][Next]_vars
=============================================================================
