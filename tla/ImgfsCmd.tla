----------------------------- MODULE ImgfsCmd -----------------------------
(***************************************************************************)
(* imgfscmd: one command after another on the files of a directory.        *)
(*                                                                         *)
(* main() looks the command up, the do_X_cmd() functions check their       *)
(* arguments, open the store, call the library (ImageDatabase here), close *)
(* the store and, for read, write the image to a file of its own.  The     *)
(* names on a command line are names of files: the image to insert, the    *)
(* store, and the file an image is written to may be one and the same.     *)
(*                                                                         *)
(* Any fopen(), calloc() or fwrite() may fail.  What fclose() or exit()    *)
(* still has to write may be lost, which nobody looks at.  do_close() of a *)
(* struct imgfs_file that was not initialised, or whose metadata was freed *)
(* before, frees something: the process may be aborted.  What a library    *)
(* call leaves when it fails half way is Imgfs's subject, two commands at  *)
(* a time are ImgfsShared's.                                               *)
(***************************************************************************)
EXTENDS Integers, Sequences, SequencesExt, FiniteSetsExt, Functions

CONSTANTS
    CommandLines,  \* what is typed, without the name of the program
    Names,         \* the files of the directory
    Copies,        \* those somebody else may put an image into
    Numbers,       \* of a text that is a number: the number
    UINT16_MAX, UINT32_MAX,
    ImgIds, EmptyId, Images, NonImages, NoImage, Resolutions  \* of ImageDatabase

ASSUME WidthsAssumption == UINT16_MAX \in Nat /\ UINT32_MAX \in Nat /\ UINT16_MAX <= UINT32_MAX
OptionNames == {"-max_files", "-thumb_res", "-small_res"}
ASSUME NumbersAssumption ==
    /\ \A text \in DOMAIN Numbers : Numbers[text] \in Nat
    /\ OptionNames \cap DOMAIN Numbers = {}
ASSUME ImagesAssumption == Images \cap NonImages = {}

VARIABLES
    files,    \* the directory
    argv,     \* the command line, from the command on
    pc,       \* "idle", "main", "create", "open", "load", "call", "extract" or "exited"
    ret,      \* what the command returns; "aborted" when it is killed
    lost,     \* history: a write was lost unseen
    before,   \* history: the files when the command began
    db, durable, call  \* the store in memory

store == <<db, durable, call>>
vars == <<files, argv, pc, ret, lost, before, store>>

Store == INSTANCE ImageDatabase
-----------------------------------------------------------------------------
\* What a file may be: "broken" is a header with too short a table.  What is no
\* store cannot be opened: the max_files do_open() finds in it is too large.
File(kind, blob, images, config) ==
    [kind |-> kind, blob |-> blob, db |-> images, config |-> config]
NoBlob == [img |-> NoImage, res |-> "orig"]
DefaultConfig == [max_files |-> 128, thumb_res |-> <<64, 64>>, small_res |-> <<256, 256>>]
Other(kind) == File(kind, NoBlob, {}, DefaultConfig)
Absent == Other("absent")
Blob(b) == File("blob", b, {}, DefaultConfig)
StoreFile(images, config) == File("store", NoBlob, images, config)

\* A name "" or of 127 characters or more is refused by delete.
Deletable(id) == Len(id) \in 1 .. 126

\* create_name()
OutName(id, res) == id \o "_" \o res \o ".jpg"

\* The directory has every file a command line names.
ASSUME CommandLinesAssumption ==
    \A args \in CommandLines :
        /\ args \in Seq(STRING)
        /\ Len(args) >= 2 => args[2] \in Names
        /\ Len(args) >= 3 /\ args[1] = "read" =>
            \A res \in Resolutions : OutName(args[3], res) \in Names

Command == argv[1]
Args == Tail(argv)
Filename == argv[2]
-----------------------------------------------------------------------------
(***************************************************************************)
(* Arguments                                                               *)
(***************************************************************************)
\* atouint16(), atouint32(): 0 for what is no number, or too large a one.
\* (Mutant: the high bits are cut off.)
AtouintCut(s, max) == IF s \in DOMAIN Numbers THEN Numbers[s] % (max + 1) ELSE 0
Atouint(s, max) == IF s \in DOMAIN Numbers /\ Numbers[s] <= max THEN Numbers[s] ELSE 0

MAX_THUMB_RES == 128
MAX_SMALL_RES == 512

\* The loop of do_create_cmd(), from argument i on: what it sets, in order, and
\* how it ends; it closes the file it has not opened when a value is missing.
\* (Mutant: the upper bounds are not checked.)
AnyPositive(w, h, max) == w > 0 /\ h > 0
InBounds(w, h, max) == w \in 1 .. max /\ h \in 1 .. max
Stop(err, closes) == [settings |-> <<>>, ret |-> err, closes |-> closes]
Options(args) ==
    LET size(i, max) == <<Atouint(args[i + 1], UINT16_MAX), Atouint(args[i + 2], UINT16_MAX)>>
        then(key, value, rest) == [rest EXCEPT !.settings = <<[key |-> key, value |-> value]>> \o @]
        from[i \in 2 .. Len(args) + 3] ==
            IF i > Len(args) THEN Stop("ERR_NONE", FALSE)
            ELSE CASE args[i] = "-max_files" ->
                    IF i + 1 > Len(args) THEN Stop("ERR_NOT_ENOUGH_ARGUMENTS", TRUE)
                    ELSE then("max_files", Atouint(args[i + 1], UINT32_MAX), from[i + 2])
              [] args[i] \in {"-thumb_res", "-small_res"} ->
                    LET thumb == args[i] = "-thumb_res"
                        max == IF thumb THEN MAX_THUMB_RES ELSE MAX_SMALL_RES
                    IN  IF i + 2 > Len(args) THEN Stop("ERR_NOT_ENOUGH_ARGUMENTS", TRUE)
                        ELSE IF ~InBounds(size(i, max)[1], size(i, max)[2], max)
                        THEN Stop("ERR_RESOLUTIONS", FALSE)
                        ELSE then(IF thumb THEN "thumb_res" ELSE "small_res", size(i, max), from[i + 3])
              [] OTHER -> Stop("ERR_INVALID_ARGUMENT", FALSE)
    IN  from[2]

Set(config, s) == [config EXCEPT ![s.key] = s.value]
Config(args) == FoldLeft(Set, DefaultConfig, Options(args).settings)

\* resolution_atoi()
ResolutionOf == [orig |-> "orig", original |-> "orig", small |-> "small",
                 thumb |-> "thumb", thumbnail |-> "thumb"]
ReadRes == IF Len(Args) = 3 THEN ResolutionOf[Args[3]] ELSE "orig"

Commands == {"list", "create", "help", "delete", "insert", "read"}
ArgsError ==
    LET n == Len(Args)
    IN  IF argv = <<>> THEN "ERR_NOT_ENOUGH_ARGUMENTS" ELSE
        CASE Command \notin Commands -> "ERR_INVALID_COMMAND"
          [] Command = "list" /\ n > 1 -> "ERR_INVALID_COMMAND"
          [] Command = "list" /\ n < 1 -> "ERR_INVALID_ARGUMENT"
          [] Command = "create" /\ n < 1 -> "ERR_NOT_ENOUGH_ARGUMENTS"
          [] Command = "create" /\ n >= 1 -> Options(Args).ret
          [] Command = "delete" /\ n < 2 -> "ERR_NOT_ENOUGH_ARGUMENTS"
          [] Command = "delete" /\ n >= 2 /\ ~Deletable(Args[2]) -> "ERR_INVALID_IMGID"
          [] Command = "read" /\ n \notin {2, 3} -> "ERR_NOT_ENOUGH_ARGUMENTS"
          [] Command = "read" /\ n = 3 /\ Args[3] \notin DOMAIN ResolutionOf -> "ERR_RESOLUTIONS"
          [] Command = "insert" /\ n # 3 -> "ERR_NOT_ENOUGH_ARGUMENTS"
          [] OTHER -> "ERR_NONE"
\* do_close() of an imgfs_file nobody initialised.
ClosesNothing == argv # <<>> /\ Command = "create" /\ Args # <<>> /\ Options(Args).closes
-----------------------------------------------------------------------------
Init ==
    /\ files \in [Names -> {Absent}]
    /\ argv = <<>> /\ pc = "idle" /\ ret = "ERR_NONE"
    /\ lost = FALSE /\ before = files
    /\ Store!Init

Exit(err) == pc' = "exited" /\ ret' = err

\* free() of what is not, or no longer, calloc()'s: the process may be killed.
ExitClosing(err, wild) == Exit(err) \/ (wild /\ Exit("aborted"))

\* Somebody puts an image into the directory.
Copy(f, img) ==
    /\ pc = "idle"
    /\ files' = [files EXCEPT ![f] = Blob([img |-> img, res |-> "orig"])] /\ before' = files'
    /\ UNCHANGED <<argv, pc, ret, lost, store>>

Type(args) ==
    /\ pc = "idle"
    /\ argv' = args /\ pc' = "main" /\ before' = files /\ lost' = FALSE
    /\ UNCHANGED <<files, ret, store>>

Main ==
    /\ pc = "main"
    /\ \/ /\ ArgsError # "ERR_NONE"
          /\ ExitClosing(ArgsError, ClosesNothing)
       \/ /\ ArgsError = "ERR_NONE" /\ Command = "help"
          /\ Exit("ERR_NONE")
       \/ /\ ArgsError = "ERR_NONE" /\ Command # "help"
          /\ pc' = IF Command = "create" THEN "create" ELSE "open"
          /\ UNCHANGED ret
    /\ UNCHANGED <<files, argv, lost, before, store>>

\* do_create(): the file is emptied before anything else can fail.
Create ==
    /\ pc = "create"
    /\ \/ ExitClosing("ERR_INVALID_FILENAME", TRUE) /\ UNCHANGED <<files, lost>>
       \/ /\ Exit("ERR_OUT_OF_MEMORY")
          /\ files' = [files EXCEPT ![Filename] = Other("empty")] /\ UNCHANGED lost
       \/ /\ Exit("ERR_IO")
          /\ \E kind \in {"empty", "broken"} : files' = [files EXCEPT ![Filename] = Other(kind)]
          /\ UNCHANGED lost
       \/ /\ Exit("ERR_NONE")
          /\ \/ /\ files' = [files EXCEPT ![Filename] = StoreFile({}, Config(Args))]
                /\ UNCHANGED lost
             \/ /\ \E kind \in {"empty", "broken"} : files' = [files EXCEPT ![Filename] = Other(kind)]
                /\ lost' = TRUE
    /\ UNCHANGED <<argv, before, store>>

CallOf ==
    CASE Command = "list"   -> [Store!NoCall EXCEPT !.op = "STDOUT"]
      [] Command = "delete" -> [Store!NoCall EXCEPT !.op = "delete", !.id = Args[2]]
      [] Command = "read"   -> [Store!NoCall EXCEPT !.op = "read", !.id = Args[2], !.res = ReadRes]
      [] OTHER -> Store!NoCall

\* do_open(), "rb" or "rb+"; delete closes what could not be opened.
\* (Mutant: "wb+".)
OpenedAnew == [files EXCEPT ![Filename] = Other("empty")]
OpenedAsItIs == files
OpenStore ==
    /\ pc = "open"
    /\ \/ /\ \E err \in {"ERR_IO", "ERR_OUT_OF_MEMORY"} :
                ExitClosing(err, Command = "delete" /\ err = "ERR_IO")
          /\ files' = OpenedAsItIs
          /\ UNCHANGED store
       \/ /\ files[Filename].kind = "store"
          /\ db' = files[Filename].db /\ durable' = db' /\ call' = CallOf
          /\ pc' = IF Command = "insert" THEN "load" ELSE "call"
          /\ UNCHANGED <<files, ret>>
    /\ UNCHANGED <<argv, lost, before>>

\* read_disk_image(), which an absent or an empty file fails.  What is not an
\* image is given to do_insert() all the same.
Loads(img) ==
    \/ files[Args[3]].kind = "blob" /\ img = files[Args[3]].blob.img
    \/ files[Args[3]].kind \in {"broken", "store"} /\ img \in NonImages

LoadImage ==
    /\ pc = "load"
    /\ \/ Exit("ERR_IO") /\ UNCHANGED call
       \/ /\ \E img \in Images \cup NonImages :
                Loads(img) /\ call' = [CallOf EXCEPT !.op = "insert", !.id = Args[2], !.img = img]
          /\ pc' = "call" /\ UNCHANGED ret
    /\ UNCHANGED <<files, argv, lost, before, db, durable>>

CallStore ==
    /\ pc = "call" /\ call.ret = "pending"
    /\ \/ Store!Insert /\ Cardinality(db) < files[Filename].config.max_files
       \/ Store!Delete \/ Store!Read \/ Store!List \/ Store!Refuse
    /\ UNCHANGED <<files, argv, pc, ret, lost, before>>

\* do_close(): what fclose() cannot write is lost.  do_read_cmd() frees again the
\* buffer do_read() freed before it answered ERR_IO.
Close ==
    /\ pc = "call" /\ call.ret # "pending"
    /\ \E kept \in {db, durable} :
        /\ files' = [files EXCEPT ![Filename].db = kept]
        /\ lost' = (kept # db)
    /\ IF Command = "read" /\ call.ret = "ERR_NONE"
       THEN pc' = "extract" /\ UNCHANGED ret
       ELSE ExitClosing(call.ret, Command = "read" /\ call.ret = "ERR_IO")
    /\ UNCHANGED <<argv, before, store>>

\* write_disk_image(), which leaves the rest to exit().
Extract ==
    /\ pc = "extract"
    /\ LET f == OutName(Args[2], ReadRes)
       IN  \/ Exit("ERR_IO") /\ files' \in {files, [files EXCEPT ![f] = Other("empty")]} /\ UNCHANGED lost
           \/ Exit("ERR_NONE") /\ files' = [files EXCEPT ![f] = Blob(call.data)] /\ UNCHANGED lost
           \/ Exit("ERR_NONE") /\ files' = [files EXCEPT ![f] = Other("empty")] /\ lost' = TRUE
    /\ UNCHANGED <<argv, before, store>>

\* The prompt again.
Prompt ==
    /\ pc = "exited"
    /\ pc' = "idle" /\ argv' = <<>> /\ ret' = "ERR_NONE" /\ lost' = FALSE /\ before' = files
    /\ db' = {} /\ durable' = {} /\ call' = Store!NoCall
    /\ UNCHANGED files

Next ==
    \/ \E f \in Copies, img \in Images : Copy(f, img)
    \/ \E args \in CommandLines : Type(args)
    \/ Main \/ Create \/ OpenStore \/ LoadImage \/ CallStore \/ Close \/ Extract \/ Prompt

Spec == Init /\ [][Next]_vars
-----------------------------------------------------------------------------
(***************************************************************************)
(* Properties                                                              *)
(***************************************************************************)
Exited == pc = "exited"

\* The value behind the last mention of an option, or the default.
LastOf(option) == Max({i \in DOMAIN Args : i > 1 /\ Args[i] = option} \cup {0})
AskedFor(option, value(_), default) ==
    IF LastOf(option) = 0 THEN default ELSE value(LastOf(option))
\* The handout refuses a -max_files that is zero, too large or no number.  This
\* create does not: it makes a store without slots, which is nobody's request.
MaxFilesAllowed(text) == text \in DOMAIN Numbers /\ Numbers[text] \in 1 .. UINT32_MAX
AskedConfig ==
    LET number(i) == IF MaxFilesAllowed(Args[i + 1]) THEN Numbers[Args[i + 1]] ELSE 0
        size(i) == <<Numbers[Args[i + 1]], Numbers[Args[i + 2]]>>
    IN  [max_files |-> AskedFor("-max_files", number, DefaultConfig.max_files),
         thumb_res |-> AskedFor("-thumb_res", size, DefaultConfig.thumb_res),
         small_res |-> AskedFor("-small_res", size, DefaultConfig.small_res)]

\* A command that exits with 0 has done what it was asked for, unless a write
\* was lost unseen: the new store is empty and has the size and resolutions that
\* were typed last, the image is in the store, or gone from it, or in the file
\* named after it.  The exception is a create whose last -max_files the handout
\* forbids: it exits with 0 all the same, and the store has no slots.
ExitTellsTruth ==
    Exited /\ ret = "ERR_NONE" /\ ~lost =>
        CASE Command = "create" -> files[Filename] = StoreFile({}, AskedConfig)
          [] Command = "insert" ->
                /\ <<Args[2], before[Args[3]].blob.img>> \in files[Filename].db
                /\ Args[2] \notin Store!Ids(before[Filename].db)
          [] Command = "delete" ->
                /\ Args[2] \in Store!Ids(before[Filename].db)
                /\ Args[2] \notin Store!Ids(files[Filename].db)
          [] Command = "read" ->
                LET b == files[OutName(Args[2], ReadRes)].blob
                IN  <<Args[2], b.img>> \in before[Filename].db /\ b.res = ReadRes
          [] OTHER -> files = before

\* A command that fails, or is killed, leaves every file as it was, but for the
\* file create empties and the file read could not write to its end.
FailureKeepsFiles ==
    Exited /\ ret # "ERR_NONE" =>
        \A f \in Names : files[f] # before[f] =>
            /\ files[f].kind \in {"empty", "broken"} /\ ret # "aborted"
            /\ \/ Command = "create" /\ f = Filename
               \/ Command = "read" /\ f = OutName(Args[2], ReadRes)

\* Every store that was ever created has resolutions do_create_cmd() allows.
ConfigInBounds ==
    \A f \in Names : files[f].kind = "store" =>
        /\ \A i \in 1 .. 2 : files[f].config.thumb_res[i] \in 1 .. MAX_THUMB_RES
        /\ \A i \in 1 .. 2 : files[f].config.small_res[i] \in 1 .. MAX_SMALL_RES

\* An image leaves a store when it is deleted; a store leaves the directory when
\* it is created anew, or when the image of that file's name is read, or when
\* somebody puts an image in its place.
OnlyAskedForIsRemoved == [][
    \A f \in Names : \A p \in files[f].db \ files'[f].db :
        \/ pc = "idle"
        \/ Command = "delete" /\ f = Filename /\ Args[2] = p[1]
        \/ Command = "create" /\ f = Filename
        \/ Command = "read" /\ f = OutName(Args[2], ReadRes)]_vars
=============================================================================
