---------------------------- MODULE ImgfsServer ----------------------------
(***************************************************************************)
(* The server's process: main() accepts connections, a detached thread per *)
(* connection turns each message into one call of the store under the      *)
(* mutex mut, and the signal handler, which interrupts main() or a new     *)
(* thread, closes the store and exits.                                     *)
(*                                                                         *)
(* The store is ImageDatabase, the specification that Imgfs implements as  *)
(* long as it is called one call at a time; that the server calls it so is *)
(* a property of this module.                                              *)
(*                                                                         *)
(* A message that handle_http_message() refuses before it calls the store  *)
(* changes nothing and is left out, and so is the static page.  Each       *)
(* signal is blocked in its own handler only, and in the thread that runs  *)
(* it: sa_mask is empty, so the handler of one can be interrupted by that  *)
(* of another, and two threads can be in handlers at once.                 *)
(***************************************************************************)
EXTENDS Integers, Sequences

CONSTANTS
    ImgIds, EmptyId, Images, NonImages, NoImage, Resolutions,  \* of the store
    Workers,  \* threads of connections
    Signals   \* SIGINT, SIGTERM

ASSUME WorkersAssumption == {"nobody", "main", "destroyed"} \cap Workers = {}

VARIABLES
    db, durable, call,  \* the store
    file,      \* fs_file: "open" or "closed"
    mut,       \* who holds mut: "nobody", a thread; or "destroyed"
    pc,        \* what each worker does
    request,   \* the call each worker makes
    answer,    \* what it is answered
    handlers,  \* the stack of signal handlers each thread runs, the last on top
    process    \* "running", "exited" or "crashed"

store == <<db, durable, call>>
threads == <<pc, request, answer>>
vars == <<db, durable, call, file, mut, pc, request, answer, handlers, process>>

Store == INSTANCE ImageDatabase
-----------------------------------------------------------------------------
Running == process = "running"
Threads == Workers \cup {"main"}
Requests == Store!Inserts \cup Store!Deletes \cup Store!Reads \cup Store!Lists("JSON")
NoAnswer == Store!NoCall

Init ==
    /\ Store!Init
    /\ file = "open" /\ mut = "nobody"
    /\ pc = [w \in Workers |-> "none"]
    /\ request = [w \in Workers |-> Store!NoCall]
    /\ answer = [w \in Workers |-> NoAnswer]
    /\ handlers = [t \in Threads |-> <<>>]
    /\ process = "running"

Goto(w, from, to) == Running /\ pc[w] = from /\ pc' = [pc EXCEPT ![w] = to]

\* exit() writes what is buffered; a process that crashes loses it or not.
Exit ==
    /\ process' = "exited"
    /\ call' = Store!NoCall /\ durable' = db /\ UNCHANGED db
CrashNow == process' = "crashed" /\ Store!Crash
-----------------------------------------------------------------------------
(***************************************************************************)
(* main(): http_receive() until it fails.                                  *)
(***************************************************************************)
Accept(w) ==
    /\ handlers["main"] = <<>>
    /\ Goto(w, "none", "started")
    /\ UNCHANGED <<store, file, mut, request, answer, handlers, process>>

\* accept() or pthread_create() fails: main() returns, whatever the workers do.
AcceptFails ==
    /\ Running /\ handlers["main"] = <<>>
    /\ Exit
    /\ UNCHANGED <<file, mut, threads, handlers>>
-----------------------------------------------------------------------------
(***************************************************************************)
(* handle_connection() and handle_X_call()                                 *)
(***************************************************************************)
\* pthread_sigmask(): from here on the thread takes no signals.
Mask(w) ==
    /\ handlers[w] = <<>>
    /\ Goto(w, "started", "recv")
    /\ UNCHANGED <<store, file, mut, request, answer, handlers, process>>

Request(w) ==
    /\ Goto(w, "recv", "lock")
    /\ request' \in {[request EXCEPT ![w] = c] : c \in Requests}
    /\ UNCHANGED <<store, file, mut, answer, handlers, process>>

Disconnect(w) ==
    /\ Goto(w, "recv", "none")
    /\ UNCHANGED <<store, file, mut, request, answer, handlers, process>>

\* pthread_mutex_lock(), whose result is not looked at: it waits for a mutex
\* that is held, and fails, without waiting, when the mutex was destroyed.
\* (Mutant: it never waits.)
NeverWaits == TRUE
LockReturns == mut \in {"nobody", "destroyed"}
Taken(who) == IF mut = "destroyed" THEN mut ELSE who

Lock(w) ==
    /\ Goto(w, "lock", "do_X")
    /\ LockReturns
    /\ mut' = Taken(w)
    /\ UNCHANGED <<store, file, request, answer, handlers, process>>

\* do_X(&fs_file) starts.
BeginCall(w) ==
    /\ file = "open"
    /\ Goto(w, "do_X", "in_call")
    /\ call' = request[w]
    /\ Store!MaySync /\ UNCHANGED db
    /\ UNCHANGED <<file, mut, request, answer, handlers, process>>

\* After do_close() fs_file has neither a FILE nor metadata to work on.
UseAfterClose(w) ==
    /\ Running /\ pc[w] = "do_X" /\ file = "closed"
    /\ CrashNow
    /\ UNCHANGED <<file, mut, threads, handlers>>

Serve(w) ==
    /\ Running /\ pc[w] = "in_call"
    /\ Store!Insert \/ Store!Delete \/ Store!Read \/ Store!List \/ Store!Refuse
    /\ UNCHANGED <<file, mut, threads, handlers, process>>

ReturnCall(w) ==
    /\ Goto(w, "in_call", "unlock")
    /\ answer' = [answer EXCEPT ![w] = call]
    /\ Store!Return
    /\ UNCHANGED <<file, mut, request, handlers, process>>

\* (Mutant: the mutex is kept when the call failed.)
ReleasedOnSuccess(who) ==
    IF mut = who /\ ~(who \in Workers /\ answer[who].ret # "ERR_NONE")
    THEN "nobody" ELSE mut
Released(who) == IF mut = who THEN "nobody" ELSE mut
Unlock(w) ==
    /\ Goto(w, "unlock", "reply")
    /\ mut' = Released(w)
    /\ UNCHANGED <<store, file, request, answer, handlers, process>>

\* do_read() frees the buffer when it cannot read the file, and so does
\* handle_read_call(): undefined behaviour, on which malloc gives up or not.
FreedTwice(w) == answer[w].op = "read" /\ answer[w].ret = "ERR_IO"

Reply(w) ==
    /\ Goto(w, "reply", "recv")
    /\ answer' = [answer EXCEPT ![w] = NoAnswer]
    /\ request' = [request EXCEPT ![w] = Store!NoCall]
    /\ UNCHANGED <<store, file, mut, handlers, process>>

Abort(w) ==
    /\ Running /\ pc[w] = "reply" /\ FreedTwice(w)
    /\ CrashNow
    /\ UNCHANGED <<file, mut, threads, handlers>>
-----------------------------------------------------------------------------
(***************************************************************************)
(* signal_handler() and server_shutdown(), which a thread t runs on its    *)
(* stack.                                                                  *)
(***************************************************************************)
Top(t) == Len(handlers[t])
Handling(t, step) == Running /\ Top(t) > 0 /\ handlers[t][Top(t)].pc = step
HandlerGoto(t, step) == handlers' = [handlers EXCEPT ![t][Top(t)].pc = step]

\* A worker can be interrupted before it has blocked the signals.
TakesSignals(t) == t \in Workers => pc[t] = "started"

Signal(t, s) ==
    /\ Running /\ TakesSignals(t)
    /\ \A i \in 1 .. Top(t) : handlers[t][i].sig # s
    /\ handlers' = [handlers EXCEPT ![t] = Append(@, [sig |-> s, pc |-> "lock"])]
    /\ UNCHANGED <<store, file, mut, threads, process>>

\* http_close() and pthread_mutex_lock(&mut).
HandlerLock(t) ==
    /\ Handling(t, "lock") /\ HandlerGoto(t, "close")
    /\ LockReturns
    /\ mut' = Taken(t)
    /\ UNCHANGED <<store, file, threads, process>>

\* do_close(&fs_file), which does nothing the second time.
HandlerClose(t) ==
    /\ Handling(t, "close") /\ HandlerGoto(t, "unlock")
    /\ file' = "closed"
    /\ IF file = "open" THEN Store!Sync ELSE UNCHANGED store
    /\ UNCHANGED <<mut, threads, process>>

HandlerUnlock(t) ==
    /\ Handling(t, "unlock") /\ HandlerGoto(t, "destroy")
    /\ mut' = Released(t)
    /\ UNCHANGED <<store, file, threads, process>>

\* pthread_mutex_destroy() leaves a mutex that a thread holds as it is.
HandlerDestroy(t) ==
    /\ Handling(t, "destroy") /\ HandlerGoto(t, "exit")
    /\ mut' = IF mut = "nobody" THEN "destroyed" ELSE mut
    /\ UNCHANGED <<store, file, threads, process>>

HandlerExit(t) ==
    /\ Handling(t, "exit")
    /\ Exit
    /\ UNCHANGED <<file, mut, threads, handlers>>

Shutdown(t) ==
    HandlerLock(t) \/ HandlerClose(t) \/ HandlerUnlock(t) \/ HandlerDestroy(t) \/ HandlerExit(t)
-----------------------------------------------------------------------------
\* What a worker does on its own, before it receives and once it has a message.
Work(w) ==
    \/ Mask(w) \/ Lock(w) \/ BeginCall(w) \/ UseAfterClose(w) \/ Serve(w)
    \/ ReturnCall(w) \/ Unlock(w) \/ Reply(w) \/ Abort(w)

Next ==
    \/ \E w \in Workers : Accept(w) \/ Request(w) \/ Disconnect(w) \/ Work(w)
    \/ AcceptFails
    \/ \E t \in Threads : Shutdown(t) \/ \E s \in Signals : Signal(t, s)

\* Threads are scheduled; nothing says which of them gets a free mutex.
Fairness ==
    /\ \A w \in Workers : WF_vars(Work(w))
    /\ \A t \in Threads : WF_vars(Shutdown(t))

Spec == Init /\ [][Next]_vars /\ Fairness
-----------------------------------------------------------------------------
(***************************************************************************)
(* Properties                                                              *)
(***************************************************************************)
Holders ==
    {w \in Workers : pc[w] \in {"do_X", "in_call", "unlock"}}
    \cup {t \in Threads : \E i \in 1 .. Top(t) : handlers[t][i].pc \in {"close", "unlock"}}

\* The variables have their types, and the mutex is held by a thread that is
\* between lock and unlock, unless it was destroyed meanwhile.
TypeOK ==
    /\ file \in {"open", "closed"}
    /\ mut \in {"nobody", "destroyed"} \cup Threads
    /\ pc \in [Workers -> {"none", "started", "recv", "lock", "do_X", "in_call", "unlock", "reply"}]
    /\ request \in [Workers -> Requests \cup {Store!NoCall}]
    /\ process \in {"running", "exited", "crashed"}
    /\ handlers \in
        [Threads -> Seq([sig : Signals, pc : {"lock", "close", "unlock", "destroy", "exit"}])]
    /\ Running /\ mut \in Threads => mut \in Holders

\* The server calls the store as the store must be called: one call at a time,
\* each to its end, in whatever way the threads and the handlers interleave.
CallsOneAtATime == Store!Spec

\* A client is sent the answer to its own request.
AnswersOwnRequest ==
    \A w \in Workers : answer[w] # NoAnswer =>
        /\ answer[w].op = request[w].op /\ answer[w].id = request[w].id
        /\ answer[w].ret # "pending"

\* do_close() waits for the call in progress.
CloseWaits == [][file = "open" /\ file' = "closed" => call = Store!NoCall]_vars

\* What a client was told is in the file once server_shutdown() closed it.
ClosedIsDurable == file = "closed" => durable = db

\* A worker that waits for the mutex does not wait for ever while nobody else
\* gets it either: a call ends, or the process does.
SomeCallEnds ==
    (\E w \in Workers : pc[w] = "lock")
        ~> ((\E w \in Workers : pc[w] = "unlock") \/ ~Running)

\* Once the clients are silent, a signal ends the process.  (With two signals:
\* refuted.)
Silent == \A w \in Workers : pc[w] \in {"none", "started", "recv"}
SignalStops == <>[]Silent => ((\E t \in Threads : handlers[t] # <<>>) ~> ~Running)
=============================================================================
