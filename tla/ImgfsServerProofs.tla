------------------------- MODULE ImgfsServerProofs -------------------------
(***************************************************************************)
(* Proofs about ImgfsServer, for any number of connections and signals:    *)
(* its types, that the store is called one call at a time, that do_close   *)
(* waits for the call in progress and leaves everything on disk, and that  *)
(* every client is sent the answer to its own request.                     *)
(*                                                                         *)
(* The mutex alone does not give these: once server_shutdown() destroyed   *)
(* it, it stops nobody.  The invariant therefore relates it to fs_file (a  *)
(* destroyed mutex, or a handler past do_close(), means a closed store)    *)
(* and to the handlers (one that is about to close an open store holds it, *)
(* and no thread runs one inside a call).                                  *)
(***************************************************************************)
EXTENDS ImgfsServer, TLAPS

Steps == {"none", "started", "recv", "lock", "do_X", "in_call", "unlock", "reply"}
Critical == {"do_X", "in_call", "unlock"}
HandlerSteps == {"lock", "close", "unlock", "destroy", "exit"}
Frames == [sig : Signals, pc : HandlerSteps]

\* Who is between lock and unlock holds the mutex, or passed a destroyed one.
MutexHeld ==
    Running => \A w \in Workers : pc[w] \in Critical => mut \in {w, "destroyed"}

\* A call is in progress for the worker in do_X() only, on an open store.
CallHeld ==
    /\ call # Store!NoCall => Running /\ \E w \in Workers : pc[w] = "in_call"
    /\ Running => \A w \in Workers : pc[w] = "in_call" =>
            /\ mut = w /\ file = "open"
            /\ call.op = request[w].op /\ call.id = request[w].id

\* A handler past do_close() closed the store; one before it holds the mutex.
HandlersHold ==
    /\ mut = "destroyed" => file = "closed"
    /\ \A t \in Threads : \A i \in DOMAIN handlers[t] :
        /\ handlers[t][i].pc \in {"unlock", "destroy", "exit"} => file = "closed"
        /\ handlers[t][i].pc = "close" /\ file = "open" => mut = t

\* Only main() and a thread that has not blocked the signals yet run handlers.
HandlersOutside ==
    \A w \in Workers : Running /\ handlers[w] # <<>> => pc[w] = "started"

\* A worker past http_read() has a request.
HasRequest ==
    \A w \in Workers : pc[w] \notin {"none", "started", "recv"} => request[w] \in Requests

\* An answer is there from the end of the call to the reply.
HasAnswer ==
    /\ DOMAIN answer = Workers
    /\ \A w \in Workers : pc[w] \notin {"unlock", "reply"} => answer[w] = NoAnswer

IInv ==
    /\ TypeOK /\ MutexHeld /\ CallHeld /\ HandlersHold /\ HandlersOutside /\ HasRequest /\ HasAnswer
    /\ AnswersOwnRequest /\ ClosedIsDurable

\* A request is not the empty call, and is not answered yet.
LEMMA RequestsArePending ==
    ASSUME NEW c \in Requests
    PROVE  /\ c # Store!NoCall
           /\ c.ret = "pending"
           /\ c.op \in {"insert", "delete", "read", "JSON"}
  BY DEF Requests, Store!Inserts, Store!Deletes, Store!Reads, Store!Lists,
         Store!Call, Store!NoCall

\* What a step of the store changes of the call: never whose call it is.
LEMMA ServingKeepsRequest ==
    ASSUME call.op \in {"insert", "delete", "read", "JSON"},
           Store!Insert \/ Store!Delete \/ Store!Read \/ Store!List \/ Store!Refuse
    PROVE  call'.op = call.op /\ call'.id = call.id
  <1>0. call # Store!NoCall
    BY DEF Store!NoCall
  <1>1. CASE Store!Insert
    BY <1>1 DEF Store!Insert, Store!Answer, Store!Inserts, Store!Call
  <1>2. CASE Store!Delete
    BY <1>2 DEF Store!Delete, Store!Answer, Store!Deletes, Store!Call
  <1>3. CASE Store!Read
    <2>1. PICK c \in Store!Reads, p \in db :
            /\ Store!Serving(c)
            /\ call' = [c EXCEPT !.ret = "ERR_NONE",
                                 !.data = [img |-> p[2], res |-> c.res]]
      BY <1>3 DEF Store!Read
    <2>2. call = c
      BY <1>0, <2>1 DEF Store!Serving
    <2> QED BY <2>1, <2>2 DEF Store!Reads, Store!Call
  <1>4. CASE Store!List
    <2>1. PICK c \in Store!Lists("JSON") \cup Store!Lists("STDOUT"), ids \in {{}, Store!Ids(db)} :
            /\ Store!Serving(c)
            /\ call' = [c EXCEPT !.ret = "ERR_NONE", !.ids = ids]
      BY <1>4 DEF Store!List
    <2>2. call = c
      BY <1>0, <2>1 DEF Store!Serving
    <2> QED BY <2>1, <2>2 DEF Store!Lists, Store!Call
  <1>5. CASE Store!Refuse
    <2>1. \E c \in Store!Inserts \cup Store!Deletes \cup Store!Reads :
            Store!Serving(c) /\ \E r : call' = [c EXCEPT !.ret = r]
      BY <1>5 DEF Store!Refuse, Store!Answer
    <2>2. PICK r : call' = [call EXCEPT !.ret = r]
      BY <1>0, <2>1 DEF Store!Serving
    <2>3. call \in Store!Inserts \cup Store!Deletes \cup Store!Reads
      BY <1>0, <2>1 DEF Store!Serving
    <2> QED BY <2>2, <2>3 DEF Store!Inserts, Store!Deletes, Store!Reads, Store!Call
  <1> QED BY <1>1, <1>2, <1>3, <1>4, <1>5

LEMMA InitIInv == Init => IInv
  <1> SUFFICES ASSUME Init PROVE IInv
    OBVIOUS
  <1> USE DEF Init, Store!Init
  <1>1. TypeOK
    BY WorkersAssumption DEF TypeOK, Running, Holders, Threads
  <1>2. MutexHeld /\ CallHeld /\ HandlersHold /\ HandlersOutside /\ HasRequest /\ HasAnswer
    BY DEF MutexHeld, CallHeld, HandlersHold, HandlersOutside, HasRequest, HasAnswer, NoAnswer,
           Critical, Threads
  <1>3. AnswersOwnRequest /\ ClosedIsDurable
    BY DEF AnswersOwnRequest, ClosedIsDurable, NoAnswer
  <1> QED BY <1>1, <1>2, <1>3 DEF IInv
-----------------------------------------------------------------------------
(***************************************************************************)
(* Every step keeps the invariant.  A step that ends the process makes all *)
(* that speaks of a running one empty.                                     *)
(***************************************************************************)
\* The steps of a worker outside the mutex.
LEMMA OutsideStep ==
    ASSUME IInv, NEW w \in Workers,
           Accept(w) \/ Mask(w) \/ Request(w) \/ Disconnect(w) \/ Reply(w)
    PROVE  IInv'
  <1> USE DEF IInv
  <1>0. /\ Running /\ UNCHANGED <<store, file, mut, handlers, process>>
        /\ pc[w] \in {"none", "started", "recv", "reply"}
        /\ pc' \in [Workers -> Steps]
        /\ pc'[w] \in {"none", "started", "recv", "lock"}
        /\ pc[w] = "started" => handlers[w] = <<>>
        /\ \A v \in Workers : v # w => pc'[v] = pc[v]
    BY DEF Accept, Mask, Request, Disconnect, Reply, Goto, TypeOK, Steps
  <1>a. /\ request' \in [Workers -> Requests \cup {Store!NoCall}]
        /\ \A v \in Workers : v # w => request'[v] = request[v]
        /\ pc'[w] \in {"lock"} => request'[w] \in Requests
    BY DEF Accept, Mask, Request, Disconnect, Reply, Goto, TypeOK
  <1>b. /\ DOMAIN answer' = Workers
        /\ \A v \in Workers : v # w => answer'[v] = answer[v]
        /\ answer'[w] = NoAnswer
    BY DEF Accept, Mask, Request, Disconnect, Reply, Goto, TypeOK, HasAnswer
  <1>1. \A v \in Workers : pc'[v] \in Critical \/ pc[v] \in Critical =>
            pc'[v] = pc[v] /\ v # w
    BY <1>0 DEF Critical, TypeOK
  <1>2. TypeOK'
    BY <1>0, <1>a, <1>1 DEF TypeOK, Running, Holders, Critical, Steps, Threads, Top
  <1>3. MutexHeld'
    BY <1>0, <1>1 DEF MutexHeld, Running
  <1>4. CallHeld'
    BY <1>0, <1>a, <1>1 DEF CallHeld, Running, Critical, store
  <1>5. HandlersHold' /\ HandlersOutside' /\ ClosedIsDurable'
    BY <1>0 DEF HandlersHold, HandlersOutside, ClosedIsDurable, store
  <1>6. HasRequest' /\ HasAnswer'
    BY <1>0, <1>a, <1>b DEF HasRequest, HasAnswer, NoAnswer
  <1>7. AnswersOwnRequest'
    BY <1>0, <1>a, <1>b DEF AnswersOwnRequest, NoAnswer
  <1> QED BY <1>2, <1>3, <1>4, <1>5, <1>6, <1>7

\* A worker takes the mutex, or passes a destroyed one.
LEMMA LockStep ==
    ASSUME IInv, NEW w \in Workers, Lock(w)
    PROVE  IInv'
  <1> USE DEF IInv
  <1>0. /\ Running /\ Running' /\ UNCHANGED <<store, file, request, answer, handlers, process>>
        /\ pc[w] = "lock" /\ pc' = [pc EXCEPT ![w] = "do_X"]
        /\ mut \in {"nobody", "destroyed"}
        /\ mut' = IF mut = "destroyed" THEN mut ELSE w
    BY DEF Lock, Goto, LockReturns, Taken, Running
  <1>1. TypeOK'
    BY <1>0, WorkersAssumption DEF TypeOK, Holders, Threads, Top
  <1>2. MutexHeld'
    BY <1>0, WorkersAssumption DEF MutexHeld, TypeOK
  <1>3. CallHeld'
    BY <1>0, WorkersAssumption DEF CallHeld, TypeOK, store
  <1>4. HandlersHold' /\ HandlersOutside' /\ ClosedIsDurable'
    BY <1>0, WorkersAssumption DEF HandlersHold, HandlersOutside, ClosedIsDurable, store, Threads
  <1>5. HasRequest' /\ HasAnswer' /\ AnswersOwnRequest'
    BY <1>0 DEF HasRequest, HasAnswer, AnswersOwnRequest, TypeOK, NoAnswer
  <1> QED BY <1>1, <1>2, <1>3, <1>4, <1>5

\* do_X() begins on an open store: nobody else is in it.
LEMMA BeginStep ==
    ASSUME IInv, NEW w \in Workers, BeginCall(w)
    PROVE  IInv' /\ call = Store!NoCall /\ request[w] \in Requests
  <1> USE DEF IInv
  <1>0. /\ Running /\ Running' /\ UNCHANGED <<db, file, mut, request, answer, handlers, process>>
        /\ pc[w] = "do_X" /\ pc' = [pc EXCEPT ![w] = "in_call"]
        /\ file = "open" /\ call' = request[w]
    BY DEF BeginCall, Goto, Running
  <1>1. mut = w
    BY <1>0 DEF MutexHeld, HandlersHold, Critical
  <1>2. \A v \in Workers : v # w => pc[v] \notin Critical
    BY <1>0, <1>1, WorkersAssumption DEF MutexHeld
  <1>3. call = Store!NoCall
    BY <1>0, <1>2 DEF CallHeld, Critical
  <1>4. TypeOK'
    BY <1>0 DEF TypeOK, Holders, Threads, Top
  <1>5. MutexHeld'
    BY <1>0, <1>1, <1>2 DEF MutexHeld, TypeOK
  <1>6. CallHeld'
    BY <1>0, <1>1, <1>2 DEF CallHeld, TypeOK, Critical
  <1>7. HandlersHold' /\ HandlersOutside' /\ ClosedIsDurable'
    BY <1>0 DEF HandlersHold, HandlersOutside, ClosedIsDurable
  <1>8. HasRequest' /\ HasAnswer' /\ AnswersOwnRequest'
    BY <1>0 DEF HasRequest, HasAnswer, AnswersOwnRequest, TypeOK, NoAnswer
  <1>9. request[w] \in Requests
    BY <1>0 DEF HasRequest
  <1> QED BY <1>3, <1>4, <1>5, <1>6, <1>7, <1>8, <1>9

\* The store serves the call of the worker that is in it.
LEMMA ServeStep ==
    ASSUME IInv, NEW w \in Workers, Serve(w)
    PROVE  IInv'
  <1> USE DEF IInv
  <1>0. /\ Running /\ Running' /\ UNCHANGED <<file, mut, pc, request, answer, handlers, process>>
        /\ pc[w] = "in_call"
        /\ Store!Insert \/ Store!Delete \/ Store!Read \/ Store!List \/ Store!Refuse
    BY DEF Serve, Running, threads
  <1>1. mut = w /\ file = "open" /\ call.op = request[w].op /\ call.id = request[w].id
    BY <1>0 DEF CallHeld
  <1>2. call.op \in {"insert", "delete", "read", "JSON"}
    BY <1>0, <1>1, RequestsArePending DEF HasRequest
  <1>3. call'.op = call.op /\ call'.id = call.id
    BY <1>0, <1>2, ServingKeepsRequest
  <1>4. TypeOK'
    BY <1>0 DEF TypeOK, Holders, Threads, Top
  <1>5. MutexHeld' /\ HandlersHold' /\ HandlersOutside' /\ ClosedIsDurable'
    BY <1>0, <1>1 DEF MutexHeld, HandlersHold, HandlersOutside, ClosedIsDurable
  <1>6. CallHeld'
    BY <1>0, <1>1, <1>3, WorkersAssumption DEF CallHeld
  <1>7. HasRequest' /\ HasAnswer' /\ AnswersOwnRequest'
    BY <1>0 DEF HasRequest, HasAnswer, AnswersOwnRequest, NoAnswer
  <1> QED BY <1>4, <1>5, <1>6, <1>7

\* The call ends: its result is that of the worker's own request.
LEMMA ReturnStep ==
    ASSUME IInv, NEW w \in Workers, ReturnCall(w)
    PROVE  IInv'
  <1> USE DEF IInv
  <1>0. /\ Running /\ Running' /\ UNCHANGED <<db, file, mut, request, handlers, process>>
        /\ pc[w] = "in_call" /\ pc' = [pc EXCEPT ![w] = "unlock"]
        /\ answer' = [answer EXCEPT ![w] = call]
        /\ call.ret # "pending" /\ call' = Store!NoCall
    BY DEF ReturnCall, Goto, Running, Store!Return
  <1>1. mut = w /\ file = "open" /\ call.op = request[w].op /\ call.id = request[w].id
    BY <1>0 DEF CallHeld
  <1>2. TypeOK'
    BY <1>0 DEF TypeOK, Holders, Threads, Top
  <1>3. MutexHeld' /\ HandlersHold' /\ HandlersOutside' /\ ClosedIsDurable'
    BY <1>0, <1>1 DEF MutexHeld, HandlersHold, HandlersOutside, ClosedIsDurable, TypeOK, Critical
  <1>4. \A v \in Workers : pc'[v] # "in_call"
    BY <1>0, <1>1, WorkersAssumption DEF MutexHeld, TypeOK, Critical
  <1>5. CallHeld'
    BY <1>0, <1>4 DEF CallHeld
  <1>6. HasRequest' /\ HasAnswer'
    BY <1>0 DEF HasRequest, HasAnswer, TypeOK, NoAnswer
  <1>7. AnswersOwnRequest'
    BY <1>0, <1>1 DEF AnswersOwnRequest, HasAnswer, NoAnswer
  <1> QED BY <1>2, <1>3, <1>5, <1>6, <1>7

\* A worker releases the mutex it holds.
LEMMA UnlockStep ==
    ASSUME IInv, NEW w \in Workers, Unlock(w)
    PROVE  IInv'
  <1> USE DEF IInv
  <1>0. /\ Running /\ Running' /\ UNCHANGED <<store, file, request, answer, handlers, process>>
        /\ pc[w] = "unlock" /\ pc' = [pc EXCEPT ![w] = "reply"]
        /\ mut' = IF mut = w THEN "nobody" ELSE mut
    BY DEF Unlock, Goto, Released, Running
  <1>1. \A v \in Workers : v # w /\ pc[v] \in Critical => mut' = mut
    BY <1>0, WorkersAssumption DEF MutexHeld
  <1>2. TypeOK'
    BY <1>0, WorkersAssumption DEF TypeOK, Holders, Threads, Top
  <1>3. MutexHeld'
    BY <1>0, <1>1 DEF MutexHeld, TypeOK, Critical
  <1>4. CallHeld'
    BY <1>0, <1>1 DEF CallHeld, TypeOK, Critical, store
  <1>5. HandlersHold' /\ HandlersOutside' /\ ClosedIsDurable'
    BY <1>0, WorkersAssumption DEF HandlersHold, HandlersOutside, ClosedIsDurable, store
  <1>6. HasRequest' /\ HasAnswer' /\ AnswersOwnRequest'
    BY <1>0 DEF HasRequest, HasAnswer, AnswersOwnRequest, TypeOK, NoAnswer
  <1> QED BY <1>2, <1>3, <1>4, <1>5, <1>6
-----------------------------------------------------------------------------
\* The process ends, in one of four ways: nothing holds a call any more, and
\* what is on disk is the database.
EndsProcess ==
    \/ AcceptFails
    \/ \E t \in Threads : HandlerExit(t)
    \/ \E w \in Workers : UseAfterClose(w) \/ Abort(w)

LEMMA EndStep ==
    ASSUME IInv, EndsProcess
    PROVE  IInv' /\ Store!Crash
  <1> USE DEF IInv
  <1>0. /\ process' \in {"exited", "crashed"} /\ Store!Crash
        /\ UNCHANGED <<file, mut, threads>>
    BY DEF EndsProcess, AcceptFails, HandlerExit, UseAfterClose, Abort, Exit, CrashNow,
           Store!Crash, Store!MaySync
  <1>1. handlers' = handlers
    BY DEF EndsProcess, AcceptFails, HandlerExit, UseAfterClose, Abort, HandlerGoto
  <1>2. TypeOK'
    BY <1>0, <1>1 DEF TypeOK, Running, threads
  <1>3. MutexHeld' /\ CallHeld' /\ HandlersHold' /\ HandlersOutside'
    BY <1>0, <1>1 DEF MutexHeld, CallHeld, HandlersHold, HandlersOutside, Running, threads, Store!Crash
  <1>4. HasRequest' /\ HasAnswer' /\ AnswersOwnRequest' /\ ClosedIsDurable'
    BY <1>0 DEF HasRequest, HasAnswer, AnswersOwnRequest, ClosedIsDurable, NoAnswer,
                threads, Store!Crash
  <1> QED BY <1>0, <1>2, <1>3, <1>4

\* The stack of handlers of a thread: a signal pushes a frame, a step changes
\* the top one.
LEMMA StackStep ==
    ASSUME TypeOK, NEW t \in Threads,
           NEW step \in HandlerSteps, NEW next \in HandlerSteps,
           Handling(t, step), HandlerGoto(t, next)
    PROVE  /\ handlers' \in [Threads -> Seq(Frames)]
           /\ \A u \in Threads \ {t} : handlers'[u] = handlers[u]
           /\ \A u \in Threads : DOMAIN handlers'[u] = DOMAIN handlers[u]
           /\ \A u \in Threads : Top(u)' = Top(u) /\ DOMAIN handlers[u] = 1 .. Top(u)
           /\ Top(t) \in DOMAIN handlers[t] /\ handlers[t][Top(t)].pc = step
           /\ handlers'[t][Top(t)].pc = next
           /\ \A i \in DOMAIN handlers[t] : i # Top(t) => handlers'[t][i] = handlers[t][i]
           /\ handlers[t] # <<>>
  <1> DEFINE stack == handlers[t]
             n == Top(t)
             changed == [stack EXCEPT ![n] = [stack[n] EXCEPT !.pc = next]]
  <1>1. handlers \in [Threads -> Seq(Frames)]
    BY DEF TypeOK, Frames, HandlerSteps
  <1>2. stack \in Seq(Frames) /\ n \in Nat /\ n \in DOMAIN stack /\ n = Len(stack)
    BY <1>1 DEF Handling, Top
  <1>3. stack[n] \in Frames /\ stack[n].pc = step
    BY <1>2 DEF Handling
  <1>4. [stack[n] EXCEPT !.pc = next] \in Frames /\ [stack[n] EXCEPT !.pc = next].pc = next
    BY <1>3 DEF Frames
  <1>5. handlers' = [handlers EXCEPT ![t] = changed]
    BY DEF HandlerGoto
  <1> HIDE DEF n
  <1>6. changed \in Seq(Frames) /\ DOMAIN changed = DOMAIN stack /\ Len(changed) = Len(stack)
    BY <1>2, <1>4
  <1>7. changed[n].pc = next /\ \A i \in DOMAIN stack : i # n => changed[i] = stack[i]
    BY <1>2, <1>4
  <1>8. stack # <<>>
    BY <1>2
  <1> HIDE DEF changed
  <1>9. handlers' \in [Threads -> Seq(Frames)] /\ handlers'[t] = changed
        /\ \A u \in Threads \ {t} : handlers'[u] = handlers[u]
    BY <1>1, <1>5, <1>6
  <1>10. \A u \in Threads : DOMAIN handlers'[u] = DOMAIN handlers[u] /\ Len(handlers'[u]) = Len(handlers[u])
    BY <1>6, <1>9
  <1>11. \A u \in Threads : DOMAIN handlers[u] = 1 .. Len(handlers[u])
    BY <1>1
  <1> QED BY <1>2, <1>3, <1>7, <1>8, <1>9, <1>10, <1>11 DEF Top, n

LEMMA SignalStep ==
    ASSUME IInv, NEW t \in Threads, NEW s \in Signals, Signal(t, s)
    PROVE  IInv'
  <1> USE DEF IInv
  <1> DEFINE frame == [sig |-> s, pc |-> "lock"]
             stack == handlers[t]
  <1>0. Running /\ Running' /\ UNCHANGED <<store, file, mut, threads, process>> /\ TakesSignals(t)
    BY DEF Signal, Running
  <1>1. /\ handlers' = [handlers EXCEPT ![t] = Append(stack, frame)]
        /\ handlers \in [Threads -> Seq(Frames)]
        /\ frame \in Frames
    BY DEF Signal, TypeOK, Frames, HandlerSteps
  <1>2. /\ Append(stack, frame) \in Seq(Frames)
        /\ Len(Append(stack, frame)) = Len(stack) + 1 /\ Len(stack) \in Nat
        /\ \A i \in DOMAIN stack : Append(stack, frame)[i] = stack[i]
        /\ \A i \in DOMAIN Append(stack, frame) :
                i \in DOMAIN stack \/ Append(stack, frame)[i] = frame
    BY <1>1
  <1> HIDE DEF frame
  <1>3. /\ handlers' \in [Threads -> Seq(Frames)] /\ handlers'[t] = Append(stack, frame)
        /\ \A u \in Threads \ {t} : handlers'[u] = handlers[u]
    BY <1>1, <1>2
  <1>4. \A u \in Threads : DOMAIN handlers[u] = 1 .. Top(u)
    BY <1>1 DEF Top
  <1>5. \A u \in Threads : 1 .. Top(u) \subseteq 1 .. Top(u)'
    BY <1>2, <1>3 DEF Top
  <1>6. \A u \in Threads : \A i \in 1 .. Top(u) : handlers'[u][i] = handlers[u][i]
    BY <1>2, <1>3, <1>4
  <1>7. Holders \subseteq Holders'
    <2>1. pc' = pc
      BY <1>0 DEF threads
    <2> QED BY <1>5, <1>6, <2>1 DEF Holders
  <1>8. TypeOK'
    BY <1>0, <1>3, <1>7 DEF TypeOK, threads, Frames, HandlerSteps
  <1>9. HandlersHold'
    <2>1. \A u \in Threads : \A i \in DOMAIN handlers'[u] :
            handlers'[u][i].pc = "lock" \/ (i \in DOMAIN handlers[u] /\ handlers'[u][i] = handlers[u][i])
      BY <1>2, <1>3 DEF frame
    <2> QED BY <2>1, <1>0 DEF HandlersHold
  <1>10. HandlersOutside'
    BY <1>0, <1>3 DEF HandlersOutside, TakesSignals, threads, Threads
  <1>11. MutexHeld' /\ CallHeld' /\ ClosedIsDurable'
    BY <1>0 DEF MutexHeld, CallHeld, ClosedIsDurable, threads, store
  <1>12. HasRequest' /\ HasAnswer' /\ AnswersOwnRequest'
    BY <1>0 DEF HasRequest, HasAnswer, AnswersOwnRequest, threads, NoAnswer
  <1> QED BY <1>8, <1>9, <1>10, <1>11, <1>12

\* A thread that runs a handler is not in a call.
LEMMA HandlerIsOutside ==
    ASSUME IInv, Running, NEW t \in Threads, handlers[t] # <<>>
    PROVE  t \in Workers => pc[t] \notin Critical
  BY DEF IInv, HandlersOutside, Critical

\* A handler that closes an open store holds the mutex: no call is in progress.
LEMMA CloserIsAlone ==
    ASSUME IInv, Running, NEW t \in Threads, handlers[t] # <<>>, mut = t
    PROVE  call = Store!NoCall /\ \A w \in Workers : pc[w] \notin Critical
  <1>1. \A w \in Workers : pc[w] \notin Critical
    BY HandlerIsOutside, WorkersAssumption DEF IInv, MutexHeld, Threads
  <1> QED BY <1>1 DEF IInv, CallHeld, Critical

LEMMA HandlerLockStep ==
    ASSUME IInv, NEW t \in Threads, HandlerLock(t)
    PROVE  IInv'
  <1> USE DEF IInv
  <1>0. /\ Running /\ Running' /\ UNCHANGED <<store, file, threads, process>>
        /\ Handling(t, "lock") /\ HandlerGoto(t, "close")
        /\ mut \in {"nobody", "destroyed"}
        /\ mut' = IF mut = "destroyed" THEN mut ELSE t
    BY DEF HandlerLock, Handling, LockReturns, Taken, Running
  <1>s. /\ handlers' \in [Threads -> Seq(Frames)]
        /\ \A u \in Threads \ {t} : handlers'[u] = handlers[u]
        /\ \A u \in Threads : DOMAIN handlers'[u] = DOMAIN handlers[u]
        /\ Top(t)' = Top(t) /\ Top(t) \in 1 .. Top(t) /\ handlers'[t][Top(t)].pc = "close"
        /\ \A i \in DOMAIN handlers[t] : i # Top(t) => handlers'[t][i] = handlers[t][i]
        /\ handlers[t] # <<>>
    BY <1>0, StackStep DEF HandlerSteps
  <1>1. TypeOK'
    <2>1. t \in Holders'
      BY <1>s DEF Holders
    <2>2. "destroyed" \notin Threads
      BY WorkersAssumption DEF Threads
    <2> QED BY <1>0, <1>s, <2>1, <2>2 DEF TypeOK, threads, Frames, HandlerSteps
  <1>2. MutexHeld' /\ CallHeld' /\ ClosedIsDurable'
    BY <1>0, WorkersAssumption DEF MutexHeld, CallHeld, ClosedIsDurable, threads, store
  <1>3. HandlersHold'
    BY <1>0, <1>s, WorkersAssumption DEF HandlersHold, Threads
  <1>4. HandlersOutside'
    BY <1>0, <1>s DEF HandlersOutside, threads, Threads
  <1>5. HasRequest' /\ HasAnswer' /\ AnswersOwnRequest'
    BY <1>0 DEF HasRequest, HasAnswer, AnswersOwnRequest, threads, NoAnswer
  <1> QED BY <1>1, <1>2, <1>3, <1>4, <1>5

LEMMA HandlerCloseStep ==
    ASSUME IInv, NEW t \in Threads, HandlerClose(t)
    PROVE  IInv' /\ (file = "open" => call = Store!NoCall)
  <1> USE DEF IInv
  <1>0. /\ Running /\ Running' /\ UNCHANGED <<mut, threads, process>>
        /\ Handling(t, "close") /\ HandlerGoto(t, "unlock")
        /\ file' = "closed"
        /\ IF file = "open" THEN Store!Sync ELSE UNCHANGED store
    BY DEF HandlerClose, Handling, Running
  <1>s. /\ handlers' \in [Threads -> Seq(Frames)]
        /\ \A u \in Threads \ {t} : handlers'[u] = handlers[u]
        /\ \A u \in Threads : DOMAIN handlers'[u] = DOMAIN handlers[u]
        /\ \A u \in Threads : Top(u)' = Top(u) /\ DOMAIN handlers[u] = 1 .. Top(u)
        /\ Top(t) \in DOMAIN handlers[t] /\ handlers[t][Top(t)].pc = "close"
        /\ handlers'[t][Top(t)].pc = "unlock"
        /\ \A i \in DOMAIN handlers[t] : i # Top(t) => handlers'[t][i] = handlers[t][i]
        /\ handlers[t] # <<>>
    BY <1>0, StackStep DEF HandlerSteps
  <1>1. file = "open" => mut = t
    BY <1>s DEF HandlersHold
  <1>2. file = "open" => call = Store!NoCall /\ \A w \in Workers : pc[w] \notin Critical
    BY <1>0, <1>1, <1>s, CloserIsAlone
  <1>3. TypeOK'
    <2>1. Holders' = Holders
      <3>1. pc' = pc
        BY <1>0 DEF threads
      <3>2. \A u \in Threads : (\E i \in 1 .. Top(u)' : handlers'[u][i].pc \in {"close", "unlock"})
                           <=> (\E i \in 1 .. Top(u) : handlers[u][i].pc \in {"close", "unlock"})
        BY <1>s
      <3> QED BY <3>1, <3>2 DEF Holders
    <2> QED BY <1>0, <1>s, <2>1 DEF TypeOK, threads, Frames, HandlerSteps
  <1>4. MutexHeld' /\ ClosedIsDurable'
    BY <1>0 DEF MutexHeld, ClosedIsDurable, TypeOK, Store!Sync, store, threads
  <1>5. CallHeld'
    BY <1>0, <1>2 DEF CallHeld, Store!Sync, store, threads, Critical
  <1>6. HandlersHold'
    BY <1>0, <1>s DEF HandlersHold
  <1>7. HandlersOutside'
    BY <1>0, <1>s DEF HandlersOutside, threads, Threads
  <1>8. HasRequest' /\ HasAnswer' /\ AnswersOwnRequest'
    BY <1>0 DEF HasRequest, HasAnswer, AnswersOwnRequest, threads, NoAnswer
  <1> QED BY <1>2, <1>3, <1>4, <1>5, <1>6, <1>7, <1>8

LEMMA HandlerUnlockStep ==
    ASSUME IInv, NEW t \in Threads, HandlerUnlock(t) \/ HandlerDestroy(t)
    PROVE  IInv'
  <1> USE DEF IInv
  <1>0. /\ Running /\ Running' /\ UNCHANGED <<store, file, threads, process>>
        /\ \/ /\ Handling(t, "unlock") /\ HandlerGoto(t, "destroy")
              /\ mut' = IF mut = t THEN "nobody" ELSE mut
           \/ /\ Handling(t, "destroy") /\ HandlerGoto(t, "exit")
              /\ mut' = IF mut = "nobody" THEN "destroyed" ELSE mut
    BY DEF HandlerUnlock, HandlerDestroy, Handling, Running, Released
  <1>s. /\ handlers' \in [Threads -> Seq(Frames)]
        /\ \A u \in Threads \ {t} : handlers'[u] = handlers[u]
        /\ \A u \in Threads : DOMAIN handlers'[u] = DOMAIN handlers[u]
        /\ \A u \in Threads : Top(u)' = Top(u) /\ DOMAIN handlers[u] = 1 .. Top(u)
        /\ Top(t) \in DOMAIN handlers[t] /\ handlers[t][Top(t)].pc \in {"unlock", "destroy"}
        /\ \A i \in DOMAIN handlers[t] : i # Top(t) => handlers'[t][i] = handlers[t][i]
        /\ handlers'[t][Top(t)].pc \in {"destroy", "exit"}
        /\ handlers[t] # <<>>
    BY <1>0, StackStep DEF HandlerSteps
  <1>1. file = "closed"
    BY <1>s DEF HandlersHold
  <1>n. {"nobody", "destroyed"} \cap Threads = {}
    BY WorkersAssumption DEF Threads
  <1>2. TypeOK'
    <2>1. mut' \in {"nobody", "destroyed"} \cup Threads
      BY <1>0 DEF TypeOK
    <2>2. ASSUME mut' \in Threads PROVE mut' \in Holders'
      <3>1. mut' = mut /\ mut \in Holders
        BY <1>0, <1>n, <2>2 DEF TypeOK
      <3>2. pc' = pc
        BY <1>0 DEF threads
      <3>3. CASE mut # t
        BY <1>s, <3>1, <3>2, <3>3 DEF Holders
      <3>4. CASE mut = t
        <4>1. Handling(t, "destroy")
          BY <1>0, <1>n, <2>2, <3>4
        <4>2. handlers[t][Top(t)].pc = "destroy"
          BY <4>1 DEF Handling
        <4> QED BY <1>s, <3>1, <3>2, <3>4, <4>2 DEF Holders
      <3> QED BY <3>3, <3>4
    <2> QED BY <1>0, <1>s, <2>1, <2>2 DEF TypeOK, threads, Frames, HandlerSteps
  <1>3. MutexHeld'
    <2>1. ASSUME NEW w \in Workers, pc[w] \in Critical PROVE mut' \in {w, "destroyed"}
      <3>1. mut \in {w, "destroyed"} /\ w \in Threads /\ w # t
        BY <1>0, <1>s, <2>1, HandlerIsOutside DEF MutexHeld, Threads
      <3> QED BY <1>0, <1>n, <3>1
    <2> QED BY <1>0, <2>1 DEF MutexHeld, threads
  <1>4. CallHeld' /\ ClosedIsDurable'
    BY <1>0, <1>1 DEF CallHeld, ClosedIsDurable, threads, store
  <1>5. HandlersHold'
    BY <1>0, <1>1, <1>s DEF HandlersHold
  <1>6. HandlersOutside'
    BY <1>0, <1>s DEF HandlersOutside, threads, Threads
  <1>7. HasRequest' /\ HasAnswer' /\ AnswersOwnRequest'
    BY <1>0 DEF HasRequest, HasAnswer, AnswersOwnRequest, threads, NoAnswer
  <1> QED BY <1>2, <1>3, <1>4, <1>5, <1>6, <1>7
-----------------------------------------------------------------------------
LEMMA NextIInv == IInv /\ [Next]_vars => IInv'
  <1> SUFFICES ASSUME IInv, [Next]_vars PROVE IInv'
    OBVIOUS
  <1>1. ASSUME NEW w \in Workers,
               Accept(w) \/ Request(w) \/ Disconnect(w) \/ Work(w)
        PROVE  IInv'
    BY <1>1, OutsideStep, LockStep, BeginStep, ServeStep, ReturnStep, UnlockStep, EndStep
       DEF Work, EndsProcess
  <1>2. CASE AcceptFails
    BY <1>2, EndStep DEF EndsProcess
  <1>3. ASSUME NEW t \in Threads, NEW s \in Signals, Signal(t, s) PROVE IInv'
    BY <1>3, SignalStep
  <1>4. ASSUME NEW t \in Threads, Shutdown(t) PROVE IInv'
    BY <1>4, HandlerLockStep, HandlerCloseStep, HandlerUnlockStep, EndStep
       DEF Shutdown, EndsProcess
  <1>5. CASE UNCHANGED vars
    <2> USE <1>5 DEF IInv, vars
    <2>1. TypeOK'
      BY DEF TypeOK, Running, Holders, Top
    <2>2. MutexHeld' /\ CallHeld' /\ HandlersHold' /\ HandlersOutside' /\ ClosedIsDurable'
      BY DEF MutexHeld, CallHeld, HandlersHold, HandlersOutside, ClosedIsDurable, Running
    <2>3. HasRequest' /\ HasAnswer' /\ AnswersOwnRequest'
      BY DEF HasRequest, HasAnswer, AnswersOwnRequest, NoAnswer
    <2> QED BY <2>1, <2>2, <2>3
  <1> QED BY <1>1, <1>2, <1>3, <1>4, <1>5 DEF Next

LEMMA AlwaysIInv == Spec => []IInv
  BY InitIInv, NextIInv, PTL DEF Spec

\* The variables have their types, and a worker that holds the mutex is
\* between lock and unlock: for any number of connections and signals.
THEOREM TypeCorrect == Spec => []TypeOK
  <1>1. IInv => TypeOK
    BY DEF IInv
  <1> QED BY <1>1, AlwaysIInv, PTL

\* handle_X_call() answers a client with the result of its own request,
\* whatever the other threads and the handlers do.
THEOREM EveryAnswerIsOwn == Spec => []AnswersOwnRequest
  <1>1. IInv => AnswersOwnRequest
    BY DEF IInv
  <1> QED BY <1>1, AlwaysIInv, PTL

\* server_shutdown() leaves on disk everything a client was told.
THEOREM ShutdownIsDurable == Spec => []ClosedIsDurable
  <1>1. IInv => ClosedIsDurable
    BY DEF IInv
  <1> QED BY <1>1, AlwaysIInv, PTL

\* The signal handler closes fs_file between two calls, never during one.
THEOREM ShutdownWaits == Spec => CloseWaits
  <1>1. IInv /\ [Next]_vars => (file = "open" /\ file' = "closed" => call = Store!NoCall)
    <2> SUFFICES ASSUME IInv, Next, file = "open", file' = "closed"
                 PROVE  \E t \in Threads : HandlerClose(t)
      BY HandlerCloseStep DEF vars
    <2> QED
      BY DEF Next, Work, Shutdown, Accept, Mask, Request, Disconnect, Lock, BeginCall,
             UseAfterClose, Serve, ReturnCall, Unlock, Reply, Abort, AcceptFails,
             Signal, HandlerLock, HandlerUnlock, HandlerDestroy, HandlerExit
  <1> QED BY <1>1, AlwaysIInv, PTL DEF Spec, CloseWaits
-----------------------------------------------------------------------------
(***************************************************************************)
(* The refinement: each step of the server is a step of the store, or      *)
(* leaves it alone.                                                        *)
(***************************************************************************)
LEMMA StoreStep == IInv /\ [Next]_vars => [Store!Next]_(Store!vars)
  <1> SUFFICES ASSUME IInv, [Next]_vars
               PROVE  Store!Next \/ UNCHANGED store
    BY DEF Store!vars, store
  <1> USE DEF Store!Next
  <1>1. ASSUME NEW w \in Workers, BeginCall(w) PROVE Store!Begin
    BY <1>1, BeginStep DEF BeginCall, Requests, Store!Begin
  <1>2. ASSUME NEW w \in Workers, Serve(w) PROVE Store!Next
    BY <1>2 DEF Serve
  <1>3. ASSUME NEW w \in Workers, ReturnCall(w) PROVE Store!Return
    BY <1>3 DEF ReturnCall
  <1>4. ASSUME NEW w \in Workers, UseAfterClose(w) \/ Abort(w) PROVE Store!Crash
    BY <1>4, EndStep DEF EndsProcess
  <1>5. CASE AcceptFails \/ \E t \in Threads : HandlerExit(t)
    BY <1>5, EndStep DEF EndsProcess
  <1>6. CASE \E t \in Threads : HandlerClose(t)
    BY <1>6 DEF HandlerClose
  <1>7. ASSUME NEW w \in Workers,
               Accept(w) \/ Mask(w) \/ Request(w) \/ Disconnect(w)
                 \/ Lock(w) \/ Unlock(w) \/ Reply(w)
        PROVE  UNCHANGED store
    BY <1>7 DEF Accept, Mask, Request, Disconnect, Lock, Unlock, Reply
  <1>8. CASE \E t \in Threads : \/ HandlerLock(t) \/ HandlerUnlock(t) \/ HandlerDestroy(t)
                               \/ \E s \in Signals : Signal(t, s)
    BY <1>8 DEF HandlerLock, HandlerUnlock, HandlerDestroy, Signal
  <1>9. CASE UNCHANGED vars
    BY <1>9 DEF vars, store
  <1> QED
    BY <1>1, <1>2, <1>3, <1>4, <1>5, <1>6, <1>7, <1>8, <1>9 DEF Next, Work, Shutdown

\* The server implements the store's specification: the threads, the mutex,
\* signals at any point and every way to end add no behaviour to it.
THEOREM ServerRefinesStore == Spec => CallsOneAtATime
  <1>1. Init => Store!Init
    BY DEF Init
  <1> QED
    BY <1>1, StoreStep, AlwaysIInv, PTL DEF Spec, CallsOneAtATime, Store!Spec
=============================================================================
