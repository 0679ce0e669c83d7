------------------------ MODULE HttpConnectionProofs ------------------------
(***************************************************************************)
(* For all lengths of requests and of the buffer: rcvbuf is written past   *)
(* its end for a Content-Length below 0 only, at most Slack bytes of a     *)
(* message are left to the next, and the server does not close a           *)
(* connection without a reason.                                            *)
(***************************************************************************)
EXTENDS HttpConnection, TLAPS

\* Every byte sent since rcvbuf was last emptied is on the wire or in rcvbuf.
Conserved == wire + r_total = stale + request.head + request.body

\* content_length is known from the first parse of the whole head on: then the
\* message is handed over, the connection closed, or the buffer extended.
Known ==
    /\ pc = "recv" => (extended <=> content_length > 0)
    /\ extended => content_length = request.length /\ content_length > 0
    /\ pc = "callback" => /\ request # NoRequest
                          /\ HeaderLength <= r_total
                          /\ MessageComplete(r_total)

IInv == TypeOK /\ Conserved /\ Known /\ BufferBound /\ StaleBound

\* The initial state has the invariant.
LEMMA InitIInv == Init => IInv
<1> SUFFICES ASSUME Init PROVE IInv
  OBVIOUS
<1>1. TypeOK
  <2>1. request = NoRequest /\ request.length = 0
    BY DEF Init, NoRequest
  <2> QED
    BY <2>1 DEF Init, TypeOK
<1>2. Conserved /\ StaleBound
  BY DEF Init, Conserved, StaleBound, NoRequest, Slack
<1>3. Known
  BY DEF Init, Known
<1>4. BufferBound
  BY MaxHeaderAssumption DEF Init, BufferBound, Capacity, Window, Size
<1> QED
  BY <1>1, <1>2, <1>3, <1>4 DEF IInv

\* Lengths are natural numbers.
LEMMA Lengths ==
    ASSUME TypeOK
    PROVE  /\ request.head \in Nat /\ request.body \in Nat /\ request.length \in Int
           /\ request.length = request.body \/ request.length < 0
           /\ HeaderLength \in Nat
           /\ content_length \in Int
BY RequestsAssumption DEF TypeOK, NoRequest, HeaderLength

\* Parsing n bytes keeps the invariant, and so does running over the buffer.
LEMMA ReceiveIInv == ASSUME IInv, Receive PROVE IInv'
<1>1. PICK n \in 1 .. Window :
        /\ n <= wire
        /\ wire' = wire - n
        /\ r_total' = r_total + n
        /\ IF r_total + n <= Capacity THEN Parse(r_total + n) ELSE Overrun
  BY DEF Receive
<1>2. pc = "recv" /\ TypeOK /\ Conserved /\ Known /\ BufferBound /\ StaleBound
  BY DEF Receive, IInv
<1>3. /\ request.head \in Nat /\ request.body \in Nat /\ HeaderLength \in Nat
      /\ request.length \in Int /\ content_length \in Int
      /\ request.length = request.body \/ request.length < 0
      /\ wire \in Nat /\ stale \in Nat /\ r_total \in Nat
      /\ MaxHeader \in Nat /\ n \in Nat /\ extended \in BOOLEAN
  <2>1. MaxHeader \in Nat /\ SizeModulus \in Nat
    BY MaxHeaderAssumption
  <2>2. content_length \in Int /\ r_total \in Nat
    BY <1>2, Lengths DEF TypeOK
  <2>3. Window \in Int
    BY <2>1, <2>2 DEF Window, Size
  <2> QED
    BY <1>1, <1>2, <2>1, <2>3, Lengths DEF TypeOK
<1>4. Capacity \in Nat /\ MaxHeader <= Capacity
  BY <1>2, <1>3 DEF Capacity, Known
<1>5. UNCHANGED <<request, stale, staleHas, client>>
  BY <1>1 DEF Parse, CloseConnection, Overrun, clientVars
<1>6. wire' \in Nat /\ r_total' \in Nat /\ Conserved'
  BY <1>1, <1>2, <1>3, <1>5 DEF Conserved
<1>7. StaleBound'
  BY <1>2, <1>5 DEF StaleBound
<1>8. CASE r_total + n > Capacity
  <2>1. pc' = "overrun" /\ UNCHANGED <<content_length, extended>>
    BY <1>1, <1>3, <1>4, <1>8 DEF Overrun
  <2>2. ~(request.length >= 0)
    <3>1. SUFFICES ASSUME request.length >= 0 PROVE FALSE
      OBVIOUS
    <3>2. r_total + Window <= Capacity /\ n <= Window /\ Window \in Int
      <4>1. Window \in Int
        BY <1>3, MaxHeaderAssumption DEF Window, Size
      <4> QED
        BY <1>1, <1>2, <3>1, <4>1 DEF BufferBound
    <3> QED
      BY <3>2, <1>3, <1>4, <1>8
  <2>3. TypeOK' /\ Known'
    BY <2>1, <1>2, <1>5, <1>6 DEF TypeOK, Known
  <2>4. BufferBound'
    BY <2>1, <2>2, <1>3, <1>5 DEF BufferBound
  <2> QED
    BY <2>3, <2>4, <1>6, <1>7 DEF IInv
<1>9. CASE r_total + n <= Capacity /\ ~HeaderComplete(r_total + n)
  <2>1. UNCHANGED <<pc, content_length, extended>>
    BY <1>1, <1>9 DEF Parse
  <2>2. TypeOK'
    BY <2>1, <1>2, <1>5, <1>6 DEF TypeOK
  <2>3. Known'
    BY <2>1, <1>2, <1>5 DEF Known
  <2>4. Capacity' = Capacity
    BY <2>1 DEF Capacity
  <2>5. r_total' + Window' <= Capacity' \/ ~(request.length >= 0)
    <3>1. SUFFICES ASSUME request.length >= 0 PROVE r_total' + Window' <= Capacity'
      OBVIOUS
    <3>2. Capacity = MaxHeader + content_length
      BY <3>1, <1>2, <1>3 DEF Capacity, Known, TypeOK
    <3> QED
      BY <2>1, <2>4, <3>2, <1>1, <1>3, <1>9 DEF Window, Size
  <2>6. BufferBound'
    BY <2>1, <2>4, <2>5, <1>1, <1>2, <1>5, <1>9 DEF BufferBound
  <2> QED
    BY <2>2, <2>3, <2>6, <1>6, <1>7 DEF IInv
<1>10. CASE r_total + n <= Capacity /\ HeaderComplete(r_total + n) /\ UnknownProtocol
  <2>1. pc' = "closed" /\ UNCHANGED <<content_length, extended>>
    BY <1>1, <1>10 DEF Parse, CloseConnection
  <2>2. TypeOK'
    BY <2>1, <1>2, <1>5, <1>6 DEF TypeOK
  <2>3. Known'
    BY <2>1, <1>2, <1>5 DEF Known
  <2>4. BufferBound'
    BY <2>1, <1>1, <1>10 DEF BufferBound, Capacity
  <2> QED
    BY <2>2, <2>3, <2>4, <1>6, <1>7 DEF IInv
<1>11. CASE r_total + n <= Capacity /\ HeaderComplete(r_total + n) /\ ~UnknownProtocol
  <2>1. content_length' = request.length
    BY <1>1, <1>11 DEF Parse
  <2>2. HeaderLength <= r_total' /\ HeaderLength' = HeaderLength
    BY <1>1, <1>3, <1>5, <1>11 DEF HeaderComplete, HeaderLength
  <2>3. CASE MessageComplete(r_total + n)
    <3>1. pc' = "callback" /\ UNCHANGED extended
      BY <1>1, <1>11, <2>3 DEF Parse
    <3>2. TypeOK'
      BY <3>1, <2>1, <1>2, <1>5, <1>6 DEF TypeOK
    <3>3. Known'
      BY <3>1, <2>1, <2>2, <2>3, <1>1, <1>2, <1>3, <1>5, <1>11
         DEF Known, MessageComplete, HeaderComplete
    <3>4. r_total' <= Capacity'
      BY <3>1, <2>1, <1>1, <1>2, <1>3, <1>4, <1>11 DEF Capacity, Known
    <3> QED
      BY <3>1, <3>2, <3>3, <3>4, <1>6, <1>7 DEF IInv, BufferBound
  <2>4. CASE ~MessageComplete(r_total + n)
    <3>1. /\ IF request.length > 0 THEN extended' = TRUE ELSE UNCHANGED extended
          /\ pc' = "recv"
      BY <1>1, <1>2, <1>11, <2>4 DEF Parse
    <3>2. request.length # 0
      BY <2>4 DEF MessageComplete
    <3>3. TypeOK'
      BY <3>1, <2>1, <1>2, <1>5, <1>6 DEF TypeOK
    <3>4. Known'
      <4>1. CASE request.length > 0
        BY <4>1, <3>1, <2>1, <1>5 DEF Known
      <4>2. CASE ~(request.length > 0)
        BY <4>2, <3>1, <2>1, <1>2, <1>5 DEF Known
      <4> QED
        BY <4>1, <4>2
    <3>5. Capacity <= Capacity'
      BY <3>1, <2>1, <1>2, <1>3 DEF Capacity, Known
    <3>6. r_total' <= Capacity' /\ Capacity' \in Int
      BY <3>1, <3>5, <2>1, <1>1, <1>3, <1>4, <1>6, <1>11 DEF Capacity
    <3>7. ASSUME request.length >= 0 PROVE r_total' + Window' <= Capacity'
      <4>0. extended' = TRUE
        BY <3>1, <3>2, <3>7, <1>3
      <4>1. Capacity' = MaxHeader + content_length'
        BY <4>0 DEF Capacity
      <4>2. Window' = Size(MaxHeader + request.length - r_total')
        BY <2>1 DEF Window, Size
      <4>3. MaxHeader + request.length - r_total' >= 0
        BY <3>6, <4>1, <2>1, <1>3, <1>6
      <4> QED
        BY <4>1, <4>2, <4>3, <2>1, <1>3, <1>6 DEF Size
    <3>8. BufferBound'
      BY <3>1, <3>6, <3>7, <1>5 DEF BufferBound
    <3> QED
      BY <3>3, <3>4, <3>8, <1>6, <1>7 DEF IInv
  <2> QED
    BY <2>3, <2>4
<1> QED
  BY <1>3, <1>4, <1>8, <1>9, <1>10, <1>11

\* Every other step keeps it too.
LEMMA NextIInv == ASSUME IInv, [Next]_vars PROVE IInv'
<1>1. /\ request.head \in Nat /\ request.body \in Nat
      /\ wire \in Nat /\ stale \in Nat /\ r_total \in Nat /\ MaxHeader \in Nat
  BY Lengths, MaxHeaderAssumption DEF IInv, TypeOK
<1>2. ASSUME NEW r \in Requests, Send(r) PROVE IInv'
  <2>1. /\ request = NoRequest /\ request' = r
        /\ wire' = wire + r.head + r.body
        /\ UNCHANGED <<client, stale, staleHas, pc, r_total, content_length, extended>>
    BY <1>2 DEF Send, buffer
  <2>2. r.head \in Nat /\ r.body \in Nat /\ r.length \in Int
    BY RequestsAssumption
  <2>3. content_length = 0 /\ request.head = 0 /\ request.body = 0 /\ request.length = 0
    BY <2>1 DEF IInv, TypeOK, NoRequest
  <2>4. pc # "callback" /\ ~extended
    BY <2>1, <2>3 DEF IInv, Known
  <2>5. TypeOK'
    BY <2>1, <2>2, <2>3, <1>1 DEF IInv, TypeOK
  <2>6. Conserved' /\ Known' /\ StaleBound'
    BY <2>1, <2>2, <2>3, <2>4, <1>1 DEF IInv, Conserved, Known, StaleBound
  <2>7. BufferBound'
    BY <2>1, <2>3 DEF IInv, BufferBound, Capacity, Window, Size
  <2> QED
    BY <2>5, <2>6, <2>7 DEF IInv
<1>3. CASE HangUp
  BY <1>3
     DEF HangUp, stream, buffer, IInv, TypeOK, Conserved, Known, BufferBound,
         StaleBound, Capacity, Window, Size, MessageComplete, HeaderLength
<1>4. CASE Receive
  BY <1>4, ReceiveIInv
<1>5. CASE ReceiveNothing
  BY <1>5
     DEF ReceiveNothing, CloseConnection, clientVars, buffer, IInv, TypeOK, Conserved,
         Known, BufferBound, StaleBound, Capacity, Window, Size
<1>6. CASE Callback
  <2>1. /\ pc = "callback" /\ pc' = "recv"
        /\ request' = NoRequest
        /\ r_total' = 0 /\ content_length' = 0 /\ extended' = FALSE
        /\ stale' = wire /\ staleHas' \in {"nul", "space", "text"}
        /\ UNCHANGED <<client, wire>>
    BY <1>6 DEF Callback, Reset
  <2>2. wire <= Slack
    <3>1. /\ wire + r_total = stale + request.head + request.body
          /\ stale + request.head <= r_total
          /\ request.length = request.body
          /\ \/ request.length = 0
             \/ r_total - (stale + request.head) + 5 >= request.length
      BY <2>1, Lengths DEF IInv, Conserved, Known, MessageComplete, HeaderLength, Slack
    <3> QED
      BY <3>1, <1>1 DEF Slack
  <2>3. TypeOK'
    BY <2>1, <1>1 DEF IInv, TypeOK, NoRequest
  <2>4. Conserved' /\ Known' /\ StaleBound'
    BY <2>1, <2>2, <1>1 DEF Conserved, Known, StaleBound, NoRequest
  <2>5. BufferBound'
    BY <2>1, <1>1 DEF BufferBound, Capacity, Window, Size
  <2> QED
    BY <2>3, <2>4, <2>5 DEF IInv
<1>7. CASE UNCHANGED vars
  BY <1>7
     DEF vars, IInv, TypeOK, Conserved, Known, BufferBound, StaleBound, Capacity,
         Window, Size, MessageComplete, HeaderLength
<1> QED
  BY <1>2, <1>3, <1>4, <1>5, <1>6, <1>7 DEF Next

\* The invariant holds in every reachable state.
THEOREM Invariant == Spec => []IInv
<1> QED
  BY InitIInv, NextIInv, PTL DEF Spec

\* recv() stays within rcvbuf (handle_connection) for all lengths of head and
\* body; only a Content-Length below 0 makes it write past the end.
THEOREM BufferBoundCorrect == Spec => []BufferBound
<1>1. IInv => BufferBound
  BY DEF IInv
<1> QED
  BY <1>1, Invariant, PTL

\* At most Slack bytes of a message are left to the next, for all lengths.
THEOREM StaleBoundCorrect == Spec => []StaleBound
<1>1. IInv => StaleBound
  BY DEF IInv
<1> QED
  BY <1>1, Invariant, PTL

\* The variables have their types, and content_length is that of the request in
\* hand, for all lengths (handle_connection).
THEOREM TypeCorrect == Spec => []TypeOK
<1>1. IInv => TypeOK
  BY DEF IInv
<1> QED
  BY <1>1, Invariant, PTL
-----------------------------------------------------------------------------
\* recv() is called again only for a message that is not whole: with the buffer
\* extended, for the body; before, with nothing stale in the buffer and a length
\* of 0 or more, for the head.
Waiting ==
    pc = "recv" =>
        /\ extended => HeaderComplete(r_total) /\ ~MessageComplete(r_total)
        /\ ~extended /\ stale = 0 /\ r_total # 0 /\ request.length >= 0 =>
                request # NoRequest /\ r_total < request.head

RInv == IInv /\ Waiting /\ ClosedForAReason

\* Parsing n bytes closes the connection only when stale bytes come first.
LEMMA ReceiveRInv ==
    ASSUME IInv, Waiting, Receive
    PROVE  Waiting' /\ ClosedForAReason'
<1>1. PICK n \in 1 .. Window :
        /\ n <= wire
        /\ wire' = wire - n
        /\ r_total' = r_total + n
        /\ IF r_total + n <= Capacity THEN Parse(r_total + n) ELSE Overrun
  BY DEF Receive
<1>2. pc = "recv" /\ TypeOK /\ Conserved /\ Known
  BY DEF Receive, IInv
<1>3. /\ request.head \in Nat /\ request.body \in Nat /\ HeaderLength \in Nat
      /\ request.length \in Int /\ content_length \in Int /\ MaxHeader \in Nat
      /\ wire \in Nat /\ stale \in Nat /\ r_total \in Nat /\ n \in Nat /\ n >= 1
  <2>1. MaxHeader \in Nat /\ SizeModulus \in Nat
    BY MaxHeaderAssumption
  <2>2. content_length \in Int /\ r_total \in Nat
    BY <1>2, Lengths DEF TypeOK
  <2>3. Window \in Int
    BY <2>1, <2>2 DEF Window, Size
  <2> QED
    BY <1>1, <1>2, <2>1, <2>3, Lengths DEF TypeOK
<1>4. UNCHANGED <<request, stale, staleHas, client>>
  BY <1>1 DEF Parse, CloseConnection, Overrun, clientVars
<1>8. CASE ~(r_total + n <= Capacity)
  <2>1. pc' = "overrun"
    BY <1>1, <1>8 DEF Overrun
  <2> QED
    BY <2>1 DEF Waiting, ClosedForAReason
<1>5. CASE r_total + n <= Capacity /\ ~HeaderComplete(r_total + n)
  <2>1. pc' = "recv" /\ UNCHANGED extended
    BY <1>1, <1>2, <1>5 DEF Parse
  <2>2. ~extended
    BY <1>2, <1>3, <1>5 DEF Waiting, HeaderComplete
  <2>3. ASSUME stale = 0 PROVE request # NoRequest /\ r_total + n < request.head
    <3>1. request # NoRequest
      BY <2>3, <1>1, <1>2, <1>3 DEF Conserved, NoRequest
    <3> QED
      BY <3>1, <2>3, <1>3, <1>5 DEF HeaderComplete, HeaderLength
  <2> QED
    BY <2>1, <2>2, <2>3, <1>1, <1>4 DEF Waiting, ClosedForAReason
<1>6. CASE r_total + n <= Capacity /\ HeaderComplete(r_total + n) /\ UnknownProtocol
  <2>1. pc' = "closed" /\ stale > 0
    BY <1>1, <1>6 DEF Parse, CloseConnection, UnknownProtocol
  <2> QED
    BY <2>1, <1>4 DEF Waiting, ClosedForAReason
<1>7. CASE r_total + n <= Capacity /\ HeaderComplete(r_total + n) /\ ~UnknownProtocol
  <2>1. CASE MessageComplete(r_total + n)
    <3>1. pc' = "callback"
      BY <2>1, <1>1, <1>7 DEF Parse
    <3> QED
      BY <3>1 DEF Waiting, ClosedForAReason
  <2>2. CASE ~MessageComplete(r_total + n)
    <3>1. /\ IF request.length > 0 THEN extended' = TRUE ELSE UNCHANGED extended
          /\ pc' = "recv"
      BY <2>2, <1>1, <1>2, <1>7 DEF Parse
    <3>2. request.length # 0
      BY <2>2 DEF MessageComplete
    <3>3. HeaderComplete(r_total)' /\ ~MessageComplete(r_total)'
      BY <2>2, <1>1, <1>4, <1>7 DEF HeaderComplete, MessageComplete, HeaderLength
    <3>4. ~extended' => request'.length < 0
      BY <3>1, <3>2, <1>3, <1>4
    <3>5. Waiting'
      BY <3>3, <3>4, <1>3, <1>4 DEF Waiting
    <3> QED
      BY <3>1, <3>5 DEF ClosedForAReason
  <2> QED
    BY <2>1, <2>2
<1> QED
  BY <1>5, <1>6, <1>7, <1>8

\* A full buffer while the client waits: the head is longer than it, or comes
\* after stale bytes, or announces a length below 0.
LEMMA FullBuffer ==
    ASSUME IInv, Waiting, pc = "recv", Window = 0
    PROVE  stale > 0 \/ request.head > MaxHeader \/ request.length < 0
<1>1. /\ request.head \in Nat /\ request.body \in Nat
      /\ wire \in Nat /\ stale \in Nat /\ r_total \in Nat
      /\ request.length \in Int /\ SizeModulus \in Nat
      /\ MaxHeader \in Nat \ {0} /\ content_length \in Int /\ extended \in BOOLEAN
      /\ request.length = request.body \/ request.length < 0
  BY Lengths, MaxHeaderAssumption DEF IInv, TypeOK
<1> SUFFICES ASSUME request.length >= 0 PROVE stale > 0 \/ request.head > MaxHeader
  BY <1>1
<1>2. r_total = MaxHeader + content_length
  <2>1. content_length >= 0
    BY DEF IInv, TypeOK
  <2>2. r_total <= MaxHeader + content_length
    <3>1. r_total <= Capacity
      BY DEF IInv, BufferBound
    <3> QED
      BY <3>1, <2>1, <1>1 DEF IInv, Capacity, Known
  <2>3. MaxHeader + content_length - r_total >= 0
    BY <2>2, <1>1
  <2>4. Window = MaxHeader + content_length - r_total
    BY <2>3, <1>1 DEF Window, Size
  <2> QED
    BY <2>4, <1>1
<1>3. CASE extended
  <2>1. content_length = request.length /\ request.length > 0
    BY <1>3 DEF IInv, Known
  <2>2. r_total - (stale + request.head) + 5 < request.length
    BY <1>1, <1>3, <2>1 DEF Waiting, MessageComplete, HeaderLength, Slack
  <2> QED
    BY <1>1, <1>2, <2>1, <2>2
<1>4. CASE ~extended /\ stale = 0
  <2>1. content_length = 0
    <3>1. ~(content_length > 0)
      BY <1>4 DEF IInv, Known
    <3> QED
      BY <3>1, <1>1 DEF IInv, TypeOK
  <2> QED
    BY <1>1, <1>2, <1>4, <2>1 DEF Waiting
<1> QED
  BY <1>1, <1>3, <1>4

\* Every step keeps both.
LEMMA NextRInv == ASSUME RInv, [Next]_vars PROVE RInv'
<1> USE DEF RInv
<1>1. SUFFICES Waiting' /\ ClosedForAReason'
  BY NextIInv
<1>2. ASSUME NEW r \in Requests, Send(r) PROVE Waiting' /\ ClosedForAReason'
  <2>1. request = NoRequest /\ request' = r /\ client = "here"
        /\ UNCHANGED <<client, stale, staleHas, pc, r_total, content_length, extended>>
    BY <1>2 DEF Send, buffer
  <2>2. ~extended
    BY <2>1 DEF IInv, TypeOK, Known, NoRequest
  <2>3. request.head = 0 /\ MaxHeader \in Nat
    BY <2>1, MaxHeaderAssumption DEF NoRequest
  <2>6. request.length = 0
    BY <2>1 DEF NoRequest
  <2>4. pc = "recv" /\ stale = 0 => r_total = 0
    BY <2>1, <2>2, <2>6 DEF Waiting
  <2>5. pc = "closed" => stale > 0
    BY <2>1, <2>3, <2>6 DEF ClosedForAReason
  <2> QED
    BY <2>1, <2>2, <2>4, <2>5 DEF Waiting, ClosedForAReason
<1>3. CASE HangUp
  BY <1>3
     DEF HangUp, stream, buffer, Waiting, ClosedForAReason, HeaderComplete, MessageComplete, HeaderLength
<1>4. CASE Receive
  BY <1>4, ReceiveRInv
<1>5. CASE ReceiveNothing
  <2>1. /\ pc = "recv" /\ pc' = "closed" /\ UNCHANGED <<client, request, stale>>
        /\ Window = 0 \/ client = "gone"
    BY <1>5 DEF ReceiveNothing, CloseConnection, clientVars
  <2>2. client = "here" => stale > 0 \/ request.head > MaxHeader \/ request.length < 0
    BY <2>1, FullBuffer
  <2> QED
    BY <2>1, <2>2 DEF Waiting, ClosedForAReason
<1>6. CASE Callback
  BY <1>6 DEF Callback, Reset, Waiting, ClosedForAReason
<1>7. CASE UNCHANGED vars
  BY <1>7
     DEF vars, Waiting, ClosedForAReason, HeaderComplete, MessageComplete, HeaderLength
<1> QED
  BY <1>2, <1>3, <1>4, <1>5, <1>6, <1>7 DEF Next

\* While the client stays, handle_connection closes the connection only for a
\* head that does not fit, after a message it did not read to its end, or for a
\* Content-Length below 0, for all lengths.
THEOREM ClosedForAReasonCorrect == Spec => []ClosedForAReason
<1>1. Init => RInv
  BY InitIInv DEF Init, RInv, Waiting, ClosedForAReason
<1>2. RInv /\ [Next]_vars => RInv'
  BY NextRInv
<1>3. RInv => ClosedForAReason
  BY DEF RInv
<1> QED
  BY <1>1, <1>2, <1>3, PTL DEF Spec
=============================================================================
