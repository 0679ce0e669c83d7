--------------------------- MODULE HttpConnection ---------------------------
(***************************************************************************)
(* One connection of the server: handle_connection() reads the stream of   *)
(* bytes in whatever pieces recv() gives it, http_parse_message() decides  *)
(* after each piece whether the message is whole, and the callback answers *)
(* it.  The client sends a request when it has the answer to the last one. *)
(*                                                                         *)
(* Bytes are counted, not represented.  The buffer starts with the stale   *)
(* bytes of the message before (those the server did not wait for), if     *)
(* any; then come the head of the request, up to and with its blank line,  *)
(* and its body.  The length the head announces is what atoi() makes of    *)
(* its Content-Length: that of the body (0 without that header), or less   *)
(* than 0.  What the stale bytes hold decides how they are parsed: a NUL   *)
(* byte ends the string that strstr() searches, a space shifts the tokens  *)
(* of the start line, anything else becomes part of the method.  (A blank  *)
(* line within five stale bytes is left out.)  A client that goes away may *)
(* do so at any point; memory allocation succeeds.                         *)
(***************************************************************************)
EXTENDS Integers

CONSTANTS
    Requests,    \* the requests of a client: lengths of head and body, and
                 \* the length of the body as the head gives it
    MaxHeader,   \* MAX_HEADER_SIZE
    SizeModulus  \* 2^64: the lengths that recv() takes are size_t

ASSUME RequestsAssumption ==
    /\ Requests \subseteq [head : Nat \ {0}, length : Int, body : Nat]
    /\ \A r \in Requests : r.length = r.body \/ r.length < 0
ASSUME MaxHeaderAssumption == MaxHeader \in Nat \ {0} /\ SizeModulus \in Nat

VARIABLES
    client,          \* "here" or "gone"
    request,         \* the request it has no answer to, or NoRequest
    wire,            \* bytes sent and not received
    stale,           \* bytes of an earlier message before this request's
    staleHas,        \* what they hold: "nul", "space" or "text"
    pc,              \* "recv", "callback", "closed", or "overrun" once recv()
                     \* wrote past the end of rcvbuf
    r_total,         \* bytes in rcvbuf
    content_length,
    extended

clientVars == <<client, request>>
stream == <<wire, stale, staleHas>>
buffer == <<r_total, content_length, extended>>
vars == <<client, request, wire, stale, staleHas, pc, r_total, content_length, extended>>
-----------------------------------------------------------------------------
NoRequest == [head |-> 0, length |-> 0, body |-> 0]

\* sizeof(HTTP_HDR_END_DELIM): four characters and the terminating zero.
Slack == 5

Capacity == MaxHeader + IF extended THEN content_length ELSE 0

\* What recv() is asked for: a difference that is negative wraps around.
\* (Mutant: the length of the body is forgotten.)
Size(n) == IF n < 0 THEN n + SizeModulus ELSE n
WindowOfHeader == Size(MaxHeader - r_total)
Window == Size(MaxHeader + content_length - r_total)

\* strstr(stream, HTTP_HDR_END_DELIM) finds the end of the head in n bytes.
HeaderLength == stale + request.head
HeaderComplete(n) ==
    /\ request # NoRequest
    /\ n >= HeaderLength
    /\ stale > 0 => staleHas # "nul"

\* The third token of the start line is not HTTP/1.1.
UnknownProtocol == stale > 0 /\ staleHas = "space"

\* A length below 0, taken for a size_t, is more than is ever received.
\* (Mutants: the head counts as body; the message must be longer than it is.)
MessageCompleteWithHead(n) == request.length >= 0 /\ n + Slack >= request.length
MessageCompleteStrictly(n) == request.length >= 0 /\ n - HeaderLength > request.length
MessageComplete(n) ==
    \/ request.length = 0
    \/ request.length > 0 /\ n - HeaderLength + Slack >= request.length
-----------------------------------------------------------------------------
Init ==
    /\ client = "here" /\ request = NoRequest
    /\ wire = 0 /\ stale = 0 /\ staleHas = "text"
    /\ pc = "recv"
    /\ r_total = 0 /\ content_length = 0 /\ extended = FALSE

Send(r) ==
    /\ client = "here" /\ request = NoRequest
    /\ request' = r
    /\ wire' = wire + r.head + r.body
    /\ UNCHANGED <<client, stale, staleHas, pc, buffer>>

HangUp ==
    /\ client = "here"
    /\ client' = "gone"
    /\ UNCHANGED <<request, stream, pc, buffer>>

\* close(active_socket); the thread ends.
CloseConnection == pc' = "closed" /\ UNCHANGED <<clientVars, stale, staleHas>>

\* n bytes are parsed; the buffer is extended at most once, when the length of
\* the body is known, more than 0, and the body is not whole.
Parse(n) ==
    \/ /\ ~HeaderComplete(n)
       /\ UNCHANGED <<clientVars, stale, staleHas, pc, content_length, extended>>
    \/ /\ HeaderComplete(n) /\ UnknownProtocol
       /\ CloseConnection
       /\ UNCHANGED <<content_length, extended>>
    \/ /\ HeaderComplete(n) /\ ~UnknownProtocol
       /\ content_length' = request.length
       /\ IF MessageComplete(n)
          THEN pc' = "callback" /\ UNCHANGED extended
          ELSE /\ IF request.length > 0 THEN extended' = TRUE ELSE UNCHANGED extended
               /\ UNCHANGED pc
       /\ UNCHANGED <<clientVars, stale, staleHas>>

\* rcvbuf is too short for what recv() returned: nothing more can be said.
Overrun ==
    /\ pc' = "overrun"
    /\ UNCHANGED <<clientVars, stale, staleHas, content_length, extended>>

\* recv() returns n bytes.
Receive ==
    /\ pc = "recv"
    /\ \E n \in 1 .. Window :
        /\ n <= wire
        /\ wire' = wire - n
        /\ r_total' = r_total + n
        /\ IF r_total + n <= Capacity THEN Parse(r_total + n) ELSE Overrun

\* recv() returns 0, because it is asked for 0 bytes or at the end of the
\* stream, or an error, when the client is gone.
ReceiveNothing ==
    /\ pc = "recv"
    /\ Window = 0 \/ client = "gone"
    /\ CloseConnection
    /\ UNCHANGED <<wire, buffer>>

\* (Mutant: content_length keeps its value.)
ResetPartly == r_total' = 0 /\ extended' = FALSE /\ UNCHANGED content_length
Reset == r_total' = 0 /\ content_length' = 0 /\ extended' = FALSE

\* cb(&message, active_socket), which answers; then all is reset.  What the
\* client sent and the server did not wait for is still to come.
Callback ==
    /\ pc = "callback"
    /\ pc' = "recv"
    /\ request' = NoRequest
    /\ Reset
    /\ stale' = wire
    /\ staleHas' \in IF wire = 0 THEN {"text"} ELSE {"nul", "space", "text"}
    /\ UNCHANGED <<client, wire>>

Next ==
    \/ \E r \in Requests : Send(r)
    \/ HangUp
    \/ Receive
    \/ ReceiveNothing
    \/ Callback

\* The thread goes on when recv() has something for it, and the callback
\* returns; a client need not send anything, nor go away.
Fairness ==
    /\ WF_vars(Receive)
    /\ WF_vars(ReceiveNothing)
    /\ WF_vars(Callback)

Spec == Init /\ [][Next]_vars /\ Fairness
-----------------------------------------------------------------------------
(***************************************************************************)
(* Properties                                                              *)
(***************************************************************************)
\* The variables have their types; content_length is that of the request in
\* hand, never of an earlier one.
TypeOK ==
    /\ client \in {"here", "gone"}
    /\ request \in Requests \cup {NoRequest}
    /\ wire \in Nat /\ stale \in Nat
    /\ staleHas \in {"nul", "space", "text"}
    /\ pc \in {"recv", "callback", "closed", "overrun"}
    /\ r_total \in Nat
    /\ content_length \in {0, request.length}
    /\ extended \in BOOLEAN

\* rcvbuf is allocated once and extended once for each message: whatever the
\* pieces, over all the messages of a connection, recv() is asked for no more
\* than it has room for, and writes past its end only for a Content-Length
\* below 0.
BufferBound ==
    /\ pc = "recv" /\ request.length >= 0 => r_total + Window <= Capacity
    /\ IF pc = "overrun" THEN request.length < 0 ELSE r_total <= Capacity

\* At most Slack bytes of a message are taken for the beginning of the next.
StaleBound == stale <= Slack

\* While the client stays, the server closes the connection only for a head
\* that does not fit, after a message it did not read to its end, or for a
\* Content-Length below 0.
ClosedForAReason ==
    pc = "closed" /\ client = "here" =>
        stale > 0 \/ request.head > MaxHeader \/ request.length < 0

\* A request is answered, or its connection is closed; only a NUL byte in the
\* stale bytes before it, or a Content-Length below 0, can leave it without an
\* answer.
Answered ==
    (request # NoRequest /\ request.length >= 0 /\ staleHas # "nul")
        ~> (request = NoRequest \/ pc = "closed")
=============================================================================
