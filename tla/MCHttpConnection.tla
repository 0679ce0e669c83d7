-------------------------- MODULE MCHttpConnection --------------------------
(* Lengths for HttpConnection: heads of up to one byte more than the buffer *)
(* holds, bodies below, at and above the slack and the buffer, and lengths  *)
(* below 0 that make the window 0 and that make it wrap around.             *)
EXTENDS HttpConnection

MCMaxHeader == 6
MCSizeModulus == 64
Sized(head, body) == [head |-> head, length |-> body, body |-> body]
MCRequests ==
    {Sized(3, 0), Sized(2, 3), Sized(4, 8), Sized(6, 13), Sized(7, 0),
     [head |-> 2, length |-> -2, body |-> 3], [head |-> 3, length |-> -4, body |-> 5]}
=============================================================================
