--------------------------- MODULE WireProperties ---------------------------
(***************************************************************************)
(* What becomes of the server's messages.                                  *)
(***************************************************************************)
EXTENDS Wire

Broken == at = "undefined"

IsTail(line) ==
    LET m == line[1].m
    IN  IsSuffix(line, [i \in 1..Text(told[m]) |-> [m |-> m, b |-> i]])

\* However the stream is taken apart, a line the reader takes notice of is a message
\* or the tail of one, never parts of two; none is told twice and none overtaken
\* (SendMessage's line feed and zero, readline, the splitting in client.c and
\* bot_mg.cpp).
NothingInvented ==
    /\ \A k \in DOMAIN shown : IsTail(shown[k])
    /\ \A j, k \in DOMAIN shown : j < k => shown[j][1].m < shown[k][1].m

\* What comes in pieces is put together: when all has been read, each message has
\* been shown, and whole, unless one was read together with another one or parted
\* behind its line feed (readline's going on until there is one).
LostOnlyByMerging ==
    at \in {"select", "gone"} /\ stream = <<>> /\ out = <<>> /\ ~cut /\ ~merged =>
        /\ Len(shown) = Len(told)
        /\ \A k \in DOMAIN shown : Len(shown[k]) = Text(told[k])

\* The server is not kept in sendall: the reader takes what fills the connection,
\* even the zero that is left over before a message, for which readline blocks.
ServerGoesOn == out # <<>> ~> out = <<>> \/ Broken
=============================================================================
