-------------------------------- MODULE Wire --------------------------------
(***************************************************************************)
(* What the server says to one client, byte by byte: SendMessage puts a    *)
(* line feed and a zero byte behind the text, send takes as much as the    *)
(* connection holds, and the client or the bot reads until there is a line *)
(* feed, takes what it has got for a string and splits it into lines.      *)
(*                                                                         *)
(* A byte of message m is [m, b]: b is its place in the text, LF or NUL.   *)
(* The connection is a queue: a read finds any part of what has been sent, *)
(* from its beginning.                                                     *)
(***************************************************************************)
EXTENDS Integers, Sequences, SequencesExt

CONSTANTS
    BufSize,      \* the size of the sender's and of the reader's buffer
    Lengths,      \* how long texts are
    Capacity,     \* how many bytes the connection holds
    MaxMessages   \* bound: how many messages are sent

ASSUME WireAssumption ==
    /\ BufSize \in Nat /\ BufSize > 2
    /\ Lengths \subseteq Nat \ {0}
    /\ Capacity \in Nat \ {0} /\ MaxMessages \in Nat

LF  == -1
NUL == 0

VARIABLES
    told,       \* the length of every message sent
    out,        \* what sendall has still to send: the server's thread is in it
    closed,     \* the server has closed the connection
    stream,     \* sent and not read
    buffer,     \* what readline has read
    at,         \* the reader: "select", "readline", "lines", "gone" or "undefined"
    shown,      \* the lines it has taken notice of
    cut,        \* history: what a read found behind a line feed did not end a message
    merged      \* history: a line was read together with bytes of another message

server == <<told, out, closed>>
reader == <<buffer, at, shown, cut, merged>>
vars   == <<server, stream, reader>>

Init ==
    /\ told = <<>> /\ out = <<>> /\ closed = FALSE /\ stream = <<>>
    /\ buffer = <<>> /\ at = "select" /\ shown = <<>>
    /\ cut = FALSE /\ merged = FALSE

-----------------------------------------------------------------------------
(***************************************************************************)
(* The server.                                                             *)
(***************************************************************************)

\* A text that is too long loses its end.
Text(len) == IF len < BufSize - 2 THEN len ELSE BufSize - 2

Ending(m) == <<[m |-> m, b |-> LF], [m |-> m, b |-> NUL]>>

Bytes(m, len) == [i \in 1..Text(len) |-> [m |-> m, b |-> i]] \o Ending(m)

SendMessage(len) ==
    /\ out = <<>> /\ ~closed /\ Len(told) < MaxMessages
    /\ told' = Append(told, len)
    /\ out' = Bytes(Len(told) + 1, len)
    /\ UNCHANGED <<closed, stream, reader>>

\* Mutant: what send has not taken is not sent again.
sendall_Once(n) ==
    /\ out # <<>> /\ n <= Len(out) /\ Len(stream) + n <= Capacity
    /\ stream' = stream \o SubSeq(out, 1, n)
    /\ out' = <<>>
    /\ UNCHANGED <<told, closed, reader>>

\* One call of send, which is repeated for what is left.
sendall(n) ==
    /\ out # <<>> /\ n <= Len(out) /\ Len(stream) + n <= Capacity
    /\ stream' = stream \o SubSeq(out, 1, n)
    /\ out' = SubSeq(out, n + 1, Len(out))
    /\ UNCHANGED <<told, closed, reader>>

\* Stop, or a client that is turned away.
CloseConnection ==
    /\ out = <<>> /\ ~closed
    /\ closed' = TRUE
    /\ UNCHANGED <<told, out, stream, reader>>

-----------------------------------------------------------------------------
(***************************************************************************)
(* The client and the bot.                                                 *)
(***************************************************************************)
HasLF(bytes) == \E k \in DOMAIN bytes : bytes[k].b = LF

\* Mutant: the reader is called for whole lines.
Readable_Line == HasLF(stream) \/ closed

Readable == stream # <<>> \/ closed

Select ==
    /\ at = "select" /\ Readable
    /\ at' = "readline" /\ buffer' = <<>>
    /\ UNCHANGED <<server, stream, shown, cut, merged>>

\* Without a line feed in a full buffer its last byte is made one.
Forced(bytes) ==
    IF HasLF(bytes) THEN bytes
    ELSE Front(bytes) \o <<[Last(bytes) EXCEPT !.b = LF]>>

\* Mutant: one read is taken for a line.
Goes_Once(bytes) == FALSE

\* readline goes on without a line feed as long as there is room.
Goes(bytes) == ~HasLF(bytes) /\ Len(bytes) < BufSize - 1

\* One read.  A zero is written behind what has been read, whether there is room
\* for it or not.
Read(n) ==
    /\ at = "readline" /\ n <= Len(stream) /\ Len(buffer) + n <= BufSize
    /\ LET bytes == buffer \o SubSeq(stream, 1, n)
       IN  /\ buffer' = IF Goes(bytes) THEN bytes ELSE Forced(bytes)
           /\ at' = IF Goes(bytes) THEN "readline"
                    ELSE IF Len(bytes) = BufSize THEN "undefined" ELSE "lines"
           /\ cut' = (cut \/ (HasLF(bytes) /\ Last(bytes).b # NUL))
           /\ merged' = (merged \/ Last(bytes).m # bytes[1].m)
    /\ stream' = SubSeq(stream, n + 1, Len(stream))
    /\ UNCHANGED <<server, shown>>

\* Nothing more comes: what has been read of a line is dropped.
EndOfFile ==
    /\ at = "readline" /\ stream = <<>> /\ closed
    /\ at' = "gone"
    /\ UNCHANGED <<server, stream, buffer, shown, cut, merged>>

Index(b) == SelectInSeq(buffer, LAMBDA byte : byte.b = b)

\* Of what has been read only the string up to the first zero is looked at, and
\* of that the lines.  There is one at most: behind a line feed there is a zero.
Line == IF Index(NUL) \in 1..Index(LF) THEN <<>> ELSE SubSeq(buffer, 1, Index(LF) - 1)

Whole(line) == line[1].b = 1

\* check_server_response of every line.  It knows the whole ones, and of others the
\* client only says so (the bot's loop, the same otherwise, ends).  A line feed
\* with no line before it is counted and not found; a tail may be a bar alone,
\* which has no word to compare.
Lines ==
    /\ at = "lines"
    /\ shown' = IF Line = <<>> THEN shown ELSE Append(shown, Line)
    /\ at' \in IF Line = <<>> THEN {IF buffer[1].b = LF THEN "undefined" ELSE "select"}
               ELSE IF Whole(Line) \/ Len(Line) > 1 THEN {"select"}
               ELSE {"select", "undefined"}
    /\ UNCHANGED <<server, stream, buffer, cut, merged>>

-----------------------------------------------------------------------------
Sends == \/ \E len \in Lengths : SendMessage(len)
         \/ \E n \in 1..Capacity : sendall(n)
         \/ CloseConnection

Reads == \/ Select
         \/ \E n \in 1..BufSize : Read(n)
         \/ EndOfFile
         \/ Lines

Next == Sends \/ Reads

\* The reader's loop goes on by itself, and so does sendall's.
Spec == Init /\ [][Next]_vars /\ WF_vars(Reads) /\ WF_vars(\E n \in 1..Capacity : sendall(n))
=============================================================================
