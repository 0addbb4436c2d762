----------------------------- MODULE LineEditor -----------------------------
(***************************************************************************)
(* What the line editor of the client is to who types: a line of letters,  *)
(* a cursor between two of them, and the lines entered before.  Input,     *)
(* which keeps bytes, offsets and counters, implements it.                 *)
(*                                                                         *)
(* The draft is the line as it was when the arrow up was first pressed; it *)
(* is kept until the line is edited.  What follows the last line entered   *)
(* in the list is the draft, even when there never was one.                *)
(***************************************************************************)
EXTENDS Integers, Sequences

CONSTANTS
    Letters, Space,    \* Space is a letter too
    MaxLetters,        \* of a line
    MaxLines,          \* kept
    Nothing            \* no draft yet

VARIABLES
    text, behind,      \* the line, and how many letters stand behind the cursor
    lines, place,      \* the lines entered, and which of them is shown
    draft, kept,       \* the draft, and whether it is the line of the last edit
    handed,            \* the line that was handed over last
    works              \* FALSE after a draft that never was is asked for

editor == <<text, behind, lines, place, draft, kept, handed, works>>

Cursor == Len(text) - behind
Front  == SubSeq(text, 1, Cursor)
Back   == SubSeq(text, Cursor + 1, Len(text))

Init ==
    /\ text = <<>> /\ behind = 0 /\ lines = <<>> /\ place = 1
    /\ draft = Nothing /\ kept = FALSE /\ handed = <<>> /\ works = TRUE

Type(l) ==
    /\ Len(text) < MaxLetters
    /\ UNCHANGED behind
    /\ text' = Front \o <<l>> \o Back

\* n letters before the cursor go.
Erase(n) ==
    /\ UNCHANGED behind
    /\ text' = SubSeq(text, 1, Cursor - n) \o Back

Backspace == Cursor > 0 /\ Erase(1)

\* The spaces before the cursor, or else the word before it.
EraseWord ==
    \E n \in 1..Cursor :
        LET blank(i) == text[i] = Space
        IN  /\ \A i \in (Cursor - n + 1)..Cursor : blank(i) = blank(Cursor)
            /\ n < Cursor => blank(Cursor - n) # blank(Cursor)
            /\ Erase(n)

Delete ==
    /\ behind > 0
    /\ behind' = behind - 1
    /\ text' = Front \o Tail(Back)

\* The line is edited: the draft is not that of this line any more.
Edit ==
    /\ works /\ kept' = FALSE
    /\ \/ \E l \in Letters : Type(l)
       \/ Backspace \/ EraseWord \/ Delete
    /\ UNCHANGED <<lines, place, draft, handed, works>>

Move(by) ==
    /\ works
    /\ UNCHANGED <<kept, place, text>>
    /\ behind' = behind + by /\ behind' \in 0..Len(text)
    /\ UNCHANGED <<lines, draft, handed, works>>

\* A line is shown with the cursor at its end.
Show(line) == text' = line /\ behind' = 0

Up ==
    /\ works /\ lines # <<>>
    /\ draft' = IF kept THEN draft ELSE text
    /\ kept' = TRUE
    /\ IF place > 1 THEN place' = place - 1 /\ Show(lines[place - 1])
                    ELSE UNCHANGED <<place, text, behind>>
    /\ UNCHANGED <<lines, handed, works>>

Down ==
    /\ works /\ lines # <<>>
    /\ place' = IF place > Len(lines) THEN place ELSE place + 1
    /\ IF place' <= Len(lines) THEN Show(lines[place']) /\ UNCHANGED works
       ELSE IF draft # Nothing THEN Show(draft) /\ UNCHANGED works
       ELSE works' = FALSE /\ UNCHANGED <<text, behind>>
    /\ UNCHANGED <<lines, draft, kept, handed>>

Enter ==
    /\ works /\ text # <<>>
    /\ handed' = text
    /\ lines' = Append(IF Len(lines) >= MaxLines THEN Tail(lines) ELSE lines, text)
    /\ place' = Len(lines') + 1
    /\ Show(<<>>)
    /\ kept' = FALSE
    /\ UNCHANGED <<draft, works>>

Next == Edit \/ Move(1) \/ Move(-1) \/ Up \/ Down \/ Enter

Spec == Init /\ [][Next]_editor
=============================================================================
