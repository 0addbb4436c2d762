------------------------------ MODULE MCInput ------------------------------
(***************************************************************************)
(* A space and one cyrillic letter: an editor of short lines that has to   *)
(* tell words, and letters of one and of two bytes, apart.  With it TLC    *)
(* evaluates what is said of the functions of Utility.                     *)
(***************************************************************************)
EXTENDS InputProperties, UtilityProperties

MCLatin    == {" "}
MCLead     == {"D0"}
MCTrail    == {"B6"}
MCCyrillic == {<<"D0", "B6">>}

\* Two letters that came in one read, which makes four bytes.
TwoLetters == <<"D0", "B6", "D0", "B6">>

MCReads == {<<b>> : b \in {" ", "LF", "BS", CTRL_W}} \cup {<<"D0", "B6">>, <<"D0", "D0">>, TwoLetters}
           \cup {ARROW_UP, ARROW_DOWN, ARROW_LEFT, ARROW_RIGHT, DEL}
=============================================================================
