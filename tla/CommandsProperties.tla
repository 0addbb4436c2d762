------------------------ MODULE CommandsProperties ------------------------
(***************************************************************************)
(* What the dispatch of commands has to keep between the lines and the     *)
(* game, and between the server's answers and those who read them.         *)
(***************************************************************************)
EXTENDS Commands

-----------------------------------------------------------------------------
\* Whatever lines are sent in whatever order, blank ones, words without their
\* numbers and numbers out of range included, what the commands ask one by one
\* and do is what GameSession allows in one step, and a refused one does nothing.
ImplementsSession == Spec

\* Every answer has the parameters that its reader takes by their position: more
\* for a bot than for a human.  The one that tells to wait is left out: it has no
\* parameter, and both readers take one.
AnswersFit ==
    [][answer'.to # NoPlayer /\ answer'.code # "WAIT_FOR_NEXT_TURN" =>
           Fits(answer'.code, answer'.params, answer'.to \in Bots)]_<<vars, dispatch>>

RequestCode(k) == IF k = "source" THEN "BUY_COMMAND_SUCCESS" ELSE "SELL_COMMAND_SUCCESS"

\* Who is told that a request was taken has that request in the list, unless one
\* of an earlier month is there: Insert keeps the earlier one and says nothing.
RequestsAreKept ==
    [][\A k \in Kinds : answer'.code = RequestCode(k) =>
           \/ Listed(requests[k], answer'.to)
           \/ \E i \in DOMAIN requests[k]' :
                  requests[k]'[i] = [player |-> answer'.to, amount |-> answer'.params[1],
                                     price |-> answer'.params[2]]]_<<vars, dispatch>>

-----------------------------------------------------------------------------
\* No step reads the answer of the step before: TLC need not tell apart states that
\* differ in it only.  The properties look at answers as steps give them.
WithoutTheAnswer == <<vars, handled, owner, word, kept>>
=============================================================================
