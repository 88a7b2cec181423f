--------------------------- MODULE MCSlackIntake ---------------------------
(***************************************************************************)
(* Instances of SlackIntake for TLC.                                       *)
(***************************************************************************)
EXTENDS SlackIntake, TLC

CONSTANTS h1, h2
Alike == Permutations(Handlers)

Says(how, what) == [how |-> how, what |-> what, review |-> NoReview]
Asks(how, n)    == [how |-> how, what |-> "review", review |-> n]
Pick(n)         == [how |-> "button", what |-> "pickReview", review |-> n]

Texts == {Says("mention", "yes"), Says("mention", "no"), Says("plain", "choice"),
          Says("slash", "fix"),
          Says("button", "pickRepo"), Asks("mention", 7), Asks("slash", 7), Pick(7)}

(* The board is empty, or a review of 7 was run before.                    *)
Reviewed == [task |-> 1, review |-> 7, shown |-> TRUE, question |-> 0, asked |-> 0,
             key |-> Once, cut |-> FALSE]
Boards == {<<>>, <<Reviewed>>}
=============================================================================
