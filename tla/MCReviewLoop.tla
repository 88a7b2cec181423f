---------------------------- MODULE MCReviewLoop ----------------------------
(***************************************************************************)
(* Instances of ReviewLoop for TLC.                                        *)
(***************************************************************************)
EXTENDS ReviewLoop

CONSTANTS line, file, old, again

(* A finding in the diff, one in a file that did not change, one that was  *)
(* dismissed in the run before, and the same one in other words.           *)
AllFindings == {line, file, old, again}
Prints  == [f \in AllFindings |-> CASE f = line -> "a" [] f = file -> "b" [] OTHER -> "c"]
Placeds == {line, file}
Inlines == {line}
Answers == {{line, file}, {line, again}}
History == << {}, {[id |-> old, dismissed |-> TRUE]}, {[id |-> line, dismissed |-> TRUE]} >>

GitHub == [provider |-> "github", agent |-> FALSE, inline |-> TRUE, token |-> TRUE,
           task |-> "inherit", repo |-> TRUE, prompts |-> {}]

Deployments ==
  {GitHub,
   [GitHub EXCEPT !.provider = "gitlab", !.task = "on", !.repo = FALSE, !.prompts = {"task", "repo"}],
   [GitHub EXCEPT !.provider = "jira", !.prompts = {"repo"}],
   [GitHub EXCEPT !.agent = TRUE, !.inline = FALSE, !.prompts = {"playbook"}],
   [GitHub EXCEPT !.token = FALSE, !.prompts = {"playbook"}],
   [GitHub EXCEPT !.task = "off"]}

=============================================================================
