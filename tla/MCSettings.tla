---------------------------- MODULE MCSettings ----------------------------
(* One repo, two requests at a time, and bodies that use both names of what *)
(* has two, groups in part, playbooks of either tenant, and models with and *)
(* without their adapter.                                                   *)
EXTENDS Settings, TLC

Body(patch) == Overlay(patch, Nothing)

Plain  == Body([commit |-> [config |-> "template"]])
Recipe == Body([preview |-> [adapter |-> "prompt_recipe", config |-> [check |-> "c", recipe |-> "r"]],
                review  |-> [enabled |-> "yes", prompt |-> "prompt"],
                llm     |-> [adapter |-> "claude_code"]])
Creations == {Plain, Recipe}

Models ==
    {Body([llm |-> [model |-> "sonnet"], review |-> [model |-> "sonnet"]]),
     Body([llm |-> [adapter |-> "claude_code", model |-> "sonnet"],
           review |-> [adapter |-> "claude_code", model |-> "sonnet"],
           basics |-> [enabled |-> "no"]]),
     Body([llm |-> [effort |-> "high"], review |-> [codexModel |-> "codex"]])}
Previews ==
    {Body([preview |-> [adapter |-> "prompt_recipe",
                        config |-> [check |-> Unset, recipe |-> "r"]]]),
     Body([preview |-> [checkName |-> "d", provider |-> "cloudflare"]])}
Reviews ==
    {Body([review |-> [playbook |-> p]]) : p \in Playbooks} \cup
    {Body([review |-> [enabled |-> "yes"], basics |-> [scm |-> "gitlab"]])}
Groupwise ==
    {Body([sentinel |-> [method |-> "rebase"],
           checkpoint |-> [notesPath |-> Unset, cleanup |-> "no"]]),
     Body([checkpoint |-> [notes |-> "no"], basics |-> [tenant |-> "theirs"]])}

Patches   == Models \cup Previews \cup Reviews \cup Groupwise
Sentinels == {[autoMerge |-> "no"], [maxAttempts |-> "5", globalMode |-> "yes"], [groupTag |-> "tag"]}
Edited    == {Body([sentinel |-> [autoMerge |-> "no"]]), Body([review |-> [prompt |-> "prompt"]])}

Alike == Permutations(Requests) \cup Permutations(Playbooks)
=============================================================================
