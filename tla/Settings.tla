------------------------------ MODULE Settings ------------------------------
(***************************************************************************)
(* The settings of a repo, from the form of the browser and the bodies of  *)
(* PATCH requests through validation.ts and router.ts to the record in the *)
(* BoardIndexDO, with the review playbooks the record may name and the     *)
(* second copy of the sentinel's settings in D1.                           *)
(*                                                                         *)
(* Settings are functions from fields to values, one for each section, and *)
(* a patch is a function on the fields that it names.  In a patch the      *)
(* value Unset clears a field: it stands for undefined and for the empty   *)
(* string.  The groups of sentinelConfig and checkpointConfig are a field  *)
(* of their own in the code, merged like the rest: here their members are  *)
(* fields of the section.  Left out: paths, hosts and what else identifies *)
(* a repo (BoardIndex), codexReasoningEffort (checked like codexModel),    *)
(* credentials and bundles (stored as they come).                          *)
(***************************************************************************)
EXTENDS Naturals, FiniteSets, Functions

CONSTANTS
  Requests,       \* requests handled at a time
  Playbooks,      \* review playbooks that are ever made
  CreateBodies,   \* bodies of POST /repos
  Bodies,         \* bodies of PATCH /repos/:repoId
  SentinelBodies, \* bodies of PATCH /repos/:repoId/sentinel/config
  Typings,        \* what an operator types into the form
  MaxInputs       \* bound: requests, edits and failures together

VARIABLES
  repo,       \* the repo's record in the BoardIndexDO
  copy,       \* its row in repo_sentinel_configs
  playbooks,  \* the playbooks of the BoardIndexDO
  request,    \* what each handler is doing
  form,       \* the settings form of one browser
  inputs

settingsVars == <<repo, copy, playbooks, request, form, inputs>>

-----------------------------------------------------------------------------
Unset == "unset"
Empty == <<>>
Given(b, f) == IF f \in DOMAIN b THEN b[f] ELSE Unset
Named(b) == {f \in DOMAIN b : b[f] # Unset}
FirstOf(x, y) == IF x # Unset THEN x ELSE y
(* The fields of f, and those of g that f does not have. *)
Overlay(f, g) == [x \in DOMAIN f \cup DOMAIN g |-> IF x \in DOMAIN f THEN f[x] ELSE g[x]]

Sections == {"basics", "llm", "preview", "review", "commit", "sentinel", "checkpoint"}
Nothing  == [s \in Sections |-> Empty]

SentinelFields == {"enabled", "globalMode", "groupTag", "checksGreen", "reviewPass",
                   "autoMerge", "method", "deleteBranch", "rebase", "remediation",
                   "maxAttempts"}
CheckpointFields == {"enabled", "triggerMode", "notes", "notesPath", "cleanup",
                     "squash", "rewrite"}
Fields == [basics     |-> {"tenant", "scm", "enabled", "defaultBranch"},
           llm        |-> {"adapter", "model", "effort"},
           preview    |-> {"adapter", "provider", "config", "checkName"},
           review     |-> {"enabled", "provider", "inline", "posting", "prompt",
                           "playbook", "adapter", "model", "effort", "codexModel"},
           commit     |-> {"config"},
           sentinel   |-> SentinelFields,
           checkpoint |-> CheckpointFields]

NoConfig == [check |-> Unset, recipe |-> Unset]
Config(b) == IF "config" \in DOMAIN b THEN b.config ELSE NoConfig
Blank == [s \in Sections |->
            [f \in Fields[s] |-> IF <<s, f>> = <<"preview", "config">> THEN NoConfig ELSE Unset]]

(* What the parsers let through of a body: the fields they know, with what   *)
(* identifies a playbook, and one provider of previews.                      *)
BodyFields == [Fields EXCEPT !.llm = @ \cup {"codexModel"}]
Partial(m, fields) == m = [f \in DOMAIN m |-> m[f]] /\ DOMAIN m \subseteq fields
IsBody(b) ==
    /\ b = [s \in Sections |-> b[s]]
    /\ \A s \in Sections : Partial(b[s], BodyFields[s])
    /\ Given(b.preview, "provider") \in {Unset, "cloudflare"}
    /\ Config(b.preview) = [check |-> Config(b.preview).check, recipe |-> Config(b.preview).recipe]
    /\ Given(b.review, "playbook") \in Playbooks \cup {Unset}

(* What the form lets one type. *)
FormFields ==
    [basics     |-> {"scm", "defaultBranch"},
     llm        |-> {"adapter", "model", "effort"},
     preview    |-> {"adapter", "check", "recipe"},
     review     |-> {"adapter", "model", "effort", "enabled", "provider", "inline", "prompt",
                     "playbook"},
     commit     |-> {"config"},
     sentinel   |-> SentinelFields,
     checkpoint |-> {}]
IsTyping(t) ==
    /\ t = [s \in Sections |-> t[s]]
    /\ \A s \in Sections : Partial(t[s], FormFields[s])
    /\ Given(t.review, "playbook") \in Playbooks \cup {Unset}

(* The tenant that the repo is created for is the one called ours.           *)
ASSUME SettingsAssumption ==
    /\ MaxInputs \in Nat
    /\ \A b \in CreateBodies \cup Bodies : IsBody(b)
    /\ \A b \in CreateBodies : Given(b.basics, "tenant") \in {Unset, "ours"}
    /\ \A b \in SentinelBodies : Partial(b, SentinelFields)
    /\ \A t \in Typings : IsTyping(t)

DefaultSentinel ==
    [f \in SentinelFields |->
       CASE f \in {"enabled", "globalMode"} -> "no"
         [] f = "method" -> "squash"
         [] f = "maxAttempts" -> "2"
         [] f = "groupTag" -> Unset
         [] OTHER -> "yes"]
DefaultCheckpoint ==
    [f \in CheckpointFields |->
       CASE f = "rewrite" -> "no"
         [] f = "triggerMode" -> "phase_boundary"
         [] f = "notesPath" -> "default"
         [] OTHER -> "yes"]

Filled(given, default) == [f \in DOMAIN default |-> FirstOf(Given(given, f), default[f])]

CodexModels == {"mini", "codex"}
DefaultModel(adapter) ==
    CASE adapter = "codex" -> "mini"
      [] adapter = "claude_code" -> "sonnet"
      [] adapter = "cursor_cli" -> "cursor"
DefaultProvider(scm) == IF scm = "github" THEN "github" ELSE "gitlab"

-----------------------------------------------------------------------------
(* validation.ts: what is refused, and what a body becomes.                  *)

EffectiveAdapter(b) ==
    FirstOf(Given(b, "adapter"), IF Given(b, "codexModel") # Unset THEN "codex" ELSE Unset)
EffectiveModel(b) == FirstOf(Given(b, "model"), Given(b, "codexModel"))

(* A model is checked against the adapter that the same body names; a body   *)
(* that names none is taken for codex, whatever adapter is stored.           *)
LlmIsValid(b) ==
    LET adapter == EffectiveAdapter(b)
        model   == EffectiveModel(b)
        codex   == adapter \in {Unset, "codex"}
    IN /\ codex \/ Given(b, "codexModel") = Unset
       /\ Given(b, "codexModel") \in {Unset, model}
       /\ codex => model \in CodexModels \cup {Unset}
       /\ Given(b, "effort") = "xhigh" => adapter = "codex"

ReadLlm(b) ==
    LET read == [adapter |-> EffectiveAdapter(b), model |-> EffectiveModel(b),
                 effort |-> Given(b, "effort")]
    IN Restrict(read,
         (IF DOMAIN b = {} THEN {} ELSE {"adapter"})
           \cup (IF {"model", "codexModel"} \cap DOMAIN b = {} THEN {} ELSE {"model"})
           \cup ({"effort"} \cap DOMAIN b))

(* Only the playbook can be cleared: an empty prompt is not passed on.       *)
ReadReview(b) ==
    LET adapter == EffectiveAdapter(b)
        llm  == [adapter    |-> adapter,
                 model      |-> EffectiveModel(b),
                 codexModel |-> IF adapter \in {Unset, "codex"} THEN EffectiveModel(b)
                                ELSE Unset]
        read == Overlay(llm, b)
    IN Restrict(read, Named(read) \cup ({"playbook"} \cap DOMAIN b))

PreviewAdapter(b) ==
    FirstOf(Given(b, "adapter"),
            IF Given(b, "provider") = "cloudflare" THEN "cloudflare_checks" ELSE Unset)

PreviewIsValid(b) ==
    /\ Config(b).check = Unset \/ Given(b, "checkName") \in {Unset, Config(b).check}
    /\ Given(b, "provider") = "cloudflare" => PreviewAdapter(b) = "cloudflare_checks"
    /\ PreviewAdapter(b) = "prompt_recipe" => Config(b).recipe # Unset

(* Adapter and provider are set together, as are the config and the check's  *)
(* older name.                                                               *)
PreviewPairs == {{"adapter", "provider"}, {"config", "checkName"}}
ReadPreview(b) ==
    LET adapter == PreviewAdapter(b)
        check   == FirstOf(Config(b).check, Given(b, "checkName"))
        read == [adapter   |-> adapter,
                 provider  |-> FirstOf(Given(b, "provider"),
                                       IF adapter = "cloudflare_checks" THEN "cloudflare" ELSE Unset),
                 config    |-> [check |-> check, recipe |-> Config(b).recipe],
                 checkName |-> check]
    IN Restrict(read, UNION {pair \in PreviewPairs : pair \cap DOMAIN b # {}})

CommitIsValid(b) == Given(b, "config") # "bad regex"
SentinelIsValid(b) == Given(b, "maxAttempts") # "0"

IsValid(body) ==
    /\ LlmIsValid(body.llm) /\ LlmIsValid(body.review)
    /\ PreviewIsValid(body.preview)
    /\ CommitIsValid(body.commit) /\ SentinelIsValid(body.sentinel)

ReadBody(body) ==
    [body EXCEPT !.llm = ReadLlm(@), !.preview = ReadPreview(@), !.review = ReadReview(@)]

(* A review that is switched on together with the SCM gets that SCM's.       *)
ReadPatch(body) ==
    LET patch == ReadBody(body)
        scm   == Given(body.basics, "scm")
    IN IF /\ Given(patch.review, "enabled") = "yes"
          /\ Given(patch.review, "provider") = Unset /\ scm # Unset
       THEN [patch EXCEPT !.review = Overlay([provider |-> DefaultProvider(scm)], @)]
       ELSE patch

(* A playbook named in a creation is dropped.                                *)
ReadCreate(body) ==
    LET input == ReadBody(body)
    IN [input EXCEPT !.review = Restrict(@, DOMAIN @ \ {"playbook"})]

-----------------------------------------------------------------------------
(* What is stored: the record is rebuilt from its merge with the patch, and  *)
(* normalised again when it is loaded.                                       *)

NormalizePreview(p) ==
    LET adapter == FirstOf(PreviewAdapter(p), "cloudflare_checks")
        check   == FirstOf(p.config.check, p.checkName)
    IN [adapter   |-> adapter,
        provider  |-> FirstOf(p.provider,
                              IF adapter = "cloudflare_checks" THEN "cloudflare" ELSE Unset),
        config    |-> [p.config EXCEPT !.check = check],
        checkName |-> FirstOf(p.checkName, check)]

NormalizeSentinel(given)   == Filled(given, DefaultSentinel)
NormalizeCheckpoint(given) == Filled(given, DefaultCheckpoint)

NormalizeRepo(r) ==
    [r EXCEPT !.basics.tenant = FirstOf(@, "ours"),
              !.basics.scm    = IF @ = "gitlab" THEN "gitlab" ELSE "github",
              !.preview       = NormalizePreview(@),
              !.sentinel      = NormalizeSentinel(@),
              !.checkpoint    = NormalizeCheckpoint(@)]

BuildReview(review, scm) ==
    LET enabled  == FirstOf(review.enabled, "no")
        provider == IF enabled = "yes" THEN DefaultProvider(scm) ELSE "gitlab"
    IN [review EXCEPT !.enabled  = enabled,
                      !.provider = FirstOf(@, provider),
                      !.inline   = FirstOf(@, "no"),
                      !.posting  = FirstOf(@, "platform")]

BuildRepo(r) ==
    NormalizeRepo([r EXCEPT !.basics.enabled       = FirstOf(@, "yes"),
                            !.basics.defaultBranch = FirstOf(@, "main"),
                            !.review               = BuildReview(r.review, r.basics.scm)])

Merge(base, patch) == [s \in Sections |-> Overlay(patch[s], base[s])]

Groups == {{"checksGreen", "reviewPass"}, {"autoMerge", "method", "deleteBranch"},
           {"rebase", "remediation", "maxAttempts"}, {"notes", "notesPath", "cleanup"},
           {"squash", "rewrite"}}
(* Mutant: a group of sentinelConfig or checkpointConfig is replaced whole.  *)
ReplaceGroups(r, patch) ==
    LET gone(s) == IF s \in {"sentinel", "checkpoint"}
                   THEN UNION {g \in Groups : g \cap DOMAIN patch[s] # {}} ELSE {}
    IN BuildRepo([s \in Sections |->
         Overlay(patch[s], [f \in Fields[s] |-> IF f \in gone(s) THEN Unset ELSE r[s][f]])])

(* Mutant: the merge is stored as it is. *)
MergeOnly(r, patch) == Merge(r, patch)

UpdateRepo(r, patch) == BuildRepo(Merge(r, patch))

(* What a task and a run make of the settings.                               *)
ResolveLlm(r) ==
    LET adapter == FirstOf(r.llm.adapter, "codex")
    IN [adapter |-> adapter,
        model   |-> FirstOf(r.llm.model, DefaultModel(adapter)),
        effort  |-> FirstOf(r.llm.effort, "medium")]

Tasks == [mode: {"inherit", "on", "off"}, prompt: {Unset, "typed"},
          playbook: Playbooks \cup {Unset}]
ResolveReview(r, books, t) ==
    LET enabled == IF t.mode = "inherit" THEN r.review.enabled = "yes" ELSE t.mode = "on"
        p       == FirstOf(t.playbook, r.review.playbook)
        found   == p # Unset /\ books[p] = [at |-> "live", tenant |-> r.basics.tenant, enabled |-> TRUE]
    IN [enabled  |-> enabled,
        prompt   |-> CASE ~enabled          -> "native"
                       [] enabled /\ found  -> p
                       [] enabled /\ ~found -> FirstOf(t.prompt, FirstOf(r.review.prompt, "native")),
        provider |-> r.review.provider,
        inline   |-> r.review.inline,
        posting  |-> r.review.posting]

-----------------------------------------------------------------------------
(* The form of ui/components/Forms.tsx: what it shows of a record, and what  *)
(* it sends.  Everything is sent, what was typed and what was shown.         *)

(* Mutant: the playbook is not among the initial values. *)
ReviewShownWithoutPlaybook(review) ==
    LET adapter == FirstOf(review.adapter, "codex")
    IN Overlay([adapter  |-> adapter,
                model    |-> FirstOf(EffectiveModel(review), DefaultModel(adapter)),
                effort   |-> FirstOf(review.effort, "medium"),
                playbook |-> Unset],
               Restrict(review, {"enabled", "provider", "inline", "prompt"}))

ReviewShown(review) ==
    LET adapter == FirstOf(review.adapter, "codex")
    IN Overlay([adapter |-> adapter,
                model   |-> FirstOf(EffectiveModel(review), DefaultModel(adapter)),
                effort  |-> FirstOf(review.effort, "medium")],
               Restrict(review, {"enabled", "provider", "inline", "prompt", "playbook"}))

FormOf(r) ==
    [basics   |-> Restrict(r.basics, {"scm", "defaultBranch"}),
     llm      |-> ResolveLlm(r),
     preview  |-> [adapter |-> r.preview.adapter, check |-> r.preview.config.check,
                   recipe |-> r.preview.config.recipe],
     review   |-> ReviewShown(r.review),
     commit   |-> r.commit,
     sentinel |-> r.sentinel]

PreviewPayload(v) ==
    [check  |-> IF v.adapter = "cloudflare_checks" THEN v.check ELSE Unset,
     recipe |-> IF v.adapter = "prompt_recipe" THEN v.recipe ELSE Unset]

(* Fields without a value do not get into the JSON, except for the playbook. *)
Payload(v) ==
    LET config == PreviewPayload(v.preview)
        tag    == IF v.sentinel.globalMode = "yes" THEN Unset ELSE v.sentinel.groupTag
    IN [basics   |-> Overlay([enabled |-> "yes"], v.basics),
        llm      |-> Restrict(v.llm, Named(v.llm)),
        preview  |-> LET sent == [adapter |-> v.preview.adapter, config |-> config,
                                  checkName |-> v.preview.check]
                     IN Restrict(sent, {"adapter"}
                          \cup (IF config = NoConfig THEN {} ELSE {"config"})
                          \cup (IF v.preview.check = Unset THEN {} ELSE {"checkName"})),
        review   |-> LET sent == Restrict(v.review, Named(v.review) \cup {"playbook"})
                     IN IF v.review.adapter = "codex" /\ v.review.model # Unset
                        THEN Overlay(sent, [codexModel |-> v.review.model]) ELSE sent,
        commit   |-> Restrict(v.commit, Named(v.commit)),
        sentinel |-> LET sent == [v.sentinel EXCEPT !.groupTag = tag]
                     IN Restrict(sent, Named(sent)),
        checkpoint |-> Empty]

-----------------------------------------------------------------------------
Exists == repo # Empty
None   == [at |-> "none", tenant |-> "nobody", enabled |-> FALSE]

(* A handler: the patch to store, and the config to write to both stores;    *)
(* named: the sentinel's fields its body names; toCopy and toRepo: what      *)
(* became of the two writes; alone: nobody else has been at the settings     *)
(* since it began; ofForm: it is the form's, and seen what the form showed.  *)
Resting == [at |-> "idle", patch |-> Nothing, config |-> Empty, named |-> {},
            toCopy |-> "todo", toRepo |-> "todo", alone |-> FALSE,
            ofForm |-> FALSE, next |-> Empty, seen |-> Empty, typed |-> Nothing]
Closed == [at |-> "closed", seen |-> Empty, typed |-> Nothing]

SettingsInit ==
    /\ repo = Empty
    /\ copy = Empty
    /\ playbooks = [p \in Playbooks |-> None]
    /\ request = [q \in Requests |-> Resting]
    /\ form = Closed
    /\ inputs = 0

Count == inputs < MaxInputs /\ inputs' = inputs + 1
Active == {q \in Requests : request[q].at # "idle"}

(* Nobody who is at work is alone any more. *)
Disturb(r) == [q \in Requests |-> [r[q] EXCEPT !.alone = FALSE]]
Begin(q, record) ==
    request' = [Disturb(request) EXCEPT ![q] = [record EXCEPT !.alone = (Active \ {q} = {})]]
MovesTo(q, step) == request' = [request EXCEPT ![q].at = step]

(* The form stays as it is when one of its calls fails.                      *)
Ends(q, well) ==
    /\ request' = [request EXCEPT ![q] = Resting]
    /\ form' = IF ~request[q].ofForm THEN form
               ELSE IF well THEN Closed ELSE [form EXCEPT !.at = "open"]

-----------------------------------------------------------------------------
(* Repos and playbooks: one call of the BoardIndexDO each.                   *)

CreateRepo(body) ==
    /\ ~Exists /\ IsValid(body)
    /\ repo' = BuildRepo(Merge(Blank, ReadCreate(body)))
    /\ request' = Disturb(request)
    /\ UNCHANGED <<copy, playbooks, form, inputs>>

(* The row in D1 stays.                                                      *)
DeleteRepo ==
    /\ Exists
    /\ Count
    /\ repo' = Empty
    /\ request' = Disturb(request)
    /\ UNCHANGED <<copy, playbooks, form>>

CreatePlaybook(p, tenant) ==
    /\ playbooks[p] = None
    /\ Count
    /\ playbooks' = [playbooks EXCEPT ![p] =
                       [at |-> "live", tenant |-> tenant, enabled |-> TRUE]]
    /\ UNCHANGED <<repo, copy, request, form>>

SwitchPlaybook(p) ==
    /\ playbooks[p].at = "live"
    /\ Count
    /\ playbooks' = [playbooks EXCEPT ![p].enabled = ~@]
    /\ UNCHANGED <<repo, copy, request, form>>

(* Repos and tasks that name it are not looked at.                           *)
DeletePlaybook(p) ==
    /\ playbooks[p].at = "live"
    /\ Count
    /\ playbooks' = [playbooks EXCEPT ![p].at = "gone"]
    /\ UNCHANGED <<repo, copy, request, form>>

-----------------------------------------------------------------------------
(* PATCH /repos/:repoId.                                                     *)

NamesPlaybook(patch) == Given(patch.review, "playbook") # Unset

Opened(patch) ==
    [Resting EXCEPT !.at = IF NamesPlaybook(patch) THEN "playbook" ELSE "save", !.patch = patch]

(* The tenant of a repo cannot be changed.                                   *)
AskUpdate(q, body) ==
    /\ request[q].at = "idle"
    /\ Exists /\ IsValid(body)
    /\ Given(body.basics, "tenant") \in {Unset, repo.basics.tenant}
    /\ Count
    /\ Begin(q, Opened(ReadPatch(body)))
    /\ UNCHANGED <<repo, copy, playbooks, form>>

PlaybookIsUsable(p) ==
    playbooks[p].at = "live" /\ playbooks[p].enabled /\ playbooks[p].tenant = "ours"

CheckPlaybook(q) ==
    /\ request[q].at = "playbook"
    /\ IF PlaybookIsUsable(request[q].patch.review.playbook)
       THEN MovesTo(q, "save") /\ UNCHANGED form
       ELSE Ends(q, FALSE)
    /\ UNCHANGED <<repo, copy, playbooks, inputs>>

(* One call of the BoardIndexDO: the patch is merged with what it finds. The *)
(* form goes on with its second call.                                        *)
SaveRepo(q) ==
    /\ request[q].at = "save"
    /\ repo' = IF Exists THEN UpdateRepo(repo, request[q].patch) ELSE repo
    /\ IF Exists /\ request[q].ofForm
       THEN MovesTo(q, "second") /\ UNCHANGED form
       ELSE Ends(q, Exists)
    /\ UNCHANGED <<copy, playbooks, inputs>>

-----------------------------------------------------------------------------
(* PATCH /repos/:repoId/sentinel/config: the body is merged with the config  *)
(* that was read first, and the whole is written to D1 and to the record.    *)

(* Mutant: only what the body names is written. *)
BodyOnly(base, body) == body
MergeSentinel(base, body) == Overlay(body, base)

Merging(record, body) ==
    [record EXCEPT !.at = "write", !.config = MergeSentinel(repo.sentinel, body),
                   !.named = DOMAIN body, !.toCopy = "todo", !.toRepo = "todo"]

AskSentinel(q, body) ==
    /\ request[q].at = "idle"
    /\ Exists /\ SentinelIsValid(body)
    /\ Count
    /\ Begin(q, Merging(Resting, body))
    /\ UNCHANGED <<repo, copy, playbooks, form>>

SecondCall(q) ==
    /\ request[q].at = "second"
    /\ IF Exists
       THEN Begin(q, Merging(request[q], request[q].next)) /\ UNCHANGED form
       ELSE Ends(q, FALSE)
    /\ UNCHANGED <<repo, copy, playbooks, inputs>>

WriteCopy(q) ==
    /\ request[q].at = "write" /\ request[q].toCopy = "todo"
    /\ copy' = NormalizeSentinel(request[q].config)
    /\ request' = [request EXCEPT ![q].toCopy = "done"]
    /\ UNCHANGED <<repo, playbooks, form, inputs>>

WriteRepo(q) ==
    /\ request[q].at = "write" /\ request[q].toRepo = "todo"
    /\ repo' = IF Exists
               THEN UpdateRepo(repo, [Nothing EXCEPT !.sentinel = request[q].config])
               ELSE repo
    /\ request' = [request EXCEPT ![q].toRepo = IF Exists THEN "done" ELSE "failed"]
    /\ UNCHANGED <<copy, playbooks, form, inputs>>

(* The answer is an error as soon as one write has failed.  The other goes   *)
(* on: here the request is over when both are settled.                       *)
Answer(q) ==
    /\ request[q].at = "write"
    /\ request[q].toCopy # "todo" /\ request[q].toRepo # "todo"
    /\ Ends(q, {request[q].toCopy, request[q].toRepo} = {"done"})
    /\ UNCHANGED <<repo, copy, playbooks, inputs>>

(* A write that fails or gets lost, or a request that ends before its call.  *)
Fail(q) ==
    /\ Count
    /\ \/ /\ request[q].at \in {"playbook", "save", "second"}
          /\ Ends(q, FALSE)
       \/ /\ request[q].at = "write"
          /\ \E store \in {"toCopy", "toRepo"} :
                /\ request[q][store] = "todo"
                /\ request' = [request EXCEPT ![q][store] = "failed"]
          /\ UNCHANGED form
    /\ UNCHANGED <<repo, copy, playbooks>>

-----------------------------------------------------------------------------
(* The form.                                                                 *)

OpenForm ==
    /\ form.at = "closed" /\ Exists
    /\ Count
    /\ form' = [at |-> "open", seen |-> repo, typed |-> Nothing]
    /\ UNCHANGED <<repo, copy, playbooks, request>>

Type(typing) ==
    /\ form.at = "open" /\ form.typed = Nothing
    /\ Count
    /\ form' = [form EXCEPT !.typed = typing]
    /\ UNCHANGED <<repo, copy, playbooks, request>>

(* repo.updated: if any initial value is another one, every field is reset,  *)
(* those that were being edited included.                                    *)
Shown ==
    [form EXCEPT !.seen  = repo,
                 !.typed = IF FormOf(repo) = FormOf(form.seen) THEN @ ELSE Nothing]

SeeUpdate ==
    /\ form.at # "closed" /\ Exists /\ form.seen # repo
    /\ form' = Shown
    /\ UNCHANGED <<repo, copy, playbooks, request, inputs>>

(* Typed fields over those shown.                                            *)
FormValues(seen, typed) == [s \in DOMAIN FormOf(seen) |-> Overlay(typed[s], FormOf(seen)[s])]

Submit(q) ==
    /\ form.at = "open" /\ request[q].at = "idle" /\ Exists
    /\ Count
    /\ LET body == Payload(FormValues(form.seen, form.typed))
       IN /\ IsValid(body)
          /\ Begin(q, [Opened(ReadPatch([body EXCEPT !.sentinel = Empty]))
                         EXCEPT !.ofForm = TRUE, !.next = body.sentinel,
                                !.seen = form.seen, !.typed = form.typed])
    /\ form' = [form EXCEPT !.at = "saving"]
    /\ UNCHANGED <<repo, copy, playbooks>>

-----------------------------------------------------------------------------
Makes ==
    \/ \E b \in CreateBodies : CreateRepo(b)
    \/ DeleteRepo
    \/ \E p \in Playbooks : SwitchPlaybook(p) \/ DeletePlaybook(p)
    \/ \E p \in Playbooks, t \in {"ours", "theirs"} : CreatePlaybook(p, t)

Asks(q) ==
    \/ \E b \in Bodies : AskUpdate(q, b)
    \/ \E b \in SentinelBodies : AskSentinel(q, b)
    \/ Submit(q)

Works(q) ==
    \/ CheckPlaybook(q) \/ SaveRepo(q) \/ SecondCall(q)
    \/ WriteCopy(q) \/ WriteRepo(q) \/ Answer(q) \/ Fail(q)

Edits == OpenForm \/ SeeUpdate \/ \E t \in Typings : Type(t)

SettingsNext == Makes \/ Edits \/ \E q \in Requests : Asks(q) \/ Works(q)

SettingsSpec == SettingsInit /\ [][SettingsNext]_settingsVars

-----------------------------------------------------------------------------
(* The record is complete, requests and the form are where they can be, and  *)
(* a form that is saving has its request.                                    *)
SettingsTypeOK ==
    /\ Exists => \A sec \in Sections : DOMAIN repo[sec] = Fields[sec]
    /\ copy # Empty => DOMAIN copy = SentinelFields
    /\ \A p \in Playbooks : playbooks[p] \in
          [at: {"none", "live", "gone"}, tenant: {"nobody", "ours", "theirs"}, enabled: BOOLEAN]
    /\ \A q \in Requests :
          /\ request[q].at \in {"idle", "playbook", "save", "second", "write"}
          /\ {request[q].toCopy, request[q].toRepo} \subseteq {"todo", "done", "failed"}
    /\ form.at \in {"closed", "open", "saving"}
    /\ Cardinality({q \in Requests : request[q].ofForm}) = (IF form.at = "saving" THEN 1 ELSE 0)
    /\ inputs \in 0..MaxInputs

(* What a restart of the BoardIndexDO loads is what was running: the record  *)
(* that UpdateRepo left is one that normalising does not change.             *)
StoredIsNormal == Exists => NormalizeRepo(repo) = repo /\ BuildRepo(repo) = repo

(* The two names of each preview setting never disagree, whichever of them   *)
(* the patches so far have used: provider and adapter, the check's name in   *)
(* the config and its older field.                                           *)
PreviewIsCoherent ==
    Exists => /\ repo.preview.provider = "cloudflare" <=> repo.preview.adapter = "cloudflare_checks"
              /\ repo.preview.checkName = repo.preview.config.check

(* A repo's playbook is, or was until it was deleted, one of its own tenant: *)
(* a foreign prompt is never a patch away from its reviews.                  *)
PlaybookIsOurs ==
    Exists /\ repo.review.playbook # Unset =>
        /\ playbooks[repo.review.playbook].at # "none"
        /\ playbooks[repo.review.playbook].tenant = repo.basics.tenant

(* However patches follow one another, what is stored is what a restart      *)
(* makes of it, its old and new names say the same, and it names a playbook  *)
(* of its tenant.                                                            *)
StoredIsCoherent == SettingsTypeOK /\ StoredIsNormal /\ PreviewIsCoherent /\ PlaybookIsOurs

(* A change of the sentinel's config during which nobody else was at the     *)
(* settings leaves both stores equal, however they differed before (a write  *)
(* that failed, two changes in different orders, a patch of the repo), and   *)
(* with what its body named.                                                 *)
SaveHeals ==
    \A q \in Requests :
        /\ request[q].at = "write" /\ request[q].alone
        /\ request[q].toCopy = "done" /\ request[q].toRepo = "done"
        => /\ Exists /\ copy = repo.sentinel
           /\ \A f \in request[q].named :
                 repo.sentinel[f] = FirstOf(request[q].config[f], DefaultSentinel[f])

-----------------------------------------------------------------------------
Fits(b) == FirstOf(b.adapter, "codex") = "codex" => b.model \in CodexModels \cup {Unset}

(* A change that sets another model, of the repo's tasks or of its reviews,  *)
(* leaves one that the adapter then in force takes.                          *)
NamedModelFits ==
    [][Exists /\ repo' # Empty =>
         \A sec \in {"llm", "review"} :
            repo'[sec].model # repo[sec].model => Fits(repo'[sec])]_settingsVars

Saving(q)  == request[q].at = "save" /\ request'[q].at # "save"
Writing(q) == request[q].toRepo = "todo" /\ request'[q].toRepo = "done"

(* A field changes only by a patch that names it (or the field it is set     *)
(* together with); by a change of the sentinel's config that does not name   *)
(* it only when another request was at work, whose change it then undoes.    *)
OnlyNamedFields ==
    [][Exists /\ repo' # Empty =>
         \A sec \in Sections : \A f \in Fields[sec] :
            repo'[sec][f] # repo[sec][f] =>
               \E q \in Requests :
                  \/ Saving(q) /\ f \in DOMAIN request[q].patch[sec]
                  \/ Writing(q) /\ sec = "sentinel"
                       /\ (f \in request[q].named \/ ~request[q].alone)]_settingsVars

(* A patch changes what it names and leaves the rest as it was, and a model  *)
(* it names fits the adapter it is then used with.                           *)
PatchesKeepTheRest == OnlyNamedFields /\ NamedModelFits

(* What a section of the record means to the tasks and runs of the repo.     *)
Meaning(sec, r) ==
    CASE sec = "basics"  -> [r.basics EXCEPT !.enabled = "yes"]
      [] sec = "llm"     -> ResolveLlm(r)
      [] sec = "preview" -> <<r.preview.adapter, r.preview.config.check,
                              IF r.preview.adapter = "prompt_recipe"
                              THEN r.preview.config.recipe ELSE Unset>>
      [] sec = "review"  -> [t \in Tasks |-> ResolveReview(r, playbooks, t)]
      [] OTHER           -> r[sec]

(* Saving the form changes nothing in a section in which nothing was typed,  *)
(* as long as the form showed the record it is merged with: what it sends    *)
(* of the rest comes to what was there.  Not so for basics.enabled (always   *)
(* sent as TRUE) and for the model of the reviews (codex is sent where there *)
(* was none).                                                                *)
FormKeepsMeaning ==
    [][Exists /\ repo' # Empty =>
         \A q \in Requests : request[q].ofForm =>
            /\ Saving(q) /\ request[q].seen = repo =>
                  \A sec \in Sections : request[q].typed[sec] = Empty =>
                     Meaning(sec, repo') = Meaning(sec, repo)
            /\ Writing(q) /\ request[q].alone
                  /\ request[q].seen.sentinel = repo.sentinel
                  /\ request[q].typed.sentinel = Empty =>
                     repo'.sentinel = repo.sentinel]_settingsVars
=============================================================================
