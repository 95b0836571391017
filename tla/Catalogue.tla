------------------------------ MODULE Catalogue ------------------------------
(***************************************************************************)
(* The providers and the models of the AI gateway (ai/admin.rs).           *)
(*                                                                         *)
(* An update reads its row under its lock, takes from it what the request  *)
(* leaves out and writes all of it.  Names, addresses, metadata and the    *)
(* prices no rule looks at are left out.                                   *)
(***************************************************************************)
EXTENDS Integers

CONSTANTS
    Providers,      \* ids of providers
    CatalogueEdits  \* calls of update_ai_provider and update_ai_model

VARIABLES
    provider,       \* the rows of ai_providers
    aiModel,        \* the row of one model in ai_models
    edit,           \* the updates
    asked           \* history: what was last asked for, field by field

catalogueVars == <<provider, aiModel, edit, asked>>

Modalities == {"text", "image", "video", "audio", "embedding", "multimodal"}

BillingModes == {"token", "per_image", "video_per_second", "video_per_request",
                 "audio_per_second", "audio_per_minute", "audio_per_request"}

\* 0 is no secret.
ProviderRow == [exists : BOOLEAN, enabled : BOOLEAN, secret : 0 .. 2]

NoProvider == [exists |-> FALSE, enabled |-> FALSE, secret |-> 0]

\* A price is 0 or not; by names the provider, if there is one.
ModelRow == [exists : BOOLEAN, modality : Modalities, mode : BillingModes, request : 0 .. 1, second : 0 .. 1,
             by : {{}} \cup {{p} : p \in Providers}]

NoModel == [exists |-> FALSE, modality |-> "text", mode |-> "token", request |-> 0, second |-> 0, by |-> {}]

\* What a request sends: the names and values of some fields.
ProviderPayload ==
    {[enabled |-> b] : b \in BOOLEAN} \cup {[secret |-> s] : s \in 1 .. 2} \cup {[clear |-> TRUE]}
        \cup {[clear |-> TRUE, secret |-> 1]}

ModelPayload ==
    [modality : Modalities] \cup [mode : BillingModes] \cup [modality : Modalities, mode : BillingModes]
        \cup [request : 0 .. 1] \cup [second : 0 .. 1] \cup [by : {{}} \cup {{p} : p \in Providers}]

NoRequest == [none |-> TRUE]

\* A field of the request, or the one of the row.
Sent(p, f, old) == IF f \in DOMAIN p THEN p[f] ELSE old

CatalogueTypeOK ==
    /\ provider \in [Providers -> ProviderRow]
    /\ aiModel \in ModelRow
    /\ edit \in [CatalogueEdits -> [pc : {"idle", "provider", "model", "done"}, id : SUBSET Providers,
                                    payload : ProviderPayload \cup ModelPayload \cup {NoRequest},
                                    seen : ProviderRow, read : ModelRow]]
    /\ asked \in [provider : [Providers -> ProviderRow], request : 0 .. 1, second : 0 .. 1]

CatalogueInit ==
    /\ provider = [p \in Providers |-> NoProvider]
    /\ aiModel = NoModel
    /\ edit = [e \in CatalogueEdits |-> [pc |-> "idle", id |-> {}, payload |-> NoRequest,
                                         seen |-> NoProvider, read |-> NoModel]]
    /\ asked = [provider |-> [p \in Providers |-> NoProvider], request |-> 0, second |-> 0]

-----------------------------------------------------------------------------
(* Providers. *)

\* The row insert_provider writes.
NewProvider(on, s) == [exists |-> TRUE, enabled |-> on, secret |-> s]

\* create_ai_provider.
CreateProvider(i, on, s) ==
    /\ ~provider[i].exists
    /\ provider' = [provider EXCEPT ![i] = NewProvider(on, s)]
    /\ asked' = [asked EXCEPT !.provider[i] = provider'[i]]
    /\ UNCHANGED <<aiModel, edit>>

\* The lock of find_provider_for_update.
ProviderFree(i) == \A e \in CatalogueEdits : ~(edit[e].pc = "provider" /\ i \in edit[e].id)

UpdateProviderLock(e, i, p) ==
    /\ edit[e].pc = "idle" /\ provider[i].exists /\ ProviderFree(i)
    /\ edit' = [edit EXCEPT ![e].pc = "provider", ![e].id = {i}, ![e].payload = p, ![e].seen = provider[i]]
    /\ UNCHANGED <<provider, aiModel, asked>>

\* normalize_update_provider_input: clear_secret wins over a new secret.
ProviderAfter(p, before) ==
    [before EXCEPT !.enabled = Sent(p, "enabled", @),
                   !.secret = IF "clear" \in DOMAIN p THEN 0 ELSE Sent(p, "secret", @)]

\* update_provider_in_transaction and the commit.
UpdateProviderCommit(e, i) ==
    /\ edit[e].pc = "provider" /\ i \in edit[e].id
    /\ provider' = [provider EXCEPT ![i] = ProviderAfter(edit[e].payload, edit[e].seen)]
    /\ asked' = [asked EXCEPT !.provider[i] = ProviderAfter(edit[e].payload, @)]
    /\ edit' = [edit EXCEPT ![e] = [pc |-> "done", id |-> {}, payload |-> NoRequest,
                                    seen |-> NoProvider, read |-> NoModel]]
    /\ UNCHANGED aiModel

-----------------------------------------------------------------------------
(* Models. *)

\* normalize_billing_mode: the modes a modality allows.
BillingModesOf(modality) ==
    CASE modality \in {"text", "embedding"} -> {"token"}
      [] modality = "image"      -> {"per_image"}
      [] modality = "video"      -> {"video_per_second", "video_per_request"}
      [] modality = "audio"      -> {"audio_per_second", "audio_per_minute", "audio_per_request"}
      [] modality = "multimodal" -> {"token", "per_image"}

DefaultBillingMode(modality, request, second) ==
    CASE modality = "image" -> "per_image"
      [] modality = "video" -> IF request > 0 /\ second = 0 THEN "video_per_request" ELSE "video_per_second"
      [] modality = "audio" -> IF request > 0 /\ second = 0 THEN "audio_per_request" ELSE "audio_per_second"
      [] OTHER -> "token"

\* ensure_provider_exists_in_transaction.
ProviderExists(by) == \A i \in by : provider[i].exists

\* normalize_create_model_input: a mode that is not sent is derived.
NewModel(m, mode, request, second, by) ==
    [exists |-> TRUE, modality |-> m, request |-> request, second |-> second, by |-> by,
     mode |-> IF mode = "none" THEN DefaultBillingMode(m, request, second) ELSE mode]

\* create_ai_model: a mode that is sent must fit.
CreateModel(m, mode, request, second, by) ==
    /\ ~aiModel.exists
    /\ mode = "none" \/ mode \in BillingModesOf(m)
    /\ ProviderExists(by)
    /\ aiModel' = NewModel(m, mode, request, second, by)
    /\ asked' = [asked EXCEPT !.request = request, !.second = second]
    /\ UNCHANGED <<provider, edit>>

\* The lock of find_model_for_update.
ModelFree == \A e \in CatalogueEdits : edit[e].pc # "model"

UpdateModelLock(e, p) ==
    /\ edit[e].pc = "idle" /\ aiModel.exists /\ ModelFree
    /\ edit' = [edit EXCEPT ![e].pc = "model", ![e].payload = p, ![e].read = aiModel]
    /\ UNCHANGED <<provider, aiModel, asked>>

\* Mutant: a mode that is not sent is kept when the modality changes.
ModeAfterKept(p, before, modality, request, second) == Sent(p, "mode", before.mode)

\* billing_mode in normalize_update_model_input, before it is checked.
ModeAfter(p, before, modality, request, second) ==
    IF "mode" \in DOMAIN p THEN p.mode
    ELSE IF modality # before.modality THEN DefaultBillingMode(modality, request, second)
    ELSE before.mode

\* normalize_update_model_input.
ModelAfter(p, before) ==
    LET modality == Sent(p, "modality", before.modality)
        request == Sent(p, "request", before.request)
        second == Sent(p, "second", before.second)
    IN  [exists |-> TRUE, modality |-> modality, request |-> request, second |-> second,
         mode |-> ModeAfter(p, before, modality, request, second), by |-> Sent(p, "by", before.by)]

\* update_model_in_transaction and the commit, or the error.
UpdateModelCommit(e) ==
    /\ edit[e].pc = "model"
    /\ LET p == edit[e].payload
           new == ModelAfter(p, edit[e].read)
           checked == "mode" \in DOMAIN p \/ new.modality = edit[e].read.modality
       IN  IF (checked => new.mode \in BillingModesOf(new.modality)) /\ ProviderExists(new.by)
           THEN /\ aiModel' = new
                /\ asked' = [asked EXCEPT !.request = Sent(p, "request", @), !.second = Sent(p, "second", @)]
           ELSE UNCHANGED <<aiModel, asked>>
    /\ edit' = [edit EXCEPT ![e] = [pc |-> "done", id |-> {}, payload |-> NoRequest,
                                    seen |-> NoProvider, read |-> NoModel]]
    /\ UNCHANGED provider

-----------------------------------------------------------------------------
\* Two casts: updates of providers, and of the model.
CreateProviderNext == \E i \in Providers, on \in BOOLEAN, s \in 0 .. 1 : CreateProvider(i, on, s)

ProviderNext ==
    \/ CreateProviderNext
    \/ \E e \in CatalogueEdits, i \in Providers :
           UpdateProviderCommit(e, i) \/ \E p \in ProviderPayload : UpdateProviderLock(e, i, p)

ModelNext ==
    \/ CreateProviderNext
    \/ \E m \in Modalities, mode \in BillingModes \cup {"none"}, request, second \in 0 .. 1,
          by \in {{}} \cup {{i} : i \in Providers} : CreateModel(m, mode, request, second, by)
    \/ \E e \in CatalogueEdits : UpdateModelCommit(e) \/ \E p \in ModelPayload : UpdateModelLock(e, p)

-----------------------------------------------------------------------------
\* Whatever two administrators change at the same time, a model is billed in a
\* mode its modality has, by a provider that exists, so no later update that
\* leaves the mode alone is refused for it (normalize_update_model_input).
BillingModeFits ==
    aiModel.exists => aiModel.mode \in BillingModesOf(aiModel.modality) /\ ProviderExists(aiModel.by)

\* Concurrent updates of prices, switches and secrets are all kept
\* (find_model_for_update, find_provider_for_update).
CatalogueUpdatesKept ==
    /\ provider = asked.provider
    /\ aiModel.request = asked.request /\ aiModel.second = asked.second

\* Providers and models together (ai/admin.rs).
CatalogueKept == CatalogueTypeOK /\ BillingModeFits /\ CatalogueUpdatesKept
=============================================================================
