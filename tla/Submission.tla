----------------------------- MODULE Submission -----------------------------
(***************************************************************************)
(* What a run is asked to do: configuration templates, the preview of the   *)
(* fingerprint, the submission, and the pages that turn a template or an    *)
(* old run into a new submission.                                           *)
(*                                                                         *)
(* A text field stands for every text field of its section, a pointer field *)
(* for every pointer field: the code treats them alike.  SHA-256 over the    *)
(* sorted JSON is injective, so a fingerprint is the value it is taken of.   *)
(***************************************************************************)
EXTENDS Integers, Requests

CONSTANTS
    Rejected, \* the request is answered with 400
    Empty,    \* no template, no run
    Blank,    \* the text without a letter in it
    Servers,  \* the settings the server may be started with
    Bodies,   \* the configurations people post
    Forms,    \* what people fill into the page's form
    DefaultChunking, EmptyForm, Corpora, MaxTopK, MaxTemperature

\* What can be put into a request, and what a configuration is once the defaults
\* are filled in.  A section of a request may leave out its pointer fields.
ChunkingBodies == [chunk_size : Int, overlap : Int]
BodySpace ==
    [chunking   : ChunkingBodies \cup {Absent},
     top_k      : Int,
     generation : [model : STRING, temperature : Int \cup {Absent}] \cup {Absent},
     judge      : [model : STRING, temperature : Int \cup {Absent},
                   enable_rubric : BOOLEAN \cup {Absent}] \cup {Absent}]

GenerationConfigs == [model : STRING, temperature : Int]
JudgeConfigs      == [model : STRING, temperature : Int, enable_rubric : BOOLEAN]
ConfigSpace ==
    [chunking   : ChunkingBodies,
     top_k      : Int,
     generation : GenerationConfigs \cup {Absent},
     judge      : JudgeConfigs \cup {Absent}]

\* A template's column holds top_k in a section of its own.
StoredSpace ==
    [chunking   : ChunkingBodies,
     retrieval  : [top_k : Int],
     generation : GenerationConfigs \cup {Absent},
     judge      : JudgeConfigs \cup {Absent}]

ValidChunking(c) ==
    c.chunk_size > 0 /\ c.overlap >= 0 /\ c.overlap < c.chunk_size

SubmissionAssumption ==
    /\ MaxTopK \in Nat /\ MaxTopK >= 5 /\ MaxTemperature \in Nat
    /\ DefaultChunking \in ChunkingBodies /\ ValidChunking(DefaultChunking)
    /\ Bodies \subseteq BodySpace
    /\ \A form \in Forms :
          /\ form.chunking \in ChunkingBodies
          /\ form.topK \in Int
          /\ form.generationEnabled => form.generation \in GenerationConfigs
          /\ form.judgeEnabled => form.judge \in JudgeConfigs
    /\ \A on \in Servers : on.generation \in GenerationConfigs /\ on.judge \in JudgeConfigs
    /\ Absent \notin Int \cup BOOLEAN \cup ChunkingBodies \cup GenerationConfigs \cup JudgeConfigs
    /\ Rejected \notin Int \cup {Absent} \cup ChunkingBodies \cup GenerationConfigs \cup JudgeConfigs
    /\ Rejected \notin ConfigSpace \cup StoredSpace

VARIABLES
    server,   \* defaults of the running server: embedding, generation, judge
    template, \* one row of pipeline_profiles; formTopK is what the page's form held
    run       \* the last run submitted; body and under are history

submissionVars == <<server, template, run>>

(***************************************************************************)
(* Requests become configurations.                                         *)
(***************************************************************************)
resolveChunkingRequest(req) ==
    IF req = Absent THEN DefaultChunking
    ELSE IF ValidChunking(req) THEN req ELSE Rejected

resolveTopK(value) ==
    IF value <= 0 THEN 5 ELSE IF value > MaxTopK THEN Rejected ELSE value

\* A blank text means the default; so does a pointer that was not sent, and
\* an explicit 0 or FALSE is kept.
Text(value, def)  == IF value = Blank THEN def ELSE value
Given(value, def) == coalesce(value, def)

\* The texts Validate requires, and the ranges; a temperature is one of them.
ValidSection(c) == c.model # Blank /\ c.temperature >= 0 /\ c.temperature <= MaxTemperature

resolveGenerationRequest(req, defaults) ==
    IF req = Absent THEN Absent
    ELSE LET config == [model       |-> Text(req.model, defaults.model),
                        temperature |-> Given(req.temperature, defaults.temperature)]
         IN  IF ValidSection(config) THEN config ELSE Rejected

resolveJudgeRequest(req, defaults) ==
    IF req = Absent THEN Absent
    ELSE LET config == [model         |-> Text(req.model, defaults.model),
                        temperature   |-> Given(req.temperature, defaults.temperature),
                        enable_rubric |-> Given(req.enable_rubric, defaults.enable_rubric)]
         IN  IF ValidSection(config) THEN config ELSE Rejected

\* What both the template and the submission resolve a body to.
Resolve(body, on) ==
    LET chunking   == resolveChunkingRequest(body.chunking)
        topK       == resolveTopK(body.top_k)
        generation == resolveGenerationRequest(body.generation, on.generation)
        judge      == resolveJudgeRequest(body.judge, on.judge)
    IN  IF \/ Rejected \in {chunking, topK, generation, judge}
           \/ judge # Absent /\ generation = Absent
        THEN Rejected
        ELSE [chunking |-> chunking, top_k |-> topK,
              generation |-> generation, judge |-> judge]

(***************************************************************************)
(* Snapshots, fingerprints, collections.                                   *)
(***************************************************************************)
\* A stage that is off has no key.
OptionalSections(config) == {stage \in {"generation", "judge"} : config[stage] # Absent}

BuildSnapshot(config, on, corpus) ==
    [key \in {"chunking", "embedding", "top_k", "data"} \cup OptionalSections(config) |->
        CASE key = "embedding" -> on.embedding
          [] key = "data"      -> corpus
          [] OTHER             -> config[key]]

CollectionName(corpus, chunking) == <<corpus, chunking>>

Fingerprint(config, on, corpus) ==
    [snapshot   |-> BuildSnapshot(config, on, corpus),
     collection |-> CollectionName(corpus, config.chunking)]

(***************************************************************************)
(* The stored form of a template, and the way back from it.                *)
(***************************************************************************)
\* Mutant: the template keeps what was posted, without the defaults.
configFromBody_Raw(body, on, requireChunking) ==
    IF requireChunking /\ body.chunking = Absent THEN Rejected
    ELSE IF Resolve(body, on) = Rejected THEN Rejected
         ELSE [chunking   |-> resolveChunkingRequest(body.chunking),
               retrieval  |-> [top_k |-> resolveTopK(body.top_k)],
               generation |-> body.generation,
               judge      |-> body.judge]

configFromBody(body, on, requireChunking) ==
    IF requireChunking /\ body.chunking = Absent THEN Rejected
    ELSE LET config == Resolve(body, on)
         IN  IF config = Rejected THEN Rejected
             ELSE [chunking   |-> config.chunking,
                   retrieval  |-> [top_k |-> config.top_k],
                   generation |-> config.generation,
                   judge      |-> config.judge]

\* Mutant: the preview drops a temperature of 0 on the way back.
generationRequestFrom_NonZero(section) ==
    [model |-> section.model,
     temperature |-> IF section.temperature = 0 THEN Absent ELSE section.temperature]

\* Every field of a stored section is present, so each is sent explicitly.
generationRequestFrom(section) ==
    [model |-> section.model, temperature |-> section.temperature]

judgeRequestFrom(section) ==
    [model |-> section.model, temperature |-> section.temperature,
     enable_rubric |-> section.enable_rubric]

\* Preview resolves the body, then the outcome once more.
Preview(body, on, corpus) ==
    LET config == configFromBody(body, on, FALSE)
    IN  IF config = Rejected THEN Rejected
        ELSE LET again == Resolve(
                     [chunking   |-> config.chunking,
                      top_k      |-> config.retrieval.top_k,
                      generation |-> IF config.generation = Absent THEN Absent
                                     ELSE generationRequestFrom(config.generation),
                      judge      |-> IF config.judge = Absent THEN Absent
                                     ELSE judgeRequestFrom(config.judge)], on)
             IN  IF again = Rejected THEN Rejected ELSE Fingerprint(again, on, corpus)

(***************************************************************************)
(* The pages: form <-> configuration <-> request.                          *)
(***************************************************************************)
configToForm(config) ==
    [chunking          |-> config.chunking,
     topK              |-> config.retrieval.top_k,
     generationEnabled |-> config.generation # Absent,
     generation        |-> IF config.generation = Absent THEN EmptyForm.generation
                           ELSE config.generation,
     judgeEnabled      |-> config.judge # Absent,
     judge             |-> IF config.judge = Absent THEN EmptyForm.judge ELSE config.judge]

formToRunPayload(form) ==
    [chunking   |-> form.chunking,
     top_k      |-> form.topK,
     generation |-> IF form.generationEnabled THEN form.generation ELSE Absent,
     judge      |-> IF form.judgeEnabled THEN form.judge ELSE Absent]

\* The page posts {chunking, retrieval: {top_k}, ...}; the server's body has a
\* flat top_k and ignores "retrieval", so the number does not arrive.
formToConfig(form) == [formToRunPayload(form) EXCEPT !.top_k = 0]

validateProfileForm(form) ==
    /\ form.topK \in 1 .. MaxTopK
    /\ form.judgeEnabled => form.generationEnabled

\* Mutant: re-running switches the rubric on.
formFromRunSnapshot_Rubric(snapshot) ==
    LET Section(key) == IF key \in DOMAIN snapshot THEN snapshot[key] ELSE Absent
        form == configToForm([chunking   |-> snapshot.chunking,
                              retrieval  |-> [top_k |-> snapshot.top_k],
                              generation |-> Section("generation"),
                              judge      |-> Section("judge")])
    IN  [form EXCEPT !.judge.enable_rubric = TRUE]

formFromRunSnapshot(snapshot) ==
    LET Section(key) == IF key \in DOMAIN snapshot THEN snapshot[key] ELSE Absent
    IN  configToForm([chunking   |-> snapshot.chunking,
                      retrieval  |-> [top_k |-> snapshot.top_k],
                      generation |-> Section("generation"),
                      judge      |-> Section("judge")])

(***************************************************************************)
(* The case page finds the texts of a run through its snapshot.             *)
(***************************************************************************)
chunkingOf(snapshot) == snapshot.chunking

collectionNameOf(r) == CollectionName(r.corpus, chunkingOf(r.stored.snapshot))

(***************************************************************************)
(* Actions.                                                                *)
(***************************************************************************)
SubmissionInit ==
    /\ server \in Servers
    /\ template = Empty
    /\ run = Empty

\* The server starts again with other environment variables.
Restart ==
    /\ server' \in Servers \ {server}
    /\ UNCHANGED <<template, run>>

StoreTemplate(body, formTopK) ==
    LET config == configFromBody(body, server, TRUE)
    IN  /\ config # Rejected
        /\ template' = [config |-> config, formTopK |-> formTopK]
        /\ UNCHANGED <<server, run>>

\* Create, and Update with a configuration, through the API.
CreatePipelineProfile(body) == template = Empty /\ StoreTemplate(body, Absent)
UpdatePipelineProfile(body) == template # Empty /\ StoreTemplate(body, Absent)

\* The template page saves its form; an existing template is loaded into it.
SaveForm(form) ==
    /\ validateProfileForm(form)
    /\ StoreTemplate(formToConfig(form), form.topK)

DeletePipelineProfile ==
    /\ template # Empty
    /\ template' = Empty
    /\ UNCHANGED <<server, run>>

\* What CreateRunWithJob is given; the queue behind it is EvalQueue's.
Submit(body, corpus) ==
    LET config == Resolve(body, server)
    IN  /\ config # Rejected
        /\ run' = [body |-> body, under |-> server, corpus |-> corpus,
                   stored |-> Fingerprint(config, server, corpus)]
        /\ UNCHANGED <<server, template>>

SubmitTemplate(corpus) ==
    /\ template # Empty
    /\ Submit(formToRunPayload(configToForm(template.config)), corpus)

Rerun ==
    /\ run # Empty
    /\ Submit(formToRunPayload(formFromRunSnapshot(run.stored.snapshot)), run.corpus)

SubmissionNext ==
    \/ Restart
    \/ \E body \in Bodies : CreatePipelineProfile(body) \/ UpdatePipelineProfile(body)
    \/ \E form \in Forms : SaveForm(form)
    \/ DeletePipelineProfile
    \/ \E body \in Bodies, corpus \in Corpora : Submit(body, corpus)
    \/ \E corpus \in Corpora : SubmitTemplate(corpus)
    \/ Rerun

SubmissionSpec == SubmissionInit /\ [][SubmissionNext]_submissionVars

(***************************************************************************)
(* Properties.                                                             *)
(***************************************************************************)
Complete(config) ==
    /\ config \in ConfigSpace
    /\ ValidChunking(config.chunking)
    /\ config.top_k \in 1 .. MaxTopK
    /\ config.generation # Absent => ValidSection(config.generation)
    /\ config.judge # Absent => config.generation # Absent /\ ValidSection(config.judge)

\* Types: a stored template is complete and valid as it stands, whatever was
\* left out of the request: no blank text, no number missing.
SubmissionTypeOK ==
    /\ server \in Servers
    /\ template # Empty =>
          LET config == template.config
          IN  Complete([chunking   |-> config.chunking,
                        top_k      |-> config.retrieval.top_k,
                        generation |-> config.generation,
                        judge      |-> config.judge])
    /\ run # Empty => run.under \in Servers /\ run.corpus \in Corpora

\* process.md:634: what the preview says of a body is, to the letter, what the
\* server stores for it.  The preview resolves twice, the submission once.  And
\* the case page, which derives the collection from the stored snapshot later,
\* looks in the one that was announced.
PreviewForetells ==
    run # Empty => /\ Preview(run.body, run.under, run.corpus) = run.stored
                   /\ collectionNameOf(run) = run.stored.collection

\* A template means the same whatever the server's defaults became since it
\* was saved: submitted today, chunking, top_k, generation and judge are the
\* stored ones.  (Whether the stored ones are those of the page is
\* TemplateKeepsTopK.)
TemplateFrozen ==
    template # Empty =>
        LET config == Resolve(formToRunPayload(configToForm(template.config)), server)
        IN  /\ config # Rejected
            /\ config.generation = template.config.generation
            /\ config.judge = template.config.judge
            /\ config.chunking = template.config.chunking
            /\ config.top_k = template.config.retrieval.top_k

\* Re-running an old run repeats it to the letter under any defaults for
\* generation and judge, as long as the embedding is the same: a stage that
\* was off stays off, an explicit 0 or FALSE stays.
RerunReproduces ==
    (run # Empty /\ run.under.embedding = server.embedding) =>
        LET config == Resolve(formToRunPayload(formFromRunSnapshot(run.stored.snapshot)), server)
        IN  config # Rejected /\ Fingerprint(config, server, run.corpus) = run.stored

\* web/src/utils/profile.ts:39: what is saved from the form is what the form
\* says.  The page's top_k never arrives.
TemplateKeepsTopK ==
    (template # Empty /\ template.formTopK # Absent) =>
        template.config.retrieval.top_k = template.formTopK
=============================================================================
