------------------------------ MODULE Settings ------------------------------
(***************************************************************************)
(* Runtime settings, what follows them, and the reloading of files         *)
(* (src/journal/services/runtime_settings.py, services/reload.py, the      *)
(* wiring of mcp_server.py, and their endpoints in api.py and auth_api.py).*)
(*                                                                         *)
(* A setting is kept in a table and in a cache.  A change of the cache     *)
(* rebinds the part of a service that depends on it, attribute by          *)
(* attribute, on the event loop.  A part that is started again is built    *)
(* from the frozen configuration or from the settings, as _init_services   *)
(* has it.                                                                 *)
(***************************************************************************)
EXTENDS Integers, Sequences, FiniteSets

CONSTANTS
    Config,          \* the environment's value of every setting
    HasGoogleKey,    \* without it no Gemini provider can be built
    HasAnthropicKey, \* without it headings are not looked for
    Version,         \* contents the context and mood files may have
    Malformed,       \* the ones whose mood dimensions do not load
    First,           \* the contents the server was deployed with
    Patches          \* bodies of PATCH requests: sequences of changes

Switches == {"ocr_dual_pass", "enable_mood_scoring", "preprocess_images",
             "registration_enabled", "transcript_formatting",
             "date_heading_detection", "transcription_context_enabled"}
Key == Switches \cup {"ocr_provider"}
Single == {"anthropic", "gemini"}
Value == {"on", "off"} \cup Single

\* Variant: what a request says is taken as it is.
AnyValue(k, v) == TRUE

Valid(k, v) == IF k = "ocr_provider" THEN v \in Single ELSE v \in {"on", "off"}
On(s, k) == s[k] = "on"

ASSUME SettingsAssumption ==
    /\ Config \in [Key -> Value] /\ \A k \in Key : Valid(k, Config[k])
    /\ HasGoogleKey \in BOOLEAN /\ HasAnthropicKey \in BOOLEAN
    /\ Malformed \subseteq Version /\ First \in Version
    /\ "off" \notin Version
    /\ \A p \in Patches : p \in Seq(Key \X (Value \cup {"invalid"}))

Off == "off"
Provider == [kind : {"anthropic", "gemini", "both"}, context : Version]

\* The attributes of the services that settings and reloads rebind.
Services ==
    [ocr : Provider, transcription : [prompted : BOOLEAN, context : Version],
     ingestionMood : Version \cup {Off}, jobsMood : Version \cup {Off},
     preprocess : BOOLEAN, formatter : BOOLEAN, detector : BOOLEAN]

VARIABLES
    table,     \* runtime_settings
    cache,     \* its copy in memory
    services,  \* what the services hold
    files,     \* the context files and the mood dimensions on disk
    todo,      \* changes the handler of a PATCH has still to make
    writes,    \* attributes it has still to rebind
    up,        \* the server runs
    unsaved,   \* settings whose last write raised
    adrift,    \* settings that what they govern does not follow, and why
    budget     \* bound: requests, edits of files and restarts to come

settingsVars == <<table, cache, services, files, todo, writes, up,
                  unsaved, adrift, budget>>

-----------------------------------------------------------------------------
(* Building the parts.                                                     *)

OcrKind(s) == IF On(s, "ocr_dual_pass") THEN "both" ELSE s["ocr_provider"]

\* A Gemini client is not to be had without a key.
Buildable(s) == OcrKind(s) = "anthropic" \/ HasGoogleKey

BuildOcr(s) == [kind |-> OcrKind(s), context |-> files]

\* Whether Whisper is given a prompt is read from the configuration alone.
BuildTranscription ==
    [prompted |-> On(Config, "transcription_context_enabled"), context |-> files]

Detects(s) == On(s, "date_heading_detection") /\ HasAnthropicKey

\* The services as they are built at startup: OCR and mood scoring from the
\* configuration, before there are settings; the others from the settings.
Started(s) ==
    LET mood == IF On(Config, "enable_mood_scoring") THEN files ELSE Off
    IN  [ocr |-> BuildOcr(Config), transcription |-> BuildTranscription,
         ingestionMood |-> mood, jobsMood |-> mood,
         preprocess |-> On(s, "preprocess_images"),
         formatter |-> On(s, "transcript_formatting"),
         detector |-> Detects(s)]

\* Misconfigured mood dimensions keep the server from starting.
Startable ==
    /\ Buildable(Config)
    /\ On(Config, "enable_mood_scoring") => files \notin Malformed

Write(part, v) == <<[part |-> part, value |-> v]>>

\* Variant: the job runner keeps its service.
RebindIngestion(v) == Write("ingestionMood", v)

\* Both references are rebound, one after the other.
RebindMood(v) == Write("ingestionMood", v) \o Write("jobsMood", v)

-----------------------------------------------------------------------------
(* The side effects of a change.                                           *)

\* Variant: only the changed setting is laid over the configuration.
OverlaidAlone(k, v) == [Config EXCEPT ![k] = v]

\* The configuration with the changed setting and its companion.
Overlaid(k, v) ==
    LET other == IF k = "ocr_provider" THEN "ocr_dual_pass" ELSE "ocr_provider"
    IN  [Config EXCEPT ![k] = v, ![other] = cache[other]]

\* The rebuilding raises, and is reported as an error of the setting.
EffectFails(k, v) ==
    \/ k \in {"ocr_provider", "ocr_dual_pass"} /\ ~Buildable(Overlaid(k, v))
    \/ k = "enable_mood_scoring" /\ v = "on" /\ files \in Malformed

\* What is rebound, in order.  Two settings have no effect here.
Effect(k, v) ==
    CASE k \in {"ocr_provider", "ocr_dual_pass"} ->
            Write("ocr", BuildOcr(Overlaid(k, v)))
      [] k = "preprocess_images" -> Write("preprocess", v = "on")
      [] k = "enable_mood_scoring" -> RebindMood(IF v = "on" THEN files ELSE Off)
      [] k = "transcript_formatting" -> Write("formatter", v = "on")
      [] k = "date_heading_detection" -> Write("detector", v = "on" /\ HasAnthropicKey)
      [] OTHER -> <<>>

Follows(k) ==
    CASE k \in {"ocr_provider", "ocr_dual_pass"} ->
            services.ocr.kind = OcrKind(cache)
      [] k = "preprocess_images" -> services.preprocess = On(cache, k)
      [] k = "enable_mood_scoring" -> (services.ingestionMood # Off) = On(cache, k)
      [] k = "transcript_formatting" -> services.formatter = On(cache, k)
      [] k = "date_heading_detection" -> services.detector = Detects(cache)
      [] k = "transcription_context_enabled" ->
            services.transcription.prompted = On(cache, k)
      [] OTHER -> TRUE

-----------------------------------------------------------------------------
(* PATCH /api/settings/runtime.                                            *)

Spend(what) ==
    budget[what] > 0 /\ budget' = [budget EXCEPT ![what] = @ - 1]

Resting == up /\ todo = <<>> /\ writes = <<>>

\* The handlers of the event loop run one at a time.
BeginPatch(changes) ==
    /\ Resting
    /\ Spend("requests")
    /\ todo' = changes
    /\ UNCHANGED <<table, cache, services, files, writes, up, unsaved,
                   adrift>>

NextChange == up /\ writes = <<>> /\ todo # <<>> /\ todo' = Tail(todo)

\* A value that does not fit is reported, and the next is looked at.
RejectChange ==
    /\ NextChange
    /\ ~Valid(todo[1][1], todo[1][2])
    /\ UNCHANGED <<table, cache, services, files, writes, up, unsaved,
                   adrift, budget>>

\* The OCR provider follows two settings: built anew, it follows both again.
Companions(k) ==
    IF k \in {"ocr_provider", "ocr_dual_pass"}
    THEN {"ocr_provider", "ocr_dual_pass"} ELSE {k}

Saved(k, v) == [table EXCEPT ![k] = v]

\* Cache, table, and the side effect if the cache had another value.
ApplyChange ==
    /\ NextChange
    /\ LET k == todo[1][1]
           v == todo[1][2]
           changed == cache[k] # v
           fails == changed /\ EffectFails(k, v)
       IN  /\ Valid(k, v)
           /\ cache' = [cache EXCEPT ![k] = v]
           /\ table' = Saved(k, v)
           /\ writes' = IF changed /\ ~fails THEN Effect(k, v) ELSE <<>>
           /\ unsaved' = unsaved \ {k}
           /\ adrift' =
                IF ~changed THEN adrift
                ELSE IF fails \/ k = "transcription_context_enabled"
                THEN adrift \cup Companions(k)
                ELSE adrift \ Companions(k)
    /\ UNCHANGED <<services, files, up, budget>>

\* The cache is changed before the statement that raises; the request ends.
\* A later commit of somebody may keep what the statement has done.
ChangeRaises ==
    /\ up /\ writes = <<>> /\ todo # <<>>
    /\ Valid(todo[1][1], todo[1][2])
    /\ cache' = [cache EXCEPT ![todo[1][1]] = todo[1][2]]
    /\ unsaved' = unsaved \cup {todo[1][1]}
    /\ adrift' = IF cache' = cache THEN adrift
                 ELSE adrift \cup Companions(todo[1][1])
    /\ \E t \in {table, Saved(todo[1][1], todo[1][2])} : table' = t
    /\ todo' = <<>>
    /\ UNCHANGED <<services, files, writes, up, budget>>

Rebind ==
    /\ up /\ writes # <<>>
    /\ services' = [services EXCEPT ![writes[1].part] = writes[1].value]
    /\ writes' = Tail(writes)
    /\ UNCHANGED <<table, cache, files, todo, up, unsaved, adrift,
                   budget>>

-----------------------------------------------------------------------------
(* POST /api/admin/reload/...: the frozen configuration again, whatever    *)
(* the settings say.                                                       *)

Reload(effect, touched) ==
    /\ Resting
    /\ Spend("requests")
    /\ writes' = effect
    /\ adrift' = IF \A k \in touched : cache[k] = Config[k]
                 THEN adrift \ touched ELSE adrift \cup touched
    /\ UNCHANGED <<table, cache, services, files, todo, up, unsaved>>

ReloadOcr ==
    /\ Buildable(Config)
    /\ Reload(Write("ocr", BuildOcr(Config)), {"ocr_provider", "ocr_dual_pass"})

ReloadTranscription == Reload(Write("transcription", BuildTranscription), {})

\* A configuration without mood scoring, or a malformed file, is an error.
ReloadMood ==
    /\ On(Config, "enable_mood_scoring") /\ files \notin Malformed
    /\ Reload(RebindMood(files), {"enable_mood_scoring"})

EditFiles(v) ==
    /\ v # files
    /\ Spend("edits")
    /\ files' = v
    /\ UNCHANGED <<table, cache, services, todo, writes, up, unsaved,
                   adrift>>

-----------------------------------------------------------------------------
(* Stopping and starting.                                                  *)

Stop ==
    /\ up
    /\ Spend("restarts")
    /\ up' = FALSE /\ todo' = <<>> /\ writes' = <<>>
    /\ UNCHANGED <<table, cache, services, files, unsaved, adrift>>

\* Settings that a part built from the configuration alone disagrees with.
Overruled(s) ==
    {k \in {"ocr_provider", "ocr_dual_pass", "enable_mood_scoring",
            "transcription_context_enabled"} : s[k] # Config[k]}

Loaded(s) == s

\* The table is read into the cache: deployed once, it has every key.
Start ==
    /\ ~up /\ Startable
    /\ up' = TRUE
    /\ cache' = Loaded(table)
    /\ services' = Started(cache')
    /\ unsaved' = {}
    /\ adrift' = UNION {Companions(k) : k \in Overruled(table)}
    /\ UNCHANGED <<table, files, todo, writes, budget>>

-----------------------------------------------------------------------------
\* The first start seeds the table.
SettingsInit ==
    /\ files = First
    /\ table = Config /\ cache = Config
    /\ services = Started(Config)
    /\ todo = <<>> /\ writes = <<>>
    /\ up = TRUE /\ unsaved = {} /\ adrift = {}

SettingsMove ==
    \/ \E p \in Patches : BeginPatch(p)
    \/ RejectChange
    \/ Rebind
    \/ ReloadOcr
    \/ ReloadTranscription
    \/ ReloadMood
    \/ \E v \in Version : EditFiles(v)

-----------------------------------------------------------------------------
(* Properties.                                                             *)

SettingsType ==
    /\ table \in [Key -> Value] /\ cache \in [Key -> Value]
    /\ \A k \in Key : Valid(k, table[k]) /\ Valid(k, cache[k])
    /\ services \in Services
    /\ files \in Version /\ up \in BOOLEAN
    /\ todo \in Seq(Key \X (Value \cup {"invalid"}))
    /\ \A i \in 1..Len(writes) : writes[i].part \in DOMAIN services
    /\ unsaved \subseteq Key /\ adrift \subseteq Key

\* The parts of the running services follow the cached settings, through any
\* changes, reloads, errors and restarts, but for the settings in "adrift": a
\* rebuilding that raised, a write that raised, a reload or a start from a
\* configuration that says otherwise, and the one setting without an effect
\* (_on_runtime_setting_change, reload.py).  And a start will find them in the
\* table, but for those in "unsaved", whose last write raised (set, _load).
InForce ==
    up => /\ writes = <<>> => \A k \in Key \ adrift : Follows(k)
          /\ \A k \in Key \ unsaved : cache[k] = table[k]

\* Ingestion and the job runner score moods with the same dimensions, once a
\* handler has rebound both (reload_mood_dimensions, "keeping them in sync is
\* load-bearing").
MoodTogether ==
    up /\ writes = <<>> => services.ingestionMood = services.jobsMood

=============================================================================
