------------------------------ MODULE MCServer ------------------------------
(***************************************************************************)
(* Instances of Server for TLC.                                            *)
(***************************************************************************)
EXTENDS Server

\* Anthropic alone; everything else is on, but for dual-pass OCR.
Deployed == [k \in Key |->
    IF k = "ocr_provider" THEN "anthropic" 
    ELSE IF k = "ocr_dual_pass" THEN "off" ELSE "on"]

\* Contents of the files: two that load, and one that does not.
Contents == {"v1", "v2", "broken"}
Broken == {"broken"}

\* Two changes in a request; one of them invalid; a setting without effect.
Bodies == {<<<<"ocr_provider", "gemini">>, <<"ocr_dual_pass", "on">>>>,
           <<<<"ocr_dual_pass", "off">>>>,
           <<<<"enable_mood_scoring", "off">>, <<"ocr_provider", "invalid">>>>,
           <<<<"enable_mood_scoring", "on">>>>,
           <<<<"transcription_context_enabled", "off">>,
             <<"preprocess_images", "off">>,
             <<"transcript_formatting", "off">>>>,
           <<<<"date_heading_detection", "off">>,
             <<"registration_enabled", "off">>>>}

Checks == <<"sqlite", "chromadb", "disk">>
Users == {1, 2}

\* Mostly settings; settings and an outage; outages; notices.
Load(requests, edits, restarts, healths, jobs, changes) ==
    [budget |-> [requests |-> requests, edits |-> edits, restarts |-> restarts],
     chances |-> [health |-> healths, jobs |-> jobs, changes |-> changes]]
Mixed == {Load(3, 1, 1, 0, 0, 0), Load(2, 1, 1, 1, 0, 0),
          Load(0, 0, 1, 3, 0, 1), Load(0, 0, 0, 2, 1, 2)}
=============================================================================
