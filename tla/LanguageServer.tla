----------------------------- MODULE LanguageServer -----------------------------
(***************************************************************************)
(* The language server's Backend and one file an editor has open           *)
(* (mdix-lsp/src/server.rs).                                               *)
(*                                                                         *)
(* The handlers of the editor's messages run on one task, each without     *)
(* interruption up to its first await; the analyses they start run on      *)
(* other threads and swap their Document in when they are done.  A text is *)
(* a number, counted up with every message that brings one; the version is *)
(* the editor's, and starts again at 1 when the file is opened again.      *)
(***************************************************************************)
EXTENDS Naturals

CONSTANT MaxTexts   \* bound: texts the editor sends

ASSUME MaxTextsAssumption == MaxTexts \in Nat \ {0}

VARIABLES
  open, text, version,   \* the editor: is the file open, its text, the version
  documents,             \* documents[uri], or Absent
  pending_versions,      \* pending_versions[uri], or NoVersion
  analysis_tasks,        \* the analyses that have not ended
  shown,                 \* the text whose diagnostics the editor shows
  handler,               \* where the server's task is
  request,               \* the request of the editor being served
  shutdown_requested,
  raced,                 \* history: a message overtook an analysis that had passed its check
  lost                   \* history: the analysis of the current text was given up

editor == <<open, text, version>>
vars   == <<editor, documents, pending_versions, analysis_tasks, shown, handler,
            request, shutdown_requested, raced, lost>>

Texts     == 1..MaxTexts
NoText    == 0
NoVersion == 0
Document  == [text : Texts, version : Texts]
Absent    == [text |-> NoText, version |-> NoVersion]
Places    == {"running", "insert", "publish"}
Task      == [doc : Document, at : Places]
Request   == [at     : {"none", "waiting", "ready", "answered"},
              want   : Texts \cup {NoVersion},
              asked  : Texts \cup {NoText},
              fresh  : BOOLEAN,
              answer : Document \cup {Absent}]
Handlers  == {"free", "removed_document", "removed_version", "answering"}

Init ==
  /\ open = FALSE /\ text = NoText /\ version = NoVersion
  /\ documents = Absent /\ pending_versions = NoVersion
  /\ analysis_tasks = {} /\ shown = NoText
  /\ handler = "free"
  /\ request = [at |-> "none", want |-> NoVersion, asked |-> NoText,
                fresh |-> FALSE, answer |-> Absent]
  /\ shutdown_requested = FALSE /\ raced = FALSE /\ lost = FALSE

-----------------------------------------------------------------------------
(* Messages about the text. *)

\* spawn_analysis of the text n at version v.
SpawnAnalysis(n, v) ==
  IF shutdown_requested
  THEN UNCHANGED <<pending_versions, analysis_tasks>>
  ELSE /\ pending_versions' = v
       /\ analysis_tasks' =
            analysis_tasks \cup {[doc |-> [text |-> n, version |-> v], at |-> "running"]}

\* The editor's next text, at version v.
Send(v) ==
  /\ handler = "free" /\ text < MaxTexts
  /\ text' = text + 1 /\ version' = v
  /\ SpawnAnalysis(text + 1, v)
  /\ raced' = (raced \/ \E t \in analysis_tasks : t.at # "running")
  /\ lost' = shutdown_requested
  /\ UNCHANGED <<documents, shown, handler, request, shutdown_requested>>

DidOpen   == ~open /\ open' = TRUE /\ Send(1)
DidChange == open /\ Send(version + 1) /\ UNCHANGED open

\* did_close up to each of its three accesses to what other threads see.
DidClose ==
  /\ open /\ handler = "free"
  /\ open' = FALSE
  /\ documents' = Absent
  /\ handler' = "removed_document"
  /\ raced' = (raced \/ analysis_tasks # {})
  /\ UNCHANGED <<text, version, pending_versions, analysis_tasks, shown, request,
                 shutdown_requested, lost>>

RemovePending ==
  /\ handler = "removed_document"
  /\ pending_versions' = NoVersion
  /\ handler' = "removed_version"
  /\ UNCHANGED <<editor, documents, analysis_tasks, shown, request,
                 shutdown_requested, raced, lost>>

ClearDiagnostics ==
  /\ handler = "removed_version"
  /\ shown' = NoText
  /\ handler' = "free"
  /\ UNCHANGED <<editor, documents, pending_versions, analysis_tasks, request,
                 shutdown_requested, raced, lost>>

-----------------------------------------------------------------------------
(* Analyses. *)

Replace(t, S) == analysis_tasks' = (analysis_tasks \ {t}) \cup S

\* Faulty variants: a result is kept whatever came after it; a result is kept
\* only when it is newer than the version on record, which is its own.
KeepAny(t) ==
  /\ t.at = "running"
  /\ Replace(t, {[t EXCEPT !.at = "insert"]})
  /\ UNCHANGED <<editor, documents, pending_versions, shown, handler, request,
                 shutdown_requested, raced, lost>>

KeepNewer(t) ==
  /\ t.at = "running"
  /\ Replace(t, IF t.doc.version > pending_versions
                THEN {[t EXCEPT !.at = "insert"]} ELSE {})
  /\ UNCHANGED <<editor, documents, pending_versions, shown, handler, request,
                 shutdown_requested, raced, lost>>

\* `if ver >= latest`, where a version that is not on record counts as ver.
CheckVersion(t) ==
  /\ t.at = "running"
  /\ Replace(t, IF pending_versions = NoVersion \/ t.doc.version >= pending_versions
                THEN {[t EXCEPT !.at = "insert"]} ELSE {})
  /\ UNCHANGED <<editor, documents, pending_versions, shown, handler, request,
                 shutdown_requested, raced, lost>>

InsertDocument(t) ==
  /\ t.at = "insert"
  /\ documents' = t.doc
  /\ Replace(t, {[t EXCEPT !.at = "publish"]})
  /\ UNCHANGED <<editor, pending_versions, shown, handler, request,
                 shutdown_requested, raced, lost>>

\* publish_diagnostics puts the notification in the client's queue at its first
\* poll: nothing can abort the analysis before that.
PublishDiagnostics(t) ==
  /\ t.at = "publish"
  /\ shown' = t.doc.text
  /\ Replace(t, {})
  /\ UNCHANGED <<editor, documents, pending_versions, handler, request,
                 shutdown_requested, raced, lost>>

\* The analysis ends without a result: it panicked, ran out of its ten seconds,
\* or was aborted by the shutdown while it waited for the pipeline.
GiveUpAnalysis(t) ==
  /\ t.at = "running"
  /\ Replace(t, {})
  /\ lost' = (lost \/ t.doc.text = text)
  /\ UNCHANGED <<editor, documents, pending_versions, shown, handler, request,
                 shutdown_requested, raced>>

Analyze ==
  \E t \in analysis_tasks :
    CheckVersion(t) \/ InsertDocument(t) \/ PublishDiagnostics(t) \/ GiveUpAnalysis(t)

-----------------------------------------------------------------------------
(* Requests: completion, hover and signature_help wait for a fresh document; *)
(* the others read what there is.                                            *)

\* The protocol has no requests after shutdown.
Idle ==
  /\ handler = "free" /\ request.at \in {"none", "answered"}
  /\ ~shutdown_requested

UnlessRequest == UNCHANGED <<editor, documents, pending_versions, analysis_tasks, shown,
                             shutdown_requested, raced, lost>>

\* wait_for_latest
AskLatest ==
  /\ Idle /\ open
  /\ request' = [at |-> "waiting", want |-> pending_versions, asked |-> text,
                 fresh |-> FALSE, answer |-> Absent]
  /\ UNCHANGED handler /\ UnlessRequest

AskAtOnce ==
  /\ Idle /\ open
  /\ request' = [at |-> "ready", want |-> NoVersion, asked |-> text,
                 fresh |-> FALSE, answer |-> Absent]
  /\ handler' = "answering" /\ UnlessRequest

\* Faulty variant: any document is fresh enough.
SeeAny ==
  /\ request.at = "waiting" /\ handler = "free"
  /\ documents # Absent
  /\ request' = [request EXCEPT !.at = "ready", !.fresh = TRUE]
  /\ handler' = "answering" /\ UnlessRequest

\* One round of wait_for_fresh_document's loop finds the version.
SeeFresh ==
  /\ request.at = "waiting" /\ handler = "free"
  /\ request.want # NoVersion
  /\ documents # Absent /\ documents.version >= request.want
  /\ request' = [request EXCEPT !.at = "ready", !.fresh = TRUE]
  /\ handler' = "answering" /\ UnlessRequest

\* There is nothing to wait for, or the 400 ms are over.
StopWaiting ==
  /\ request.at = "waiting" /\ handler = "free"
  /\ request' = [request EXCEPT !.at = "ready"]
  /\ handler' = "answering" /\ UnlessRequest

\* The handler reads the document, again.
Answer ==
  /\ request.at = "ready"
  /\ request' = [request EXCEPT !.at = "answered", !.answer = documents]
  /\ handler' = "free" /\ UnlessRequest

Shutdown ==
  /\ handler = "free" /\ ~shutdown_requested
  /\ shutdown_requested' = TRUE
  /\ UNCHANGED <<editor, documents, pending_versions, analysis_tasks, shown, handler,
                 request, raced, lost>>

Serve == RemovePending \/ ClearDiagnostics \/ SeeFresh \/ StopWaiting \/ Answer

Next ==
  \/ DidOpen \/ DidChange \/ DidClose \/ Shutdown
  \/ AskLatest \/ AskAtOnce
  \/ Serve \/ Analyze

\* The runtime runs what can run; the editor may stop sending at any moment.
Spec == Init /\ [][Next]_vars /\ WF_vars(Serve) /\ WF_vars(Analyze)

-----------------------------------------------------------------------------
\* The types, and where the server's task can be.
TypeOK ==
  /\ open \in BOOLEAN /\ text \in Texts \cup {NoText} /\ version \in 0..text
  /\ documents \in Document \cup {Absent}
  /\ pending_versions \in Texts \cup {NoVersion}
  /\ analysis_tasks \subseteq Task
  /\ shown \in Texts \cup {NoText}
  /\ handler \in Handlers /\ request \in Request
  /\ shutdown_requested \in BOOLEAN /\ raced \in BOOLEAN /\ lost \in BOOLEAN
  /\ handler = "answering" <=> request.at = "ready"

Quiet == handler = "free" /\ analysis_tasks = {}

(* When all is quiet the server's document and the editor's squiggles are    *)
(* those of the current text, in whatever order the analyses of a burst of   *)
(* edits ended, and nothing is left of a closed file.  Two things are        *)
(* excepted: the current text's analysis was given up, and a message came    *)
(* between an analysis's check of its version and its last step (or the file *)
(* was closed over one): the check and the swap are not one step.            *)
QuietIsCurrent ==
  Quiet /\ ~raced /\ ~lost =>
    /\ documents.text = (IF open THEN text ELSE NoText)
    /\ shown = documents.text

(* An answer whose wait ended because the document was fresh is made from a  *)
(* text at least as new as the one on the screen when the request came.      *)
FreshAnswerIsNew ==
  request.at = "answered" /\ request.fresh /\ ~raced => request.answer.text >= request.asked

(* Every text gets its diagnostics on the screen, unless another text or the *)
(* end of the file or of the server comes first, its analysis is given up or *)
(* an older one was overtaken after its check (QuietIsCurrent's exception).  *)
EveryTextIsAnswered ==
  \A n \in Texts :
    (open /\ text = n) ~>
      (shown = n \/ text # n \/ ~open \/ shutdown_requested \/ lost \/ raced)

=============================================================================
