------------------------------ MODULE HostsProofs ------------------------------
(***************************************************************************)
(* What holds of two programs that the compiler runs in, for any numbers   *)
(* of texts, threads, handles and saves.                                   *)
(*                                                                         *)
(* The language server: its types, that a quiet server shows the current   *)
(* text (QuietIsCurrent), and that an answer that waited for its document  *)
(* is made from it (FreshAnswerIsNew).  A text is told from the others by  *)
(* its number, which no closing resets, and the server tells documents     *)
(* apart by the version, which starts again with each opening.  What ties  *)
(* the two together is the session: as long as no message has overtaken an *)
(* analysis, all analyses and the document are of the file's present       *)
(* opening, so that text and version differ by the number of texts sent    *)
(* before it.                                                              *)
(*                                                                         *)
(* The C# database: its types, that a getter calls on a live handle        *)
(* (CallsOnLive), that every handle is freed in the end (NothingLeaks) and *)
(* every save served (SavesAreServed).  The argument is in the comments on *)
(* its invariants, further down.                                           *)
(***************************************************************************)
EXTENDS LanguageServer, CsDatabase, FiniteSetTheorems, TLAPS

Closing == handler \in {"removed_document", "removed_version"}

\* Where the editor and the server's task can be with one another.
HandlerInv ==
  /\ open => version # NoVersion /\ ~Closing
  /\ handler = "answering" <=> request.at = "ready"

\* The version on record is the editor's, but for what comes after a shutdown.
PendingInv ==
  /\ open => pending_versions <= version
  /\ open /\ (~shutdown_requested \/ ~lost) => pending_versions = version
  /\ ~open /\ handler # "removed_document" => pending_versions = NoVersion

\* d is of the file's present opening.
InSession(d) == d.text + version = d.version + text /\ d.version <= version

(* Nothing is left of an earlier opening, and the analyses that have passed  *)
(* their check are of no older version than the one on record.               *)
SessionInv ==
  ~raced =>
    /\ ~open => /\ analysis_tasks = {} /\ documents = Absent
                /\ ~Closing => shown = NoText
    /\ documents # Absent => InSession(documents)
    /\ \A t \in analysis_tasks :
         InSession(t.doc) /\ (t.at # "running" => t.doc.version >= pending_versions)

\* The current text is on the screen, or its analysis is under way.
CurrentInv ==
  ~raced /\ ~lost /\ open =>
    /\ \A t \in analysis_tasks : t.at = "publish" => documents.text = text
    /\ \/ \E t \in analysis_tasks : t.doc.text = text
       \/ documents.text = text /\ shown = text

(* A request that waits was made in an earlier opening of the file, or for a *)
(* version that is on record still, or a newer one is.                       *)
AskedBefore == request.asked + version <= text
AskedNow    == request.asked + version = request.want + text /\ request.want <= pending_versions

RequestInv ==
  /\ request.asked <= text
  /\ request.fresh => request.want # NoVersion /\ request.at # "waiting"
  /\ ~raced /\ open /\ request.at \in {"waiting", "ready"} /\ request.want # NoVersion =>
       AskedBefore \/ AskedNow
  /\ ~raced /\ request.at = "ready" /\ request.fresh => documents.text >= request.asked
  /\ FreshAnswerIsNew

IInv == TypeOK /\ HandlerInv /\ PendingInv /\ SessionInv /\ CurrentInv /\ RequestInv

-----------------------------------------------------------------------------
\* What a task is made of, and what moving it changes.
LEMMA TaskFacts ==
  ASSUME NEW t \in Task
  PROVE  /\ t.doc \in Document /\ t.at \in Places
         /\ t.doc.text \in Nat \ {0} /\ t.doc.text <= MaxTexts
         /\ t.doc.version \in Nat \ {0} /\ t.doc.version <= MaxTexts
  BY DEF Texts, Task, Document

LEMMA TaskMoves ==
  ASSUME NEW t \in Task, NEW p \in Places
  PROVE  /\ [t EXCEPT !.at = p] \in Task
         /\ [t EXCEPT !.at = p].doc = t.doc
         /\ [t EXCEPT !.at = p].at = p
  BY DEF Task

\* Every step keeps the types.
LEMMA TypePreserved ==
  ASSUME TypeOK, [Next]_vars
  PROVE  TypeOK'
<1>1. CASE DidOpen
  BY <1>1, MaxTextsAssumption DEF TypeOK, Texts, Task, Document, Places, Send,
     SpawnAnalysis, DidOpen
<1>2. CASE DidChange
  BY <1>2, MaxTextsAssumption DEF TypeOK, Texts, Task, Document, Places, Send,
     SpawnAnalysis, DidChange
<1>3. CASE DidClose
  BY <1>3 DEF TypeOK, NoVersion, editor, Task, Handlers, DidClose
<1>4. CASE RemovePending
  BY <1>4 DEF TypeOK, editor, Handlers, RemovePending
<1>5. CASE ClearDiagnostics
  BY <1>5 DEF TypeOK, editor, Handlers, ClearDiagnostics
<1>6. ASSUME NEW t \in analysis_tasks, CheckVersion(t) PROVE TypeOK'
  BY <1>6 DEF TypeOK, editor, Task, Places, Replace, CheckVersion
<1>7. ASSUME NEW t \in analysis_tasks, InsertDocument(t) PROVE TypeOK'
  BY <1>7 DEF TypeOK, editor, Task, Places, Replace, InsertDocument
<1>8. ASSUME NEW t \in analysis_tasks, PublishDiagnostics(t) PROVE TypeOK'
  BY <1>8, TaskFacts DEF TypeOK, editor, Document, Replace, PublishDiagnostics
<1>9. ASSUME NEW t \in analysis_tasks, GiveUpAnalysis(t) PROVE TypeOK'
  BY <1>9 DEF TypeOK, editor, Replace, GiveUpAnalysis
<1>10. CASE AskLatest
  BY <1>10 DEF TypeOK, editor, Request, UnlessRequest, Idle, AskLatest
<1>11. CASE AskAtOnce
  BY <1>11 DEF TypeOK, editor, Request, Handlers, UnlessRequest, AskAtOnce
<1>12. CASE SeeFresh
  BY <1>12 DEF TypeOK, editor, Request, Handlers, UnlessRequest, SeeFresh
<1>13. CASE StopWaiting
  BY <1>13 DEF TypeOK, editor, Request, Handlers, UnlessRequest, StopWaiting
<1>14. CASE Answer
  BY <1>14 DEF TypeOK, editor, Request, Handlers, UnlessRequest, Answer
<1>15. CASE Shutdown
  BY <1>15 DEF TypeOK, editor, Shutdown
<1>16. CASE UNCHANGED vars
  BY <1>16 DEF TypeOK, editor, vars
<1> QED
  BY <1>1, <1>2, <1>3, <1>4, <1>5, <1>6, <1>7, <1>8, <1>9, <1>10, <1>11, <1>12,
     <1>13, <1>14, <1>15, <1>16 DEF Next, Serve, Analyze

\* The server's task closes only closed files, and answers only requests that are ready.
LEMMA HandlerPreserved ==
  ASSUME TypeOK, HandlerInv, [Next]_vars
  PROVE  HandlerInv'
<1>1. CASE DidOpen
  BY <1>1 DEF NoVersion, Closing, HandlerInv, Send, DidOpen
<1>2. CASE DidChange
  BY <1>2 DEF TypeOK, NoVersion, Closing, HandlerInv, Send, DidChange
<1>3. CASE DidClose
  BY <1>3 DEF HandlerInv, DidClose
<1>4. CASE RemovePending
  BY <1>4 DEF editor, Closing, HandlerInv, RemovePending
<1>5. CASE ClearDiagnostics
  BY <1>5 DEF editor, Closing, HandlerInv, ClearDiagnostics
<1>6. ASSUME NEW t \in analysis_tasks, CheckVersion(t) PROVE HandlerInv'
  BY <1>6 DEF editor, Closing, HandlerInv, CheckVersion
<1>7. ASSUME NEW t \in analysis_tasks, InsertDocument(t) PROVE HandlerInv'
  BY <1>7 DEF editor, Closing, HandlerInv, InsertDocument
<1>8. ASSUME NEW t \in analysis_tasks, PublishDiagnostics(t) PROVE HandlerInv'
  BY <1>8 DEF editor, Closing, HandlerInv, PublishDiagnostics
<1>9. ASSUME NEW t \in analysis_tasks, GiveUpAnalysis(t) PROVE HandlerInv'
  BY <1>9 DEF editor, Closing, HandlerInv, GiveUpAnalysis
<1>10. CASE AskLatest
  BY <1>10 DEF editor, Closing, HandlerInv, UnlessRequest, Idle, AskLatest
<1>11. CASE AskAtOnce
  BY <1>11 DEF editor, Closing, HandlerInv, UnlessRequest, AskAtOnce
<1>12. CASE SeeFresh
  BY <1>12 DEF editor, Closing, HandlerInv, UnlessRequest, SeeFresh
<1>13. CASE StopWaiting
  BY <1>13 DEF editor, Closing, HandlerInv, UnlessRequest, StopWaiting
<1>14. CASE Answer
  BY <1>14 DEF editor, Closing, HandlerInv, UnlessRequest, Answer
<1>15. CASE Shutdown
  BY <1>15 DEF editor, Closing, HandlerInv, Shutdown
<1>16. CASE UNCHANGED vars
  BY <1>16 DEF editor, Closing, HandlerInv, vars
<1> QED
  BY <1>1, <1>2, <1>3, <1>4, <1>5, <1>6, <1>7, <1>8, <1>9, <1>10, <1>11, <1>12,
     <1>13, <1>14, <1>15, <1>16 DEF Next, Serve, Analyze

\* Before a shutdown the version on record is the one of the last message.
LEMMA PendingPreserved ==
  ASSUME TypeOK, HandlerInv, PendingInv, [Next]_vars
  PROVE  PendingInv'
<1>1. CASE DidOpen
  BY <1>1 DEF NoVersion, PendingInv, Send, SpawnAnalysis, DidOpen
<1>2. CASE DidChange
  BY <1>2 DEF TypeOK, Texts, PendingInv, Send, SpawnAnalysis, DidChange
<1>3. CASE DidClose
  BY <1>3 DEF PendingInv, DidClose
<1>4. CASE RemovePending
  BY <1>4 DEF editor, Closing, HandlerInv, PendingInv, RemovePending
<1>5. CASE ClearDiagnostics
  BY <1>5 DEF editor, PendingInv, ClearDiagnostics
<1>6. ASSUME NEW t \in analysis_tasks, CheckVersion(t) PROVE PendingInv'
  BY <1>6 DEF editor, PendingInv, CheckVersion
<1>7. ASSUME NEW t \in analysis_tasks, InsertDocument(t) PROVE PendingInv'
  BY <1>7 DEF editor, PendingInv, InsertDocument
<1>8. ASSUME NEW t \in analysis_tasks, PublishDiagnostics(t) PROVE PendingInv'
  BY <1>8 DEF editor, PendingInv, PublishDiagnostics
<1>9. ASSUME NEW t \in analysis_tasks, GiveUpAnalysis(t) PROVE PendingInv'
  BY <1>9 DEF editor, PendingInv, GiveUpAnalysis
<1>10. CASE AskLatest
  BY <1>10 DEF editor, PendingInv, UnlessRequest, AskLatest
<1>11. CASE AskAtOnce
  BY <1>11 DEF editor, PendingInv, UnlessRequest, AskAtOnce
<1>12. CASE SeeFresh
  BY <1>12 DEF editor, PendingInv, UnlessRequest, SeeFresh
<1>13. CASE StopWaiting
  BY <1>13 DEF editor, PendingInv, UnlessRequest, StopWaiting
<1>14. CASE Answer
  BY <1>14 DEF editor, HandlerInv, PendingInv, UnlessRequest, Answer
<1>15. CASE Shutdown
  BY <1>15 DEF editor, PendingInv, Shutdown
<1>16. CASE UNCHANGED vars
  BY <1>16 DEF editor, PendingInv, vars
<1> QED
  BY <1>1, <1>2, <1>3, <1>4, <1>5, <1>6, <1>7, <1>8, <1>9, <1>10, <1>11, <1>12,
     <1>13, <1>14, <1>15, <1>16 DEF Next, Serve, Analyze

\* A message that finds an analysis after its check, or closes the file over one, is
\* a race; every other step keeps the analyses and the document in the session.
LEMMA SessionPreserved ==
  ASSUME TypeOK, HandlerInv, PendingInv, SessionInv, [Next]_vars
  PROVE  SessionInv'
<1>1. CASE DidOpen
  BY <1>1 DEF TypeOK, SessionInv, InSession, Send, SpawnAnalysis, DidOpen
<1>2. CASE DidChange
  <2> SUFFICES ASSUME ~raced' PROVE SessionInv'
    BY DEF SessionInv
  <2>1. /\ ~raced /\ open /\ open' /\ documents' = documents
        /\ \A t \in analysis_tasks : t.at = "running"
        /\ text' = text + 1 /\ version' = version + 1
    BY <1>2 DEF Send, DidChange
  <2>2. documents # Absent => InSession(documents)'
    BY <2>1 DEF TypeOK, Texts, Document, SessionInv, InSession
  <2>3. ASSUME NEW t \in analysis_tasks'
        PROVE  InSession(t.doc)' /\ (t.at # "running" => t.doc.version >= pending_versions')
    <3>1. CASE t \in analysis_tasks
      BY <2>1, <3>1, TaskFacts DEF TypeOK, Texts, NoText, SessionInv, InSession
    <3>2. CASE t = [doc |-> [text |-> text + 1, version |-> version + 1], at |-> "running"]
      BY <2>1, <3>2 DEF InSession
    <3> QED  BY <1>2, <2>3, <3>1, <3>2 DEF Send, SpawnAnalysis, DidChange
  <2> QED  BY <2>1, <2>2, <2>3 DEF SessionInv
<1>3. CASE DidClose
  BY <1>3 DEF Closing, SessionInv, DidClose
<1>4. CASE RemovePending
  BY <1>4 DEF Closing, HandlerInv, SessionInv, RemovePending
<1>5. CASE ClearDiagnostics
  BY <1>5 DEF Closing, HandlerInv, SessionInv, ClearDiagnostics
<1>6. ASSUME NEW t \in analysis_tasks, CheckVersion(t) PROVE SessionInv'
  BY <1>6, TaskFacts DEF TypeOK, NoVersion, editor, Task, SessionInv, InSession,
     Replace, CheckVersion
<1>7. ASSUME NEW t \in analysis_tasks, InsertDocument(t) PROVE SessionInv'
  BY <1>7 DEF TypeOK, editor, Task, SessionInv, InSession, Replace, InsertDocument
<1>8. ASSUME NEW t \in analysis_tasks, PublishDiagnostics(t) PROVE SessionInv'
  BY <1>8 DEF editor, SessionInv, InSession, Replace, PublishDiagnostics
<1>9. ASSUME NEW t \in analysis_tasks, GiveUpAnalysis(t) PROVE SessionInv'
  BY <1>9 DEF editor, SessionInv, InSession, Replace, GiveUpAnalysis
<1>10. CASE AskLatest
  BY <1>10 DEF editor, SessionInv, InSession, UnlessRequest, AskLatest
<1>11. CASE AskAtOnce
  BY <1>11 DEF editor, SessionInv, InSession, UnlessRequest, AskAtOnce
<1>12. CASE SeeFresh
  BY <1>12 DEF editor, SessionInv, InSession, UnlessRequest, SeeFresh
<1>13. CASE StopWaiting
  BY <1>13 DEF editor, Closing, SessionInv, InSession, UnlessRequest, StopWaiting
<1>14. CASE Answer
  BY <1>14 DEF editor, Closing, HandlerInv, SessionInv, InSession, UnlessRequest,
     Answer
<1>15. CASE Shutdown
  BY <1>15 DEF editor, Closing, SessionInv, InSession, Shutdown
<1>16. CASE UNCHANGED vars
  BY <1>16 DEF editor, Closing, SessionInv, InSession, vars
<1> QED
  BY <1>1, <1>2, <1>3, <1>4, <1>5, <1>6, <1>7, <1>8, <1>9, <1>10, <1>11, <1>12,
     <1>13, <1>14, <1>15, <1>16 DEF Next, Serve, Analyze

\* The current text's analysis passes its check and is then the last to be installed:
\* what overwrites its document is of its own version.
LEMMA CurrentPreserved ==
  ASSUME TypeOK, HandlerInv, PendingInv, SessionInv, CurrentInv, [Next]_vars
  PROVE  CurrentInv'
<1>1. CASE DidOpen
  <2> SUFFICES ASSUME ~raced', ~lost' PROVE CurrentInv'
    BY DEF CurrentInv
  <2>1. /\ ~shutdown_requested /\ text' = text + 1
        /\ \A t \in analysis_tasks : t.at = "running"
    BY <1>1 DEF Send, DidOpen
  <2> DEFINE new == [doc |-> [text |-> text', version |-> version'], at |-> "running"]
  <2>2. analysis_tasks' = analysis_tasks \cup {new}
    BY <1>1, <2>1 DEF Send, SpawnAnalysis, DidOpen
  <2>3. new.at = "running" /\ new.doc.text = text'
    OBVIOUS
  <2> QED  BY <2>1, <2>2, <2>3 DEF CurrentInv
<1>2. CASE DidChange
  <2> SUFFICES ASSUME ~raced', ~lost' PROVE CurrentInv'
    BY DEF CurrentInv
  <2>1. /\ ~shutdown_requested /\ text' = text + 1
        /\ \A t \in analysis_tasks : t.at = "running"
    BY <1>2 DEF Send, DidChange
  <2> DEFINE new == [doc |-> [text |-> text', version |-> version'], at |-> "running"]
  <2>2. analysis_tasks' = analysis_tasks \cup {new}
    BY <1>2, <2>1 DEF Send, SpawnAnalysis, DidChange
  <2>3. new.at = "running" /\ new.doc.text = text'
    OBVIOUS
  <2> QED  BY <2>1, <2>2, <2>3 DEF CurrentInv
<1>3. CASE DidClose
  BY <1>3 DEF CurrentInv, DidClose
<1>4. CASE RemovePending
  BY <1>4 DEF editor, CurrentInv, RemovePending
<1>5. CASE ClearDiagnostics
  BY <1>5 DEF editor, Closing, HandlerInv, CurrentInv, ClearDiagnostics
<1>6. ASSUME NEW t \in analysis_tasks, CheckVersion(t) PROVE CurrentInv'
  <2> SUFFICES ASSUME ~raced, ~lost, open PROVE CurrentInv'
    BY <1>6 DEF editor, CurrentInv, CheckVersion
  <2> DEFINE kept == [t EXCEPT !.at = "insert"]
  <2>1. t \in Task /\ kept.at = "insert" /\ kept.doc = t.doc
    BY DEF TypeOK
  <2>2. /\ documents' = documents /\ text' = text /\ shown' = shown
        /\ analysis_tasks' \in {(analysis_tasks \ {t}) \cup {kept}, analysis_tasks \ {t}}
    BY <1>6 DEF editor, Replace, CheckVersion
  <2>3. ASSUME NEW u \in analysis_tasks', u.at = "publish" PROVE documents.text = text
    BY <2>1, <2>2, <2>3 DEF CurrentInv
  <2>4. t.doc.text = text => analysis_tasks' = (analysis_tasks \ {t}) \cup {kept}
    <3>1. pending_versions = version
      BY DEF PendingInv
    <3>2. t.doc.text = text => t.doc.version >= version
      BY <2>1, TaskFacts DEF TypeOK, SessionInv, InSession
    <3> QED  BY <1>6, <3>1, <3>2 DEF Replace, CheckVersion
  <2>5. (\E u \in analysis_tasks' : u.doc.text = text) \/ (documents.text = text /\ shown = text)
    <3>1. CASE t.doc.text = text
      <4>1. kept \in analysis_tasks' /\ kept.doc.text = text
        BY <2>1, <2>4, <3>1
      <4> HIDE DEF kept
      <4> QED  BY <4>1
    <3>2. CASE t.doc.text # text
      BY <2>2, <3>2 DEF CurrentInv
    <3> QED  BY <3>1, <3>2
  <2> QED  BY <2>2, <2>3, <2>5 DEF CurrentInv
<1>7. ASSUME NEW t \in analysis_tasks, InsertDocument(t) PROVE CurrentInv'
  <2> SUFFICES ASSUME ~raced, ~lost, open PROVE CurrentInv'
    BY <1>7 DEF editor, CurrentInv, InsertDocument
  <2> DEFINE inserted == [t EXCEPT !.at = "publish"]
  <2>1. t \in Task /\ inserted.doc = t.doc
    BY DEF TypeOK
  <2>2. inserted \in analysis_tasks' /\ documents' = t.doc /\ text' = text
    BY <1>7 DEF editor, Replace, InsertDocument
  <2>3. t.doc.version >= version
    BY <1>7 DEF PendingInv, SessionInv, InsertDocument
  <2>4. t.doc.text = text
    BY <2>1, <2>3, TaskFacts DEF TypeOK, Texts, NoText, SessionInv, InSession
  <2> HIDE DEF inserted
  <2> QED  BY <2>1, <2>2, <2>4 DEF CurrentInv
<1>8. ASSUME NEW t \in analysis_tasks, PublishDiagnostics(t) PROVE CurrentInv'
  BY <1>8, TaskFacts DEF TypeOK, editor, Texts, NoText, PendingInv, SessionInv,
     InSession, CurrentInv, PublishDiagnostics
<1>9. ASSUME NEW t \in analysis_tasks, GiveUpAnalysis(t) PROVE CurrentInv'
  BY <1>9 DEF editor, Replace, CurrentInv, GiveUpAnalysis
<1>10. CASE AskLatest
  BY <1>10 DEF editor, UnlessRequest, CurrentInv, AskLatest
<1>11. CASE AskAtOnce
  BY <1>11 DEF editor, UnlessRequest, CurrentInv, AskAtOnce
<1>12. CASE SeeFresh
  BY <1>12 DEF editor, UnlessRequest, CurrentInv, SeeFresh
<1>13. CASE StopWaiting
  BY <1>13 DEF editor, UnlessRequest, CurrentInv, StopWaiting
<1>14. CASE Answer
  BY <1>14 DEF editor, UnlessRequest, CurrentInv, Answer
<1>15. CASE Shutdown
  BY <1>15 DEF editor, CurrentInv, Shutdown
<1>16. CASE UNCHANGED vars
  BY <1>16 DEF editor, CurrentInv, vars
<1> QED
  BY <1>1, <1>2, <1>3, <1>4, <1>5, <1>6, <1>7, <1>8, <1>9, <1>10, <1>11, <1>12,
     <1>13, <1>14, <1>15, <1>16 DEF Next, Serve, Analyze

\* No step makes the document older than what a waiting request asked for.
LEMMA RequestPreserved ==
  ASSUME TypeOK, HandlerInv, PendingInv, SessionInv, RequestInv, [Next]_vars
  PROVE  RequestInv'
<1>1. CASE DidOpen
  BY <1>1 DEF TypeOK, Texts, NoText, Request, RequestInv, FreshAnswerIsNew,
     AskedBefore, Send, DidOpen
<1>2. CASE DidChange
  BY <1>2 DEF TypeOK, Texts, NoText, Request, RequestInv, FreshAnswerIsNew,
     AskedBefore, AskedNow, Send, SpawnAnalysis, DidChange
<1>3. CASE DidClose
  BY <1>3 DEF HandlerInv, RequestInv, FreshAnswerIsNew, DidClose
<1>4. CASE RemovePending
  BY <1>4 DEF editor, Closing, HandlerInv, RequestInv, FreshAnswerIsNew,
     RemovePending
<1>5. CASE ClearDiagnostics
  BY <1>5 DEF editor, RequestInv, FreshAnswerIsNew, AskedBefore, AskedNow,
     ClearDiagnostics
<1>6. ASSUME NEW t \in analysis_tasks, CheckVersion(t) PROVE RequestInv'
  BY <1>6 DEF editor, RequestInv, FreshAnswerIsNew, AskedBefore, AskedNow,
     CheckVersion
<1>7. ASSUME NEW t \in analysis_tasks, InsertDocument(t) PROVE RequestInv'
  BY <1>7, TaskFacts DEF TypeOK, NoVersion, editor, Texts, NoText, Request,
     SessionInv, InSession, RequestInv, FreshAnswerIsNew, AskedBefore, AskedNow,
     InsertDocument
<1>8. ASSUME NEW t \in analysis_tasks, PublishDiagnostics(t) PROVE RequestInv'
  BY <1>8 DEF editor, RequestInv, FreshAnswerIsNew, AskedBefore, AskedNow,
     PublishDiagnostics
<1>9. ASSUME NEW t \in analysis_tasks, GiveUpAnalysis(t) PROVE RequestInv'
  BY <1>9 DEF editor, RequestInv, FreshAnswerIsNew, AskedBefore, AskedNow,
     GiveUpAnalysis
<1>10. CASE AskLatest
  BY <1>10 DEF TypeOK, editor, Texts, NoText, NoVersion, PendingInv, Absent, UnlessRequest, RequestInv,
     FreshAnswerIsNew, AskedNow, Idle, AskLatest
<1>11. CASE AskAtOnce
  BY <1>11 DEF TypeOK, editor, Texts, Task, Request, UnlessRequest, RequestInv,
     FreshAnswerIsNew, AskAtOnce
<1>12. CASE SeeFresh
  BY <1>12 DEF TypeOK, editor, Texts, NoText, Document, Request, SessionInv,
     InSession, UnlessRequest, RequestInv, FreshAnswerIsNew, AskedBefore, AskedNow,
     SeeFresh
<1>13. CASE StopWaiting
  BY <1>13 DEF editor, UnlessRequest, RequestInv, FreshAnswerIsNew, AskedBefore,
     AskedNow, StopWaiting
<1>14. CASE Answer
  BY <1>14 DEF editor, UnlessRequest, RequestInv, FreshAnswerIsNew, Answer
<1>15. CASE Shutdown
  BY <1>15 DEF editor, RequestInv, FreshAnswerIsNew, AskedBefore, AskedNow, Shutdown
<1>16. CASE UNCHANGED vars
  BY <1>16 DEF editor, RequestInv, FreshAnswerIsNew, AskedBefore, AskedNow, vars
<1> QED
  BY <1>1, <1>2, <1>3, <1>4, <1>5, <1>6, <1>7, <1>8, <1>9, <1>10, <1>11, <1>12,
     <1>13, <1>14, <1>15, <1>16 DEF Next, Serve, Analyze
-----------------------------------------------------------------------------
LEMMA InitInvariant == Init => IInv
<1> SUFFICES ASSUME Init PROVE IInv
  OBVIOUS
<1>1. TypeOK
  <2>1. request \in Request
    BY DEF Request, Init
  <2>2. version \in 0..text
    BY DEF NoVersion, NoText, Init
  <2> QED
    BY <2>1, <2>2 DEF TypeOK, Handlers, Init
<1>2. HandlerInv /\ PendingInv
  BY DEF HandlerInv, PendingInv, Init
<1>3. SessionInv /\ CurrentInv
  BY DEF SessionInv, CurrentInv, Init
<1>4. RequestInv
  BY DEF NoText, RequestInv, FreshAnswerIsNew, Init
<1> QED
  BY <1>1, <1>2, <1>3, <1>4 DEF IInv

LEMMA StepInvariant == IInv /\ [Next]_vars => IInv'
  BY TypePreserved, HandlerPreserved, PendingPreserved, SessionPreserved,
     CurrentPreserved, RequestPreserved DEF IInv

LEMMA InvariantHolds == Spec => []IInv
  BY InitInvariant, StepInvariant, PTL DEF Spec

(* For any number of texts: every variable keeps its type, and the server's  *)
(* task is busy with an answer exactly while a request is ready for one.     *)
THEOREM TypeCorrect == Spec => []TypeOK
<1>1. IInv => TypeOK
  BY DEF IInv
<1> QED
  BY <1>1, InvariantHolds, PTL

(* For any number of texts: when the server is quiet its document and the    *)
(* diagnostics on the screen are those of the current text, or of no text    *)
(* when the file is closed, in whatever order the analyses ended; but for    *)
(* races after the check of the version and analyses that were given up.     *)
THEOREM QuietServerIsCurrent == Spec => []QuietIsCurrent
<1>1. IInv => QuietIsCurrent
  BY DEF Closing, Absent, SessionInv, CurrentInv, IInv, QuietIsCurrent, Quiet
<1> QED
  BY <1>1, InvariantHolds, PTL

(* For any number of texts: a request whose wait for a fresh document was    *)
(* served is answered from a text at least as new as the one it was made on, *)
(* although the document is read again and versions start again at 1.        *)
THEOREM FreshAnswersAreNew == Spec => []FreshAnswerIsNew
<1>1. IInv => FreshAnswerIsNew
  BY DEF RequestInv, IInv
<1> QED
  BY <1>1, InvariantHolds, PTL

-----------------------------------------------------------------------------
(* The C# database.  A new handle is known to the reload that loaded it, and *)
(* to nobody else until the exchange; the one it replaces is known to that   *)
(* reload as its own to dispose of, and to the getters that are under way.   *)

\* The readers that count on a handle, and those about to.
Counted      == {r \in Reader : at[r] \in {"getraw", "native"}}
CountedOn(h) == {r \in Counted : ref[r] = h}
Asking(h)    == {r \in Reader : at[r] = "addref" /\ ref[r] = h}

HandleInv ==
  /\ released \subseteq 1..loaded
  /\ \A h \in Handle : h > loaded => refs[h] = 0
  /\ \A t \in Reloader :
       /\ at[t] \in {"swap", "dispose"} => mine[t] \in (1..loaded) \ {safeHandle}
       /\ at[t] \notin {"swap", "dispose"} => mine[t] = NoHandle
       /\ at[t] = "swap" => mine[t] \notin released /\ refs[mine[t]] = 1
  /\ \A t, u \in Reloader : t # u /\ mine[t] # NoHandle => mine[t] # mine[u]
  /\ \A r \in Reader :
       /\ InGetter(r) => /\ ref[r] \in 1..loaded
                         /\ \A t \in Reloader : at[t] = "swap" => mine[t] # ref[r]
       /\ raw[r] # NoHandle => at[r] = "native"

\* A getter adds to the count of a handle once, also when it is replaced.
BoundInv ==
  /\ \A h \in Handle : refs[h] <= 1 + Cardinality(Reader \ Asking(h))
  /\ refs[safeHandle] <= 1 + Cardinality(CountedOn(safeHandle))

\* What the owner adds to a count.
Owned(h) == IF h \in released THEN 0 ELSE 1

(* While no handle has been replaced under a getter, each count is exact,    *)
(* and what is not disposed of is somebody's to dispose of.                  *)
CountInv ==
  ~crossed =>
    /\ \A r \in Reader : /\ InGetter(r) => ref[r] = safeHandle
                         /\ at[r] = "native" => raw[r] = safeHandle
    /\ \A h \in 1..loaded :
         refs[h] = Owned(h) + (IF h = safeHandle THEN Cardinality(Counted) ELSE 0)
    /\ \A h \in (1..loaded) \ released : h = safeHandle \/ \E t \in Reloader : mine[t] = h

(* When Dispose is over, the installed handle is disposed of, or a reload    *)
(* that will look at _disposed has yet to do so.                             *)
DisposeInv ==
  /\ disposing = "not" <=> ~disposed
  /\ \A t \in Reloader : at[t] = "undo" => disposed
  /\ ~crossed /\ ~disposed => safeHandle \notin released
  /\ ~crossed /\ disposing = "done" /\ safeHandle \notin released =>
       \E t \in Reloader : at[t] \in {"dispose", "check", "undo"}

\* t is about to install the file as it is.
Current(t) == at[t] = "swap" /\ contents[mine[t]] = saved

(* A save that loads is installed, or somebody is on the way to install it,  *)
(* and nobody installs an older one after it.                                *)
ServedInv ==
  /\ \A h \in Handle : contents[h] <= saved
  /\ ~missed /\ (contents[safeHandle] = saved \/ \E t \in Reloader : Current(t)) =>
       \A t \in Reloader : at[t] = "swap" => Current(t)
  /\ ~missed /\ sound /\ ~disposed =>
       \/ contents[safeHandle] = saved
       \/ events > 0
       \/ \E t \in Reloader : at[t] \in {"delay", "load"} \/ Current(t)

ThreadPlaces == {"idle", "addref", "getraw", "native", "load", "swap", "dispose", "check", "undo",
           "enable", "delay"}

DataInv ==
  /\ loaded \in Handle /\ safeHandle \in 1..loaded
  /\ refs \in [Handle -> Nat]
  /\ released \subseteq Handle /\ contents \in [Handle -> 0..MaxVersions]
  /\ disposed \in BOOLEAN /\ disposing \in {"not", "begun", "done"}
  /\ at \in [Thread -> ThreadPlaces]
  /\ ref \in [Reader -> Handle \cup {NoHandle}] /\ raw \in [Reader -> Handle \cup {NoHandle}]
  /\ mine \in [Reloader -> Handle \cup {NoHandle}]
  /\ watching \in BOOLEAN /\ events \in 0..MaxEvents /\ window \in BOOLEAN
  /\ saved \in 1..MaxVersions /\ sound \in BOOLEAN
  /\ crossed \in BOOLEAN /\ missed \in BOOLEAN

DatabaseInv == DataInv /\ HandleInv /\ BoundInv /\ CountInv /\ DisposeInv /\ ServedInv

-----------------------------------------------------------------------------
\* Handles are numbered from 1, and no handle is 0.
LEMMA HandleFacts ==
  ASSUME DataInv
  PROVE  /\ Handle = {h \in Nat : h >= 1 /\ h <= MaxHandles} /\ MaxHandles \in Nat
         /\ MaxVersions \in Nat
         /\ loaded \in Nat /\ 1..loaded \subseteq Handle /\ safeHandle \in Handle
         /\ NoHandle \notin Handle /\ NoHandle = 0
  BY BoundsAssumption DEF Handle, NoHandle, DataInv

\* Sets of readers are finite, and counted one by one.
LEMMA ReaderSets ==
  ASSUME NEW S \in SUBSET Reader
  PROVE  /\ IsFiniteSet(S) /\ Cardinality(S) \in Nat
         /\ Cardinality(S) <= Cardinality(Reader) /\ Cardinality(Reader) \in Nat
         /\ \A r \in Reader \ S : Cardinality(S \cup {r}) = Cardinality(S) + 1
         /\ \A r \in S : Cardinality(S \ {r}) = Cardinality(S) - 1 /\ Cardinality(S) > 0
<1>1. IsFiniteSet(S) /\ Cardinality(S) <= Cardinality(Reader)
  BY ReadersAssumption, FS_Subset
<1>2. Cardinality(S) \in Nat /\ Cardinality(Reader) \in Nat
  BY <1>1, ReadersAssumption, FS_CardinalityType
<1>3. \A r \in Reader \ S : Cardinality(S \cup {r}) = Cardinality(S) + 1
  BY <1>1, FS_AddElement
<1>4. \A r \in S : Cardinality(S \ {r}) = Cardinality(S) - 1
  BY <1>1, FS_RemoveElement
<1>5. \A r \in S : Cardinality(S) > 0
  <2> SUFFICES ASSUME NEW r \in S PROVE Cardinality(S) > 0
    OBVIOUS
  <2>1. IsFiniteSet(S \ {r})
    BY <1>1, FS_Subset
  <2>2. Cardinality(S \ {r}) \in Nat
    BY <2>1, FS_CardinalityType
  <2> QED
    BY <1>2, <1>4, <2>2
<1> QED
  BY <1>1, <1>2, <1>3, <1>4, <1>5

LEMMA InitInv == DatabaseInit => DatabaseInv
<1> SUFFICES ASSUME DatabaseInit PROVE DatabaseInv
  OBVIOUS
<1>1. DataInv
  <2>1. 1 \in Handle /\ 1..1 = {1} /\ 0 \in 0..MaxEvents /\ 1 \in 1..MaxVersions
        /\ {0, 1} \subseteq 0..MaxVersions
    BY BoundsAssumption DEF Handle, MaxEvents
  <2>2. at \in [Thread -> ThreadPlaces]
    BY DEF ThreadPlaces, DatabaseInit
  <2>3. refs \in [Handle -> Nat] /\ contents \in [Handle -> 0..MaxVersions]
    BY <2>1 DEF DatabaseInit
  <2> QED
    BY <2>1, <2>2, <2>3 DEF DataInv, DatabaseInit
<1>2. /\ \A t \in Thread : at[t] = "idle"
      /\ safeHandle = 1 /\ loaded = 1 /\ 1..loaded = {1}
      /\ refs[1] = 1 /\ \A h \in Handle : refs[h] \in {0, 1} /\ (h > 1 => refs[h] = 0)
      /\ \A t \in Reloader : mine[t] = NoHandle
      /\ \A r \in Reader : raw[r] = NoHandle
  BY <1>1, HandleFacts DEF DatabaseInit
<1>3. HandleInv
  BY <1>2 DEF Thread, HandleInv, InGetter, DatabaseInit
<1>4. BoundInv
  <2>1. \A S \in SUBSET Reader : Cardinality(S) \in Nat
    BY ReaderSets
  <2> HIDE DEF Asking
  <2>2. \A h \in Handle : Cardinality(Reader \ Asking(h)) \in Nat
    BY <2>1
  <2>3. Cardinality(CountedOn(safeHandle)) \in Nat
    BY <2>1 DEF Counted, CountedOn
  <2>4. \A h \in Handle : refs[h] <= 1
    BY <1>2
  <2> QED
    BY <1>2, <2>2, <2>3, <2>4 DEF BoundInv
<1>5. CountInv
  <2>1. Counted = {}
    BY <1>2 DEF Thread, Counted
  <2>2. Cardinality(Counted) = 0
    BY <2>1, FS_EmptySet
  <2> QED
    BY <1>2, <2>2 DEF Thread, InGetter, Owned, CountInv, DatabaseInit
<1>6. DisposeInv
  BY <1>2 DEF Thread, DisposeInv, DatabaseInit
<1>7. ServedInv
  BY <1>2 DEF ServedInv, DatabaseInit
<1> QED
  BY <1>1, <1>3, <1>4, <1>5, <1>6, <1>7 DEF DatabaseInv

-----------------------------------------------------------------------------
\* A step that touches no handle, and no thread where it holds one.
QuietPlaces == {"idle", "load", "check", "undo", "enable", "delay"}

HandlesStay ==
  /\ UNCHANGED <<safeHandle, loaded, refs, released, contents, ref, raw, mine, crossed>>
  /\ \A t \in Thread : at'[t] = at[t] \/ (at[t] \in QuietPlaces /\ at'[t] \in QuietPlaces)

LEMMA Outline ==
  ASSUME DataInv, [DatabaseNext]_databaseVars
  PROVE  \/ HandlesStay
         \/ \E r \in Reader : Get(r)
         \/ \E t \in Reloader : LoadFile(t) \/ Swap(t) \/ DisposeOld(t) \/ Undo(t)
         \/ FinishDispose
<1> USE DEF HandlesStay, QuietPlaces, DataInv, UnlessReload, UnlessWatch, UnlessDispose, readerVars,
            handleVars, watchVars, Goto, Thread
<1>1. ASSUME NEW t \in Reloader, Reload(t) \/ EnableHotReload(t)
      PROVE  HandlesStay
  BY <1>1 DEF Reload, EnableHotReload
<1>2. ASSUME NEW t \in Reloader, FailLoad(t) \/ CheckDisposed(t)
      PROVE  HandlesStay
  BY <1>2 DEF FailLoad, CheckDisposed
<1>3. ASSUME NEW t \in Reloader, InstallWatcher(t) \/ AcceptEvent(t) \/ EndDelay(t)
      PROVE  HandlesStay
  BY <1>3 DEF InstallWatcher, AcceptEvent, EndDelay
<1>4. ASSUME DisableHotReload \/ DropEvent \/ CloseWindow
      PROVE  HandlesStay
  BY <1>4 DEF DropEvent, CloseWindow, DisableHotReload
<1>5. ASSUME Dispose \/ WriteFile \/ UNCHANGED databaseVars
      PROVE  HandlesStay
  BY <1>5 DEF Dispose, databaseVars, WriteFile
<1> QED
  BY <1>1, <1>2, <1>3, <1>4, <1>5 DEF DatabaseNext, Work

\* No reader begins, goes on with or ends a getter.
GettersStay ==
  \A r \in Reader : at'[r] # at[r] =>
    {at[r], at'[r]} \cap {"addref", "getraw", "native"} = {}

\* What the other steps do to the handles.
LEMMA GetFacts ==
  ASSUME DataInv, NEW r \in Reader, Get(r)
  PROVE  /\ UNCHANGED <<safeHandle, loaded, released, contents, mine, crossed, disposed,
                        disposing, watching, events, window, saved, sound, missed>>
         /\ \A t \in Thread : t # r => at'[t] = at[t]
         /\ \A q \in Reader : q # r => ref'[q] = ref[q] /\ raw'[q] = raw[q]
         /\ \/ /\ at[r] = "idle" /\ at'[r] = "addref" /\ ref'[r] = safeHandle
               /\ raw'[r] = raw[r] /\ refs' = refs
            \/ /\ at[r] = "addref" /\ at'[r] = "idle" /\ ref'[r] = NoHandle
               /\ raw'[r] = raw[r] /\ refs' = refs /\ refs[ref[r]] = 0
            \/ /\ at[r] = "addref" /\ at'[r] = "getraw" /\ ref'[r] = ref[r]
               /\ raw'[r] = raw[r] /\ refs[ref[r]] # 0
               /\ refs' = [refs EXCEPT ![ref[r]] = refs[ref[r]] + 1]
            \/ /\ at[r] = "getraw" /\ at'[r] = "native" /\ ref'[r] = ref[r]
               /\ raw'[r] = safeHandle /\ refs' = refs
            \/ /\ at[r] = "native" /\ at'[r] = "idle" /\ ref'[r] = NoHandle
               /\ raw'[r] = NoHandle
               /\ refs' = [refs EXCEPT ![safeHandle] = IF refs[safeHandle] > 0
                                                       THEN refs[safeHandle] - 1
                                                       ELSE refs[safeHandle]]
  BY DEF Get, LoadField, AddRef, GetRaw, ReturnValue, UnlessReader, watchVars,
     DataInv, Thread, fileVars, Goto

LEMMA LoadFacts ==
  ASSUME DataInv, NEW t \in Reloader, LoadFile(t)
  PROVE  /\ UNCHANGED <<safeHandle, released, ref, raw, crossed, disposed, disposing,
                        watching, events, window, saved, sound>>
         /\ loaded' = loaded + 1 /\ loaded' \in Handle
         /\ mine' = [mine EXCEPT ![t] = loaded + 1]
         /\ refs' = [refs EXCEPT ![loaded + 1] = 1]
         /\ contents' = [contents EXCEPT ![loaded + 1] = saved]
         /\ missed' = (\E u \in Reloader : at[u] = "swap" /\ contents[mine[u]] # saved)
         /\ at[t] = "load" /\ at' = [at EXCEPT ![t] = "swap"]
<1>1. loaded + 1 \in Handle
  BY HandleFacts DEF LoadFile
<1> QED
  BY <1>1 DEF LoadFile, fileVars, readerVars, Goto, UnlessReload

LEMMA SwapFacts ==
  ASSUME DataInv, NEW t \in Reloader, Swap(t)
  PROVE  /\ UNCHANGED <<loaded, refs, released, contents, ref, raw, disposed, disposing,
                        watching, events, window, saved, sound, missed>>
         /\ safeHandle' = mine[t]
         /\ mine' = [mine EXCEPT ![t] = safeHandle]
         /\ crossed' = (crossed \/ \E r \in Reader : InGetter(r))
         /\ at[t] = "swap" /\ at' = [at EXCEPT ![t] = "dispose"]
  BY DEF Swap, fileVars, handleVars, readerVars, Goto, UnlessReload

\* The three steps that dispose of a handle.
Released(h) ==
  /\ refs' = [refs EXCEPT ![h] = IF h \in released \/ refs[h] = 0 THEN refs[h]
                                 ELSE refs[h] - 1]
  /\ released' = IF refs[h] > 0 THEN released \cup {h} ELSE released

LEMMA DisposeHandleFacts ==
  ASSUME DataInv, NEW h \in Handle, DisposeHandle(h)
  PROVE  Released(h) /\ loaded' = loaded /\ contents' = contents
<1>1. refs[h] \in Nat
  BY DEF DataInv
<1>2. refs' = [refs EXCEPT ![h] = IF h \in released THEN refs[h]
                                  ELSE IF refs[h] > 0 THEN refs[h] - 1 ELSE refs[h]]
  BY DEF DisposeHandle
<1>3. (IF h \in released THEN refs[h] ELSE IF refs[h] > 0 THEN refs[h] - 1 ELSE refs[h])
        = IF h \in released \/ refs[h] = 0 THEN refs[h] ELSE refs[h] - 1
  BY <1>1
<1> QED
  BY <1>2, <1>3 DEF DisposeHandle, Released

LEMMA DisposeOldFacts ==
  ASSUME DataInv, HandleInv, NEW t \in Reloader, DisposeOld(t)
  PROVE  /\ UNCHANGED <<safeHandle, loaded, contents, ref, raw, crossed, disposed, disposing,
                        watching, events, window, saved, sound, missed>>
         /\ mine[t] \in (1..loaded) \ {safeHandle} /\ Released(mine[t])
         /\ mine' = [mine EXCEPT ![t] = NoHandle]
         /\ at[t] = "dispose"
         /\ at' = [at EXCEPT ![t] = IF mine[t] \notin released /\ refs[mine[t]] = 0
                                    THEN "idle" ELSE "check"]
<1>1. at[t] = "dispose" /\ mine[t] \in (1..loaded) \ {safeHandle}
  BY DEF DisposeOld, HandleInv
<1>2. Released(mine[t]) /\ loaded' = loaded /\ contents' = contents
  BY <1>1, HandleFacts, DisposeHandleFacts DEF DisposeOld
<1> QED
  BY <1>1, <1>2 DEF DisposeOld, DisposeThrows, fileVars, readerVars, Goto,
     UnlessReload

LEMMA UndoFacts ==
  ASSUME DataInv, NEW t \in Reloader, Undo(t)
  PROVE  /\ UNCHANGED <<safeHandle, loaded, contents, mine, ref, raw, crossed, disposed,
                        disposing, watching, events, window, saved, sound, missed>>
         /\ Released(safeHandle)
         /\ at[t] = "undo" /\ at' = [at EXCEPT ![t] = "idle"]
  BY HandleFacts, DisposeHandleFacts DEF Undo, fileVars, readerVars, Goto,
     UnlessReload

LEMMA FinishFacts ==
  ASSUME DataInv, FinishDispose
  PROVE  /\ UNCHANGED <<safeHandle, loaded, contents, at, mine, ref, raw, crossed, disposed,
                        window, saved, sound, missed>>
         /\ disposing = "begun" /\ disposing' = "done" /\ watching' = FALSE /\ events' = 0
         /\ Released(safeHandle)
  BY HandleFacts, DisposeHandleFacts DEF FinishDispose, UnlessDispose, fileVars,
     readerVars

-----------------------------------------------------------------------------
LEMMA DataPreserved ==
  ASSUME DataInv, HandleInv, [DatabaseNext]_databaseVars
  PROVE  DataInv'
<1> USE HandleFacts
<1>1. ASSUME NEW r \in Reader, Get(r)
      PROVE  DataInv'
  <2>1. at' \in [Thread -> ThreadPlaces]
    BY <1>1 DEF Get, LoadField, AddRef, GetRaw, ReturnValue, DataInv, Goto, ThreadPlaces
  <2>2. /\ ref' \in [Reader -> Handle \cup {NoHandle}]
        /\ raw' \in [Reader -> Handle \cup {NoHandle}]
    BY <1>1 DEF Get, LoadField, AddRef, GetRaw, ReturnValue, DataInv
  <2>3. at[r] = "addref" => ref[r] \in Handle
    BY <1>1 DEF HandleInv, InGetter
  <2>4. refs' \in [Handle -> Nat]
    BY <1>1, <2>3, GetFacts DEF DataInv
  <2> QED
    BY <1>1, <2>1, <2>2, <2>4, GetFacts DEF DataInv
<1>2. ASSUME NEW t \in Reloader, LoadFile(t)
      PROVE  DataInv'
  <2>1. safeHandle' \in 1..loaded' /\ loaded + 1 \in Handle /\ saved \in 0..MaxVersions
    <3>1. safeHandle' = safeHandle /\ loaded' = loaded + 1 /\ loaded' \in Handle
      BY <1>2, LoadFacts
    <3>2. safeHandle \in 1..loaded /\ loaded \in Nat /\ saved \in 1..MaxVersions
      BY DEF DataInv
    <3> QED
      BY <3>1, <3>2
  <2>2. at' \in [Thread -> ThreadPlaces]
    BY <1>2, LoadFacts DEF DataInv, ThreadPlaces
  <2>3. /\ refs' \in [Handle -> Nat] /\ contents' \in [Handle -> 0..MaxVersions]
        /\ mine' \in [Reloader -> Handle \cup {NoHandle}]
    <3>1. /\ refs' = [refs EXCEPT ![loaded + 1] = 1]
          /\ contents' = [contents EXCEPT ![loaded + 1] = saved]
          /\ mine' = [mine EXCEPT ![t] = loaded + 1]
      BY <1>2, LoadFacts
    <3>2. /\ refs \in [Handle -> Nat] /\ contents \in [Handle -> 0..MaxVersions]
          /\ mine \in [Reloader -> Handle \cup {NoHandle}]
      BY DEF DataInv
    <3> QED
      BY <2>1, <3>1, <3>2
  <2>4. missed' \in BOOLEAN
    BY <1>2, LoadFacts
  <2> QED
    BY <1>2, <2>1, <2>2, <2>3, <2>4, LoadFacts DEF DataInv
<1>3. ASSUME NEW t \in Reloader, Swap(t)
      PROVE  DataInv'
  <2>1. safeHandle' \in 1..loaded'
    BY <1>3, SwapFacts DEF HandleInv
  <2>2. at' \in [Thread -> ThreadPlaces]
    BY <1>3, SwapFacts DEF DataInv, ThreadPlaces
  <2>3. mine' \in [Reloader -> Handle \cup {NoHandle}]
    BY <1>3, SwapFacts DEF DataInv
  <2>4. crossed' \in BOOLEAN
    BY <1>3, SwapFacts
  <2> QED
    BY <1>3, <2>1, <2>2, <2>3, <2>4, SwapFacts DEF DataInv
<1>4. ASSUME NEW h \in Handle, Released(h)
      PROVE  refs' \in [Handle -> Nat] /\ released' \subseteq Handle
  BY <1>4 DEF DataInv, Released
<1>5. ASSUME NEW t \in Reloader, DisposeOld(t)
      PROVE  DataInv'
  <2>1. refs' \in [Handle -> Nat] /\ released' \subseteq Handle
    BY <1>4, <1>5, DisposeOldFacts
  <2>2. at' \in [Thread -> ThreadPlaces]
    BY <1>5, DisposeOldFacts DEF DataInv, ThreadPlaces
  <2>3. mine' \in [Reloader -> Handle \cup {NoHandle}]
    BY <1>5, DisposeOldFacts DEF DataInv
  <2> QED
    BY <1>5, <2>1, <2>2, <2>3, DisposeOldFacts DEF DataInv
<1>6. ASSUME NEW t \in Reloader, Undo(t)
      PROVE  DataInv'
  <2>1. refs' \in [Handle -> Nat] /\ released' \subseteq Handle
    BY <1>4, <1>6, UndoFacts
  <2>2. at' \in [Thread -> ThreadPlaces]
    BY <1>6, UndoFacts DEF DataInv, ThreadPlaces
  <2> QED
    BY <1>6, <2>1, <2>2, UndoFacts DEF DataInv
<1>7. CASE FinishDispose
  <2>1. refs' \in [Handle -> Nat] /\ released' \subseteq Handle
    BY <1>4, <1>7, FinishFacts
  <2>2. /\ events' \in 0..MaxEvents /\ disposing' \in {"not", "begun", "done"}
        /\ watching' \in BOOLEAN
    BY <1>7, FinishFacts DEF MaxEvents
  <2> QED
    BY <1>7, <2>1, <2>2, FinishFacts DEF DataInv
<1>8. ASSUME NEW t \in Reloader,
             \/ Reload(t) \/ EnableHotReload(t) \/ FailLoad(t) \/ CheckDisposed(t)
             \/ InstallWatcher(t) \/ EndDelay(t)
      PROVE  DataInv'
  <2>1. at' \in [Thread -> ThreadPlaces]
    BY <1>8 DEF DataInv, Goto, ThreadPlaces, Reload, EnableHotReload, InstallWatcher,
       FailLoad, CheckDisposed, EndDelay
  <2>2. /\ UNCHANGED <<safeHandle, loaded, refs, released, contents, disposed, disposing, ref,
                       raw, mine, events, window, saved, sound, crossed, missed>>
        /\ watching' \in BOOLEAN
    BY <1>8 DEF watchVars, DataInv, fileVars, handleVars, readerVars, Reload,
       EnableHotReload, InstallWatcher, UnlessReload, UnlessWatch, FailLoad,
       CheckDisposed, EndDelay
  <2> QED
    BY <2>1, <2>2 DEF DataInv
<1>9. ASSUME NEW t \in Reloader, AcceptEvent(t)
      PROVE  DataInv'
  <2>1. at' \in [Thread -> ThreadPlaces]
    BY <1>9 DEF DataInv, Goto, ThreadPlaces, AcceptEvent
  <2>2. events' \in 0..MaxEvents
    BY <1>9 DEF DataInv, MaxEvents, AcceptEvent
  <2> QED
    BY <1>9, <2>1, <2>2 DEF DataInv, fileVars, handleVars, readerVars, AcceptEvent,
       UnlessWatch
<1>10. CASE DisableHotReload \/ DropEvent \/ CloseWindow
  <2>1. events' \in 0..MaxEvents
    BY <1>10 DEF DropEvent, CloseWindow, DataInv, MaxEvents, DisableHotReload
  <2>2. missed' \in BOOLEAN
    BY <1>10 DEF DropEvent, CloseWindow, DataInv, DisableHotReload
  <2> QED
    BY <1>10, <2>1, <2>2 DEF DropEvent, CloseWindow, DataInv, fileVars, handleVars,
       readerVars, UnlessWatch, DisableHotReload
<1>11. CASE WriteFile
  <2>1. saved' \in 1..MaxVersions
    BY <1>11 DEF DataInv, WriteFile
  <2>3. events' \in 0..MaxEvents
    BY <1>11 DEF DataInv, WriteFile, MaxEvents
  <2>2. missed' \in BOOLEAN
    BY <1>11 DEF WriteFile
  <2> QED
    BY <1>11, <2>1, <2>2, <2>3 DEF DataInv, handleVars, readerVars, WriteFile
<1>12. CASE Dispose
  BY <1>12 DEF Dispose, UnlessDispose, DataInv, fileVars, handleVars, readerVars
<1>13. CASE UNCHANGED databaseVars
  BY <1>13 DEF databaseVars, watchVars, DataInv, fileVars, handleVars, readerVars
<1> QED
  BY <1>1, <1>2, <1>3, <1>5, <1>6, <1>7, <1>8, <1>9, <1>10, <1>11, <1>12, <1>13 DEF
     DatabaseNext, Work

(* A handle that is loaded belongs to one reload until it is exchanged, and  *)
(* no getter has it.                                                         *)
LEMMA HandlePreserved ==
  ASSUME DataInv, HandleInv, [DatabaseNext]_databaseVars
  PROVE  HandleInv'
<1> USE HandleFacts
<1>1. CASE HandlesStay
  <2>1. \A t \in Reloader :
          /\ (at'[t] \in {"swap", "dispose"}) = (at[t] \in {"swap", "dispose"})
          /\ (at'[t] = "swap") = (at[t] = "swap")
    BY <1>1 DEF Thread, HandlesStay, QuietPlaces
  <2>2. \A r \in Reader :
          InGetter(r)' = InGetter(r) /\ (at'[r] = "native") = (at[r] = "native")
    BY <1>1 DEF Thread, InGetter, HandlesStay, QuietPlaces
  <2> QED
    BY <1>1, <2>1, <2>2 DEF HandleInv, HandlesStay
<1>2. ASSUME NEW r \in Reader, Get(r)
      PROVE  HandleInv'
  <2>1. \A t \in Reloader :
          /\ (at'[t] \in {"swap", "dispose"}) = (at[t] \in {"swap", "dispose"})
          /\ (at'[t] = "swap") = (at[t] = "swap")
    BY <1>2, GetFacts DEF Thread
  <2>2. \A q \in Reader :
          /\ InGetter(q)' => ref'[q] \in 1..loaded
                             /\ \A t \in Reloader : at[t] = "swap" => mine[t] # ref'[q]
          /\ raw'[q] # NoHandle => at'[q] = "native"
    <3>1. \A q \in Reader : q # r => at'[q] = at[q]
      BY <1>2, GetFacts DEF Thread
    <3>2. ASSUME InGetter(r)'
          PROVE  /\ ref'[r] \in 1..loaded
                 /\ \A t \in Reloader : at[t] = "swap" => mine[t] # ref'[r]
      BY <1>2, <3>2, GetFacts DEF DataInv, HandleInv, InGetter
    <3>3. raw'[r] # NoHandle => at'[r] = "native"
      BY <1>2, GetFacts DEF HandleInv
    <3> QED
      BY <1>2, <3>1, <3>2, <3>3, GetFacts DEF HandleInv, InGetter
  <2>3. at[r] = "addref" =>
          ref[r] \in 1..loaded /\ \A t \in Reloader : at[t] = "swap" => mine[t] # ref[r]
    BY DEF HandleInv, InGetter
  <2>4. \A h \in Handle : h > loaded => refs'[h] = 0
    BY <1>2, <2>3, GetFacts DEF DataInv, HandleInv
  <2>5. \A t \in Reloader : at[t] = "swap" => refs'[mine[t]] = 1
    <3> SUFFICES ASSUME NEW t \in Reloader, at[t] = "swap" PROVE refs'[mine[t]] = 1
      OBVIOUS
    <3>1. mine[t] \in Handle /\ mine[t] # safeHandle /\ refs[mine[t]] = 1
      BY DEF HandleInv
    <3>2. at[r] = "addref" => mine[t] # ref[r]
      BY <2>3
    <3> QED
      BY <1>2, <3>1, <3>2, GetFacts DEF DataInv
  <2>6. UNCHANGED <<safeHandle, loaded, released, mine>>
    BY <1>2, GetFacts
  <2> QED
    BY <2>1, <2>2, <2>4, <2>5, <2>6 DEF HandleInv
<1>3. ASSUME NEW t \in Reloader, LoadFile(t)
      PROVE  HandleInv'
  <2>1. /\ loaded' = loaded + 1 /\ loaded + 1 \in Handle
        /\ UNCHANGED <<safeHandle, released, ref, raw>>
        /\ mine' = [mine EXCEPT ![t] = loaded + 1]
        /\ refs' = [refs EXCEPT ![loaded + 1] = 1]
        /\ at[t] = "load" /\ at' = [at EXCEPT ![t] = "swap"]
    BY <1>3, LoadFacts
  <2>2. /\ loaded \in Nat /\ loaded + 1 \notin 1..loaded /\ loaded + 1 # NoHandle
        /\ loaded + 1 \notin released /\ loaded + 1 # safeHandle
    <3>1. loaded \in Nat /\ released \subseteq 1..loaded /\ safeHandle \in 1..loaded
      BY DEF DataInv, HandleInv
    <3> QED
      BY <3>1
  <2>3. \A u \in Reloader : mine[u] # loaded + 1
    BY <2>2 DEF HandleInv
  <2>4. \A r \in Reader : InGetter(r) => ref[r] # loaded + 1
    BY <2>2 DEF HandleInv
  <2>5. 1..loaded' = 1..loaded \cup {loaded + 1}
    BY <2>2, <2>1
  <2>6. at'[t] = "swap" /\ mine'[t] = loaded + 1 /\ refs'[loaded + 1] = 1
        /\ \A u \in Reloader : u # t => at'[u] = at[u] /\ mine'[u] = mine[u]
    <3>1. t \in Thread /\ Reloader \subseteq Thread /\ at \in [Thread -> ThreadPlaces]
          /\ mine \in [Reloader -> Handle \cup {NoHandle}] /\ refs \in [Handle -> Nat]
      BY DEF DataInv, Thread
    <3> QED
      BY <2>1, <3>1
  <2>7. \A h \in Handle : h # loaded + 1 => refs'[h] = refs[h]
    BY <2>1
  <2>8. \A r \in Reader : InGetter(r)' => InGetter(r)
    BY <2>1 DEF InGetter
  <2>9. \A r \in Reader : raw[r] # NoHandle => at'[r] = "native"
    BY <2>1 DEF HandleInv
  <2>10. released' \subseteq 1..loaded' /\ \A h \in Handle : h > loaded' => refs'[h] = 0
    <3>1. released \subseteq 1..loaded /\ \A h \in Handle : h > loaded => refs[h] = 0
      BY DEF HandleInv
    <3>2. \A h \in Handle : h > loaded + 1 => h > loaded /\ h # loaded + 1
      BY <2>2
    <3> QED
      BY <2>1, <2>5, <2>7, <3>1, <3>2
  <2>11. \A u \in Reloader :
           /\ at'[u] \in {"swap", "dispose"} => mine'[u] \in (1..loaded') \ {safeHandle}
           /\ at'[u] \notin {"swap", "dispose"} => mine'[u] = NoHandle
           /\ at'[u] = "swap" => mine'[u] \notin released /\ refs'[mine'[u]] = 1
    <3> SUFFICES ASSUME NEW u \in Reloader
                 PROVE  /\ at'[u] \in {"swap", "dispose"} =>
                               mine'[u] \in (1..loaded') \ {safeHandle}
                        /\ at'[u] \notin {"swap", "dispose"} => mine'[u] = NoHandle
                        /\ at'[u] = "swap" => mine'[u] \notin released /\ refs'[mine'[u]] = 1
      OBVIOUS
    <3>1. CASE u = t
      BY <2>2, <2>5, <2>6, <3>1
    <3>2. CASE u # t
      <4>1. /\ at[u] \in {"swap", "dispose"} => mine[u] \in (1..loaded) \ {safeHandle}
            /\ at[u] \notin {"swap", "dispose"} => mine[u] = NoHandle
            /\ at[u] = "swap" => mine[u] \notin released /\ refs[mine[u]] = 1
        BY DEF HandleInv
      <4>2. mine[u] \in 1..loaded => refs'[mine[u]] = refs[mine[u]]
        BY <2>3, <2>7
      <4> QED
        BY <2>5, <2>6, <3>2, <4>1, <4>2
    <3> QED
      BY <3>1, <3>2
  <2>12. \A u, v \in Reloader : u # v /\ mine'[u] # NoHandle => mine'[u] # mine'[v]
    BY <2>3, <2>6 DEF HandleInv
  <2>13. \A r \in Reader : InGetter(r)' =>
            ref[r] \in 1..loaded' /\ \A u \in Reloader : at'[u] = "swap" => mine'[u] # ref[r]
    BY <2>4, <2>5, <2>6, <2>8 DEF HandleInv
  <2> QED
    BY <2>1, <2>9, <2>10, <2>11, <2>12, <2>13 DEF HandleInv
<1>4. ASSUME NEW t \in Reloader, Swap(t)
      PROVE  HandleInv'
  <2>1. mine[t] \in (1..loaded) \ {safeHandle} /\ at[t] = "swap"
    BY <1>4, SwapFacts DEF HandleInv
  <2>2. /\ at'[t] = "dispose" /\ mine'[t] = safeHandle
        /\ \A u \in Reloader : u # t => at'[u] = at[u] /\ mine'[u] = mine[u]
    BY <1>4, SwapFacts DEF DataInv, Thread
  <2>3. \A u \in Reloader : u # t => mine[u] # mine[t] /\ mine[u] # safeHandle
    BY <2>1 DEF HandleInv
  <2>4. \A r \in Reader : /\ InGetter(r)' => InGetter(r)
                          /\ raw[r] # NoHandle => at'[r] = "native"
    BY <1>4, SwapFacts DEF DataInv, Thread, HandleInv, InGetter
  <2>5. \A u \in Reloader :
           /\ at'[u] \in {"swap", "dispose"} => mine'[u] \in (1..loaded) \ {mine[t]}
           /\ at'[u] \notin {"swap", "dispose"} => mine'[u] = NoHandle
           /\ at'[u] = "swap" => mine'[u] \notin released /\ refs[mine'[u]] = 1
    BY <2>1, <2>2, <2>3 DEF DataInv, HandleInv
  <2>6. \A u, v \in Reloader : u # v /\ mine'[u] # NoHandle => mine'[u] # mine'[v]
    BY <2>2, <2>3 DEF HandleInv
  <2>7. \A r \in Reader : InGetter(r)' =>
            ref[r] \in 1..loaded /\ \A u \in Reloader : at'[u] = "swap" => mine'[u] # ref[r]
    BY <2>2, <2>4 DEF HandleInv
  <2>8. UNCHANGED <<loaded, refs, released, ref, raw>> /\ safeHandle' = mine[t]
    BY <1>4, SwapFacts
  <2> QED
    BY <2>4, <2>5, <2>6, <2>7, <2>8 DEF HandleInv
<1>5. ASSUME NEW h \in 1..loaded, Released(h)
      PROVE  /\ released' \subseteq 1..loaded
             /\ \A g \in Handle : g # h => refs'[g] = refs[g]
             /\ \A g \in Handle : g # h /\ g \notin released => g \notin released'
             /\ \A g \in Handle : g > loaded => refs'[g] = 0
  BY <1>5 DEF HandleInv, Released
<1>6. ASSUME NEW t \in Reloader, DisposeOld(t)
      PROVE  HandleInv'
  <2>1. /\ mine'[t] = NoHandle /\ at'[t] \notin {"swap", "dispose"}
        /\ \A u \in Reloader : u # t => at'[u] = at[u] /\ mine'[u] = mine[u]
    BY <1>6, DisposeOldFacts DEF DataInv, Thread
  <2>2. \A r \in Reader : /\ InGetter(r)' => InGetter(r)
                          /\ raw[r] # NoHandle => at'[r] = "native"
    BY <1>6, DisposeOldFacts DEF DataInv, Thread, HandleInv, InGetter
  <2>3. \A u \in Reloader : u # t => mine[u] # mine[t]
    BY <1>6, DisposeOldFacts DEF HandleInv
  <2>4. \A u \in Reloader :
           /\ at'[u] \in {"swap", "dispose"} => mine'[u] \in (1..loaded) \ {safeHandle}
           /\ at'[u] \notin {"swap", "dispose"} => mine'[u] = NoHandle
           /\ at'[u] = "swap" => mine'[u] \notin released' /\ refs'[mine'[u]] = 1
    BY <1>5, <1>6, <2>1, <2>3, DisposeOldFacts DEF HandleInv
  <2>5. \A u, v \in Reloader : u # v /\ mine'[u] # NoHandle => mine'[u] # mine'[v]
    BY <2>1 DEF HandleInv
  <2>6. \A r \in Reader : InGetter(r)' =>
            ref[r] \in 1..loaded /\ \A u \in Reloader : at'[u] = "swap" => mine'[u] # ref[r]
    BY <2>1, <2>2 DEF HandleInv
  <2> QED
    BY <1>5, <1>6, <2>2, <2>4, <2>5, <2>6, DisposeOldFacts DEF HandleInv
<1>7. ASSUME Released(safeHandle), UNCHANGED <<safeHandle, loaded, mine, ref, raw>>,
             \A t \in Thread : at'[t] = at[t] \/ (at[t] \in QuietPlaces /\ at'[t] \in QuietPlaces)
      PROVE  HandleInv'
  <2>1. \A t \in Reloader :
          /\ (at'[t] \in {"swap", "dispose"}) = (at[t] \in {"swap", "dispose"})
          /\ (at'[t] = "swap") = (at[t] = "swap")
    BY <1>7 DEF Thread, QuietPlaces
  <2>2. \A r \in Reader :
          InGetter(r)' = InGetter(r) /\ (at'[r] = "native") = (at[r] = "native")
    BY <1>7 DEF Thread, InGetter, QuietPlaces
  <2>3. safeHandle \in 1..loaded
    BY DEF DataInv
  <2> QED
    BY <1>5, <1>7, <2>1, <2>2, <2>3 DEF HandleInv
<1>8. ASSUME NEW t \in Reloader, Undo(t)
      PROVE  HandleInv'
  <2>1. \A u \in Thread : at'[u] = at[u] \/ (at[u] \in QuietPlaces /\ at'[u] \in QuietPlaces)
    BY <1>8, UndoFacts DEF DataInv, QuietPlaces
  <2> QED
    BY <1>7, <1>8, <2>1, UndoFacts
<1>9. CASE FinishDispose
  BY <1>7, <1>9, FinishFacts
<1> QED
  BY <1>1, <1>2, <1>3, <1>4, <1>6, <1>8, <1>9, Outline

-----------------------------------------------------------------------------
(* A getter adds to the count of a handle once, and asks for no handle that  *)
(* is no longer installed.                                                   *)
LEMMA BoundPreserved ==
  ASSUME DataInv, HandleInv, BoundInv, [DatabaseNext]_databaseVars
  PROVE  BoundInv'
<1> USE HandleFacts
<1>1. \A S \in SUBSET Reader : Cardinality(S) \in Nat
  BY ReaderSets
<1>3. \A h : CountedOn(h) \in SUBSET Reader /\ Asking(h) \in SUBSET Reader
  BY DEF Counted, CountedOn, Asking
<1>4. \A h \in Handle : refs[h] \in Nat
  BY DEF DataInv
<1>5. ASSUME UNCHANGED <<safeHandle, ref>>,
             GettersStay,
             \A h \in Handle : refs'[h] \in Nat /\ (refs'[h] <= refs[h] \/ refs'[h] <= 1)
      PROVE  BoundInv'
  <2>1. Counted' = Counted /\ \A h : Asking(h)' = Asking(h)
    BY <1>5 DEF Counted, GettersStay, Asking
  <2>2. CountedOn(safeHandle)' = CountedOn(safeHandle)
    BY <1>5, <2>1 DEF CountedOn
  <2> HIDE DEF CountedOn, Asking
  <2>3. /\ Cardinality(CountedOn(safeHandle)) \in Nat
        /\ \A h : Cardinality(Reader \ Asking(h)) \in Nat
    BY <1>1, <1>3
  <2> QED
    BY <1>4, <1>5, <2>1, <2>2, <2>3 DEF BoundInv
<1>6. ASSUME NEW h \in Handle, Released(h)
      PROVE  \A g \in Handle : refs'[g] \in Nat /\ refs'[g] <= refs[g]
  BY <1>6 DEF DataInv, Released
<1>7. CASE HandlesStay
  BY <1>4, <1>5, <1>7 DEF GettersStay, HandlesStay
<1>8. ASSUME NEW t \in Reloader, DisposeOld(t)
      PROVE  BoundInv'
  <2>1. GettersStay
    BY <1>8, DisposeOldFacts DEF GettersStay
  <2> QED
    BY <1>5, <1>6, <1>8, <2>1, DisposeOldFacts
<1>9. ASSUME NEW t \in Reloader, Undo(t)
      PROVE  BoundInv'
  <2>1. GettersStay
    BY <1>9, UndoFacts DEF GettersStay
  <2> QED
    BY <1>5, <1>6, <1>9, <2>1, UndoFacts
<1>10. CASE FinishDispose
  BY <1>5, <1>6, <1>10, FinishFacts DEF GettersStay
<1>11. ASSUME NEW t \in Reloader, LoadFile(t)
       PROVE  BoundInv'
  <2>1. GettersStay
    <3>1. at[t] = "load" /\ at' = [at EXCEPT ![t] = "swap"]
      BY <1>11, LoadFacts
    <3> QED
      BY <3>1 DEF GettersStay
  <2>2. \A h \in Handle : refs'[h] \in Nat /\ (refs'[h] <= refs[h] \/ refs'[h] <= 1)
    <3>1. refs' = [refs EXCEPT ![loaded + 1] = 1]
      BY <1>11, LoadFacts
    <3>2. \A h \in Handle : refs'[h] = IF h = loaded + 1 THEN 1 ELSE refs[h]
      BY <3>1 DEF DataInv
    <3> QED
      BY <1>4, <3>2
  <2> QED
    BY <1>5, <1>11, <2>1, <2>2, LoadFacts
<1>12. ASSUME NEW t \in Reloader, Swap(t)
       PROVE  BoundInv'
  <2>1. GettersStay
    BY <1>12, SwapFacts DEF GettersStay
  <2>2. UNCHANGED <<ref, refs>> /\ safeHandle' = mine[t] /\ refs[mine[t]] = 1
    BY <1>12, SwapFacts DEF HandleInv
  <2>3. \A h : Asking(h)' = Asking(h)
    BY <2>1, <2>2 DEF GettersStay, Asking
  <2>4. CountedOn(safeHandle)' \in SUBSET Reader
    BY DEF Counted, CountedOn
  <2> HIDE DEF CountedOn, Asking
  <2>5. Cardinality(CountedOn(safeHandle)') \in Nat
    BY <1>1, <2>4
  <2> QED
    BY <2>2, <2>3, <2>5 DEF BoundInv
<1>13. ASSUME NEW r \in Reader, Get(r)
       PROVE  BoundInv'
  <2>1. /\ r \in Thread /\ safeHandle' = safeHandle
        /\ \A q \in Reader : q # r => at'[q] = at[q] /\ ref'[q] = ref[q]
        /\ \A h \in Handle : refs'[h] \in Nat
    <3>1. at[r] = "addref" => ref[r] \in Handle
      BY DEF HandleInv, InGetter
    <3>2. \A h \in Handle : refs'[h] \in Nat
      BY <1>4, <1>13, <3>1, GetFacts DEF DataInv
    <3> QED
      BY <1>13, <3>2, GetFacts DEF Thread
  <2>2. CASE /\ at[r] = "idle" /\ at'[r] = "addref" /\ ref'[r] = safeHandle /\ refs' = refs
    <3>1. PICK g \in Handle : g = safeHandle
      OBVIOUS
    <3>2. /\ CountedOn(safeHandle)' = CountedOn(g) /\ CountedOn(g) \subseteq Reader \ Asking(g)'
          /\ \A h \in Handle : h # g => Asking(h)' = Asking(h)
      BY <2>1, <2>2, <3>1 DEF Counted, CountedOn, Asking
    <3> HIDE DEF CountedOn, Asking
    <3>3. refs[g] <= 1 + Cardinality(Reader \ Asking(g)')
      <4>1. IsFiniteSet(Reader \ Asking(g)')
        BY ReaderSets
      <4>2. Cardinality(CountedOn(g)) <= Cardinality(Reader \ Asking(g)')
        BY <3>2, <4>1, FS_Subset
      <4>3. Cardinality(CountedOn(g)) \in Nat /\ Cardinality(Reader \ Asking(g)') \in Nat
        BY <1>1, <1>3
      <4>4. refs[g] <= 1 + Cardinality(CountedOn(g)) /\ refs[g] \in Nat
        BY <1>4, <3>1 DEF BoundInv
      <4> QED
        BY <4>2, <4>3, <4>4
    <3>4. \A h \in Handle : refs'[h] <= 1 + Cardinality(Reader \ Asking(h)')
      BY <2>2, <3>2, <3>3 DEF BoundInv
    <3> QED
      BY <2>1, <2>2, <3>1, <3>2, <3>4 DEF BoundInv
  <2>3. CASE /\ at[r] = "addref" /\ at'[r] = "idle" /\ refs' = refs
    <3>1. /\ CountedOn(safeHandle)' = CountedOn(safeHandle) 
          /\ \A h \in Handle : Asking(h)' \subseteq Asking(h)
      BY <2>1, <2>3 DEF Counted, CountedOn, Asking
    <3>2. \A h \in Handle :
            Cardinality(Reader \ Asking(h)) <= Cardinality(Reader \ Asking(h)')
      <4> SUFFICES ASSUME NEW h \in Handle
                   PROVE  Cardinality(Reader \ Asking(h)) <= Cardinality(Reader \ Asking(h)')
        OBVIOUS
      <4>1. IsFiniteSet(Reader \ Asking(h)') 
        BY ReaderSets
      <4>2. Reader \ Asking(h) \subseteq Reader \ Asking(h)'
        BY <3>1
      <4> QED
        BY <4>1, <4>2, FS_Subset
    <3>3. \A h \in Handle : /\ Cardinality(Reader \ Asking(h)) \in Nat
                           /\ Cardinality(Reader \ Asking(h)') \in Nat
      BY <1>1
    <3> HIDE DEF CountedOn, Asking
    <3>4. \A h \in Handle : refs'[h] <= 1 + Cardinality(Reader \ Asking(h)')
      <4> SUFFICES ASSUME NEW h \in Handle
                   PROVE  refs'[h] <= 1 + Cardinality(Reader \ Asking(h)')
        OBVIOUS
      <4>1. /\ refs[h] <= 1 + Cardinality(Reader \ Asking(h)) /\ refs[h] \in Nat
            /\ refs'[h] = refs[h]
        BY <1>4, <2>3 DEF BoundInv
      <4> DEFINE m == Cardinality(Reader \ Asking(h))
                 n == Cardinality(Reader \ Asking(h)')
      <4>2. m <= n /\ m \in Nat /\ n \in Nat
        BY <3>2, <3>3
      <4> HIDE DEF m, n
      <4>3. refs[h] <= 1 + m
        BY <4>1 DEF m
      <4>4. refs'[h] <= 1 + n
        BY <4>1, <4>2, <4>3
      <4> QED
        BY <4>4 DEF n
    <3> QED
      BY <2>1, <2>3, <3>1, <3>4 DEF BoundInv
  <2>4. CASE /\ at[r] = "addref" /\ at'[r] = "getraw" /\ ref'[r] = ref[r]
             /\ refs' = [refs EXCEPT ![ref[r]] = refs[ref[r]] + 1]
    <3>1. PICK g \in Handle : g = ref[r]
      BY <2>4 DEF HandleInv, InGetter
    <3>2. /\ g = safeHandle => /\ CountedOn(safeHandle)' = CountedOn(safeHandle) \cup {r}
                               /\ r \in Reader \ CountedOn(safeHandle)
          /\ g # safeHandle => CountedOn(safeHandle)' = CountedOn(safeHandle)
          /\ \A h \in Handle : h # g => Asking(h)' = Asking(h)
          /\ Reader \ Asking(g)' = (Reader \ Asking(g)) \cup {r} /\ r \in Asking(g)
      BY <2>1, <2>4, <3>1 DEF Counted, CountedOn, Asking
    <3>3. \A h \in Handle : refs'[h] = IF h = g THEN refs[h] + 1 ELSE refs[h]
      BY <2>4, <3>1 DEF DataInv
    <3> HIDE DEF CountedOn, Asking
    <3>4. /\ Cardinality(Reader \ Asking(g)') = Cardinality(Reader \ Asking(g)) + 1
          /\ Cardinality(Reader \ Asking(g)) \in Nat
      <4>1. Cardinality((Reader \ Asking(g)) \cup {r}) = Cardinality(Reader \ Asking(g)) + 1
        BY <3>2, ReaderSets
      <4> QED
        BY <1>1, <3>2, <4>1
    <3>5. \A h \in Handle : refs'[h] <= 1 + Cardinality(Reader \ Asking(h)')
      <4> SUFFICES ASSUME NEW h \in Handle
                   PROVE  refs'[h] <= 1 + Cardinality(Reader \ Asking(h)')
        OBVIOUS
      <4>1. refs[h] <= 1 + Cardinality(Reader \ Asking(h)) /\ refs[h] \in Nat
        BY <1>4 DEF BoundInv
      <4>2. CASE h = g
        BY <3>3, <3>4, <4>1, <4>2
      <4>3. CASE h # g
        BY <3>2, <3>3, <4>1, <4>3
      <4> QED
        BY <4>2, <4>3
    <3>6. refs'[safeHandle] <= 1 + Cardinality(CountedOn(safeHandle)')
      <4>1. Cardinality(CountedOn(safeHandle)) \in Nat
        BY <1>1, <1>3
      <4>2. g = safeHandle =>
              Cardinality(CountedOn(safeHandle)') = Cardinality(CountedOn(safeHandle)) + 1
        BY <1>3, <3>2, ReaderSets
      <4> QED
        BY <1>4, <3>2, <3>3, <4>1, <4>2 DEF BoundInv
    <3> QED
      BY <2>1, <3>5, <3>6 DEF BoundInv
  <2>5. CASE /\ at[r] = "getraw" /\ at'[r] = "native" /\ ref'[r] = ref[r] /\ refs' = refs
    <3>1. /\ CountedOn(safeHandle)' = CountedOn(safeHandle) 
          /\ \A h \in Handle : Asking(h)' = Asking(h)
      BY <2>1, <2>5 DEF Counted, CountedOn, Asking
    <3> HIDE DEF CountedOn, Asking
    <3> QED
      BY <2>1, <2>5, <3>1 DEF BoundInv
  <2>6. CASE /\ at[r] = "native" /\ at'[r] = "idle"
             /\ refs' = [refs EXCEPT ![safeHandle] = IF refs[safeHandle] > 0
                                                     THEN refs[safeHandle] - 1
                                                     ELSE refs[safeHandle]]
    <3>1. /\ CountedOn(safeHandle)' = CountedOn(safeHandle) \ {r}
          /\ \A h \in Handle : Asking(h)' = Asking(h)
      BY <2>1, <2>6 DEF Counted, CountedOn, Asking
    <3>2. \/ CountedOn(safeHandle)' = CountedOn(safeHandle)
          \/ /\ Cardinality(CountedOn(safeHandle)') = Cardinality(CountedOn(safeHandle)) - 1
             /\ Cardinality(CountedOn(safeHandle)) > 0
      <4>1. CASE r \in CountedOn(safeHandle)
        BY <1>3, <3>1, <4>1, ReaderSets
      <4>2. CASE r \notin CountedOn(safeHandle)
        BY <3>1, <4>2
      <4> QED
        BY <4>1, <4>2
    <3>3. /\ Cardinality(CountedOn(safeHandle)) \in Nat
          /\ \A h \in Handle : Cardinality(Reader \ Asking(h)) \in Nat
      BY <1>1, <1>3
    <3>4. \A h \in Handle :
            refs'[h] = IF h = safeHandle /\ refs[h] > 0 THEN refs[h] - 1 ELSE refs[h]
      BY <2>6 DEF DataInv
    <3> HIDE DEF CountedOn, Asking
    <3>5. \A h \in Handle : refs'[h] <= 1 + Cardinality(Reader \ Asking(h)')
      BY <1>4, <3>1, <3>3, <3>4 DEF BoundInv
    <3>6. refs'[safeHandle] <= 1 + Cardinality(CountedOn(safeHandle)')
      BY <1>4, <3>2, <3>3, <3>4 DEF BoundInv
    <3> QED
      BY <2>1, <3>5, <3>6 DEF BoundInv
  <2> QED
    BY <1>13, <2>2, <2>3, <2>4, <2>5, <2>6, GetFacts
<1> QED
  BY <1>7, <1>8, <1>9, <1>10, <1>11, <1>12, <1>13, Outline

-----------------------------------------------------------------------------
(* While no handle has been replaced under a getter, the count of each is    *)
(* exact, and what is not disposed of is somebody's to dispose of.           *)
LEMMA CountPreserved ==
  ASSUME DataInv, HandleInv, CountInv, [DatabaseNext]_databaseVars
  PROVE  CountInv'
<1> SUFFICES ASSUME ~crossed' PROVE CountInv'
  BY DEF CountInv
<1> USE HandleFacts
<1> DEFINE Share(h) == IF h = safeHandle THEN Cardinality(Counted) ELSE 0
<1>1. ~crossed
  <2>1. ASSUME NEW r \in Reader, Get(r) PROVE crossed' = crossed
    BY <2>1, GetFacts
  <2>2. ASSUME NEW t \in Reloader, LoadFile(t) PROVE crossed' = crossed
    BY <2>2, LoadFacts
  <2>3. ASSUME NEW t \in Reloader, Swap(t) PROVE crossed => crossed'
    BY <2>3, SwapFacts
  <2>4. ASSUME NEW t \in Reloader, DisposeOld(t) PROVE crossed' = crossed
    BY <2>4, DisposeOldFacts
  <2>5. ASSUME NEW t \in Reloader, Undo(t) PROVE crossed' = crossed
    BY <2>5, UndoFacts
  <2> QED
    BY <2>1, <2>2, <2>3, <2>4, <2>5, FinishFacts, Outline DEF HandlesStay
<1>2. /\ \A r \in Reader : /\ InGetter(r) => ref[r] = safeHandle
                           /\ at[r] = "native" => raw[r] = safeHandle
      /\ \A h \in 1..loaded : refs[h] = Owned(h) + Share(h)
      /\ \A h \in (1..loaded) \ released : h = safeHandle \/ \E t \in Reloader : mine[t] = h
  BY <1>1 DEF CountInv
<1>3. Cardinality(Counted) \in Nat /\ (\A r \in Counted : Cardinality(Counted) > 0)
      /\ (\A r \in Counted : Cardinality(Counted \ {r}) = Cardinality(Counted) - 1)
      /\ (\A r \in Reader \ Counted : Cardinality(Counted \cup {r}) = Cardinality(Counted) + 1)
  <2>1. Counted \in SUBSET Reader
    BY DEF Counted
  <2> HIDE DEF Counted
  <2> QED
    BY <2>1, ReaderSets
<1>4. CountInv' <=>
        /\ \A r \in Reader : /\ InGetter(r)' => ref'[r] = safeHandle'
                             /\ at'[r] = "native" => raw'[r] = safeHandle'
        /\ \A h \in 1..loaded' :
             refs'[h] = Owned(h)' + (IF h = safeHandle' THEN Cardinality(Counted') ELSE 0)
        /\ \A h \in (1..loaded') \ released' : h = safeHandle' \/ \E t \in Reloader : mine'[t] = h
  BY DEF CountInv
<1>5. ASSUME UNCHANGED <<ref, raw, safeHandle>>,
             GettersStay
      PROVE  /\ \A r \in Reader : /\ InGetter(r)' => ref'[r] = safeHandle'
                                  /\ at'[r] = "native" => raw'[r] = safeHandle'
             /\ Counted' = Counted
  BY <1>2, <1>5 DEF Counted, InGetter, GettersStay
<1>6. CASE HandlesStay
  <2>1. GettersStay
    BY <1>6 DEF GettersStay
  <2>2. UNCHANGED <<ref, raw, safeHandle, loaded, refs, released, mine>>
    BY <1>6 DEF HandlesStay
  <2>3. \A h : Owned(h)' = Owned(h)
    BY <2>2 DEF Owned
  <2> QED
    BY <1>2, <1>4, <1>5, <2>1, <2>2, <2>3
<1>7. ASSUME NEW r \in Reader, Get(r)
      PROVE  CountInv'
  <2>1. /\ r \in Thread /\ UNCHANGED <<safeHandle, loaded, released, mine>>
        /\ \A q \in Reader : q # r => at'[q] = at[q] /\ ref'[q] = ref[q] /\ raw'[q] = raw[q]
    BY <1>7, GetFacts DEF Thread
  <2>2. \A h : Owned(h)' = Owned(h)
    BY <2>1 DEF Owned
  <2>3. at[r] = "addref" => ref[r] = safeHandle
    BY <1>2 DEF InGetter
  <2>4. \A q \in Reader : /\ InGetter(q)' => ref'[q] = safeHandle
                          /\ at'[q] = "native" => raw'[q] = safeHandle
    <3>1. InGetter(r)' => ref'[r] = safeHandle
      BY <1>2, <1>7, GetFacts DEF InGetter
    <3>2. at'[r] = "native" => raw'[r] = safeHandle
      BY <1>7, GetFacts
    <3> QED
      BY <1>2, <2>1, <3>1, <3>2 DEF InGetter
  <2>5. \A h \in 1..loaded :
          refs'[h] = Owned(h) + (IF h = safeHandle THEN Cardinality(Counted') ELSE 0)
    <3>1. CASE refs' = refs /\ (r \in Counted' <=> r \in Counted)
      <4>1. Counted' = Counted
        BY <2>1, <3>1 DEF Counted
      <4> QED
        BY <1>2, <3>1, <4>1
    <3>2. CASE /\ at[r] = "addref" /\ at'[r] = "getraw"
               /\ refs' = [refs EXCEPT ![safeHandle] = refs[safeHandle] + 1]
      <4>1. Counted' = Counted \cup {r} /\ r \in Reader \ Counted
        BY <2>1, <3>2 DEF Counted
      <4>2. Cardinality(Counted') = Cardinality(Counted) + 1
        BY <1>3, <4>1
      <4>3. \A h \in 1..loaded : refs'[h] = IF h = safeHandle THEN refs[h] + 1 ELSE refs[h]
        BY <3>2 DEF DataInv
      <4>4. \A h : Owned(h) \in Nat
        BY DEF Owned
      <4> HIDE DEF Counted, Owned
      <4> QED
        BY <1>2, <1>3, <4>2, <4>3, <4>4
    <3>3. CASE /\ at[r] = "native" /\ at'[r] = "idle"
               /\ refs' = [refs EXCEPT ![safeHandle] = IF refs[safeHandle] > 0
                                                       THEN refs[safeHandle] - 1
                                                       ELSE refs[safeHandle]]
      <4>1. Counted' = Counted \ {r} /\ r \in Counted
        BY <2>1, <3>3 DEF Counted
      <4>2. Cardinality(Counted') = Cardinality(Counted) - 1 /\ Cardinality(Counted) > 0
        BY <1>3, <4>1
      <4>3. \A h \in 1..loaded :
              refs'[h] = IF h = safeHandle /\ refs[h] > 0 THEN refs[h] - 1 ELSE refs[h]
        BY <3>3 DEF DataInv
      <4>4. \A h : Owned(h) \in Nat
        BY DEF Owned
      <4> HIDE DEF Counted, Owned
      <4>5. refs[safeHandle] = Owned(safeHandle) + Cardinality(Counted)
        BY <1>2 DEF DataInv
      <4>6. refs[safeHandle] > 0
        BY <1>3, <4>2, <4>4, <4>5
      <4> QED
        BY <1>2, <1>3, <4>2, <4>3, <4>4, <4>6
    <3> QED
      BY <1>7, <2>3, <3>1, <3>2, <3>3, GetFacts DEF Counted
  <2> QED
    BY <1>2, <1>4, <2>1, <2>2, <2>4, <2>5
<1>8. ASSUME NEW t \in Reloader, LoadFile(t)
      PROVE  CountInv'
  <2>1. /\ loaded' = loaded + 1 /\ loaded + 1 \in Handle
        /\ UNCHANGED <<safeHandle, released, ref, raw>>
        /\ mine' = [mine EXCEPT ![t] = loaded + 1]
        /\ refs' = [refs EXCEPT ![loaded + 1] = 1]
        /\ at[t] = "load" /\ at' = [at EXCEPT ![t] = "swap"]
    BY <1>8, LoadFacts
  <2>2. /\ loaded + 1 \notin released /\ loaded + 1 # safeHandle
        /\ 1..loaded' = 1..loaded \cup {loaded + 1}
        /\ loaded + 1 \notin 1..loaded
    <3>1. loaded \in Nat /\ released \subseteq 1..loaded /\ safeHandle \in 1..loaded
      BY DEF DataInv, HandleInv
    <3> QED
      BY <2>1, <3>1
  <2>3. GettersStay
    BY <2>1 DEF GettersStay
  <2>4. \A h : Owned(h)' = Owned(h)
    BY <2>1 DEF Owned
  <2>5. Owned(loaded + 1) = 1
    BY <2>2 DEF Owned
  <2>6. refs'[loaded + 1] = 1 /\ \A h \in 1..loaded : refs'[h] = refs[h]
    BY <2>1, <2>2 DEF DataInv
  <2>7. mine'[t] = loaded + 1 /\ \A u \in Reloader : u # t => mine'[u] = mine[u]
    BY <2>1 DEF DataInv
  <2>8. mine[t] = NoHandle
    BY <2>1 DEF HandleInv
  <2>9. \A h \in (1..loaded') \ released' : h = safeHandle' \/ \E u \in Reloader : mine'[u] = h
    BY <1>2, <2>1, <2>2, <2>7, <2>8
  <2>10. \A h \in 1..loaded' :
           refs'[h] = Owned(h)' + (IF h = safeHandle' THEN Cardinality(Counted) ELSE 0)
    BY <1>2, <2>1, <2>2, <2>4, <2>5, <2>6
  <2> QED
    BY <1>4, <1>5, <2>1, <2>3, <2>9, <2>10
<1>9. ASSUME NEW t \in Reloader, Swap(t)
      PROVE  CountInv'
  <2>1. /\ UNCHANGED <<loaded, refs, released, ref, raw>> /\ safeHandle' = mine[t]
        /\ mine' = [mine EXCEPT ![t] = safeHandle]
        /\ at[t] = "swap" /\ at' = [at EXCEPT ![t] = "dispose"]
        /\ \A r \in Reader : ~InGetter(r)
    BY <1>9, SwapFacts
  <2>2. Counted = {} /\ Counted' = {} /\ \A r \in Reader : ~InGetter(r)'
    BY <2>1 DEF Counted, InGetter
  <2>3. Cardinality(Counted) = 0 /\ Cardinality(Counted') = 0
    BY <2>2, FS_EmptySet
  <2>4. \A h : Owned(h)' = Owned(h) /\ Owned(h) \in Nat
    BY <2>1 DEF Owned
  <2>5. \A h \in (1..loaded) \ released : h = mine[t] \/ \E u \in Reloader : mine'[u] = h
    <3>1. mine'[t] = safeHandle /\ \A u \in Reloader : u # t => mine'[u] = mine[u]
      BY <2>1 DEF DataInv
    <3> QED
      BY <1>2, <3>1
  <2>6. \A h \in 1..loaded : refs[h] = Owned(h)
    BY <1>2, <2>3, <2>4
  <2>7. \A r \in Reader : at'[r] # "native"
    BY <2>2 DEF InGetter
  <2> HIDE DEF InGetter, Counted, Owned
  <2> QED
    BY <1>4, <2>1, <2>2, <2>3, <2>4, <2>5, <2>6, <2>7
<1>10. ASSUME NEW h \in 1..loaded, Released(h)
       PROVE  /\ released' = released \cup {h}
              /\ \A g \in 1..loaded : refs'[g] = Owned(g)' + Share(g)
  <2>1. /\ refs[h] = Owned(h) + Share(h) /\ Owned(h) = (IF h \in released THEN 0 ELSE 1)
        /\ Share(h) \in Nat
    BY <1>2, <1>3 DEF Owned
  <2>2. released' = released \cup {h}
    <3>1. CASE h \in released
      BY <1>10, <3>1 DEF Released
    <3>2. CASE h \notin released
      <4>1. refs[h] > 0
        BY <2>1, <3>2
      <4> QED
        BY <1>10, <4>1 DEF Released
    <3> QED
      BY <3>1, <3>2
  <2>3. Owned(h)' = 0 /\ \A g : g # h => Owned(g)' = Owned(g)
    BY <2>2 DEF Owned
  <2>4. refs'[h] = Share(h)
    <3>1. refs'[h] = IF h \in released \/ refs[h] = 0 THEN refs[h] ELSE refs[h] - 1
      BY <1>10 DEF DataInv, Released
    <3> HIDE DEF Share
    <3> QED
      BY <2>1, <3>1
  <2>5. \A g \in 1..loaded : g # h => refs'[g] = refs[g]
    BY <1>10 DEF Released
  <2>6. \A g \in 1..loaded : refs'[g] = Owned(g)' + Share(g)
    <3> SUFFICES ASSUME NEW g \in 1..loaded PROVE refs'[g] = Owned(g)' + Share(g)
      OBVIOUS
    <3>1. CASE g = h
      <4>1. Owned(g)' = 0
        BY <2>3, <3>1
      <4> HIDE DEF Share, Owned
      <4> QED
        BY <2>1, <2>4, <3>1, <4>1
    <3>2. CASE g # h
      <4> HIDE DEF Share, Owned
      <4> QED
        BY <1>2, <2>3, <2>5, <3>2
    <3> QED
      BY <3>1, <3>2
  <2> QED
    BY <2>2, <2>6
<1>11. ASSUME NEW t \in Reloader, DisposeOld(t)
       PROVE  CountInv'
  <2>1. /\ UNCHANGED <<safeHandle, loaded, ref, raw>>
        /\ mine[t] \in (1..loaded) \ {safeHandle} /\ Released(mine[t])
        /\ mine' = [mine EXCEPT ![t] = NoHandle]
        /\ at[t] = "dispose"
        /\ (at' = [at EXCEPT ![t] = "idle"] \/ at' = [at EXCEPT ![t] = "check"])
    BY <1>11, DisposeOldFacts
  <2>2. GettersStay
    BY <2>1 DEF GettersStay
  <2>3. PICK h \in 1..loaded : h = mine[t]
    BY <2>1
  <2>4. released' = released \cup {h} /\ \A g \in 1..loaded : refs'[g] = Owned(g)' + Share(g)
    BY <1>10, <2>1, <2>3
  <2>5. \A g \in (1..loaded) \ released' : g = safeHandle \/ \E u \in Reloader : mine'[u] = g
    <3>1. \A u \in Reloader : u # t => mine'[u] = mine[u]
      BY <2>1
    <3> QED
      BY <1>2, <2>3, <2>4, <3>1
  <2> QED
    BY <1>4, <1>5, <2>1, <2>2, <2>4, <2>5
<1>12. ASSUME NEW t \in Reloader, Undo(t)
       PROVE  CountInv'
  <2>1. /\ UNCHANGED <<safeHandle, loaded, mine, ref, raw>> /\ Released(safeHandle)
        /\ at[t] = "undo" /\ at' = [at EXCEPT ![t] = "idle"]
    BY <1>12, UndoFacts
  <2>2. GettersStay
    BY <2>1 DEF GettersStay
  <2>3. /\ released' = released \cup {safeHandle}
        /\ \A g \in 1..loaded : refs'[g] = Owned(g)' + Share(g)
    BY <1>10, <2>1 DEF DataInv
  <2> QED
    BY <1>2, <1>4, <1>5, <2>1, <2>2, <2>3
<1>13. CASE FinishDispose
  <2>1. UNCHANGED <<safeHandle, loaded, at, mine, ref, raw>> /\ Released(safeHandle)
    BY <1>13, FinishFacts
  <2>3. /\ released' = released \cup {safeHandle}
        /\ \A g \in 1..loaded : refs'[g] = Owned(g)' + Share(g)
    BY <1>10, <2>1 DEF DataInv
  <2> QED
    BY <1>2, <1>4, <1>5, <2>1, <2>3 DEF GettersStay
<1> QED
  BY <1>6, <1>7, <1>8, <1>9, <1>11, <1>12, <1>13, Outline

(* When Dispose is over, either the installed handle is disposed of or a     *)
(* reload that will dispose of it is on its way to _disposed.                *)
LEMMA DisposePreserved ==
  ASSUME DataInv, HandleInv, CountInv, DisposeInv, [DatabaseNext]_databaseVars
  PROVE  DisposeInv'
<1> USE HandleFacts
<1>1. \A t \in Reloader : t \in Thread
  BY DEF Thread
<1>2. ASSUME NEW r \in Reader, Get(r)
      PROVE  DisposeInv'
  <2>1. \A t \in Reloader : /\ at'[t] = "undo" => at[t] = "undo"
                            /\ at[t] \in {"dispose", "check", "undo"} => at'[t] = at[t]
    BY <1>2, GetFacts DEF Thread
  <2>2. UNCHANGED <<safeHandle, released, crossed, disposed, disposing>>
    BY <1>2, GetFacts
  <2> QED
    BY <2>1, <2>2 DEF DisposeInv
<1>3. ASSUME NEW t \in Reloader, LoadFile(t)
      PROVE  DisposeInv'
  <2>1. at[t] = "load" /\ at' = [at EXCEPT ![t] = "swap"]
    BY <1>3, LoadFacts
  <2>2. \A u \in Reloader : /\ at'[u] = "undo" => at[u] = "undo"
                            /\ at[u] \in {"dispose", "check", "undo"} => at'[u] = at[u]
    BY <2>1
  <2>3. UNCHANGED <<safeHandle, released, crossed, disposed, disposing>>
    BY <1>3, LoadFacts
  <2> QED
    BY <2>2, <2>3 DEF DisposeInv
<1>4. ASSUME NEW t \in Reloader, Swap(t)
      PROVE  DisposeInv'
  <2>1. at[t] = "swap" /\ at' = [at EXCEPT ![t] = "dispose"]
    BY <1>4, SwapFacts
  <2>2. /\ UNCHANGED <<released, disposed, disposing>>
        /\ safeHandle' = mine[t] /\ mine[t] \notin released
        /\ (crossed => crossed')
    BY <1>4, SwapFacts DEF HandleInv
  <2>3. at'[t] = "dispose" /\ \A u \in Reloader : at'[u] = "undo" => at[u] = "undo"
    BY <2>1 DEF DataInv, Thread
  <2> QED
    BY <2>2, <2>3 DEF DisposeInv
<1>5. ASSUME NEW t \in Reloader, DisposeOld(t)
      PROVE  DisposeInv'
  <2>1. /\ UNCHANGED <<safeHandle, crossed, disposed, disposing>>
        /\ mine[t] \in (1..loaded) \ {safeHandle} /\ Released(mine[t]) /\ at[t] = "dispose"
        /\ at' = [at EXCEPT ![t] = IF mine[t] \notin released /\ refs[mine[t]] = 0
                                   THEN "idle" ELSE "check"]
    BY <1>5, DisposeOldFacts
  <2>2. safeHandle \in released' <=> safeHandle \in released
    BY <2>1 DEF Released
  <2>3. \A u \in Reloader : at'[u] = "undo" => at[u] = "undo"
    BY <2>1
  <2>4. ~crossed => at'[t] = "check"
    <3>1. ~crossed /\ mine[t] \notin released => refs[mine[t]] # 0
      BY <2>1 DEF Owned, CountInv
    <3> QED
      BY <2>1, <3>1 DEF DataInv, Thread
  <2> QED
    BY <2>1, <2>2, <2>3, <2>4 DEF DisposeInv
<1>6. ASSUME Released(safeHandle), ~crossed
      PROVE  safeHandle \in released'
  <2>1. safeHandle \notin released => refs[safeHandle] > 0
    <3>1. Cardinality(Counted) \in Nat
      BY ReaderSets DEF Counted
    <3>2. refs[safeHandle] = Owned(safeHandle) + Cardinality(Counted)
      BY <1>6 DEF DataInv, CountInv
    <3> QED
      BY <3>1, <3>2 DEF Owned
  <2> QED
    BY <1>6, <2>1 DEF Released
<1>7. ASSUME NEW t \in Reloader, Undo(t)
      PROVE  DisposeInv'
  <2>1. /\ UNCHANGED <<safeHandle, crossed, disposed, disposing>> /\ Released(safeHandle)
        /\ at[t] = "undo" /\ at' = [at EXCEPT ![t] = "idle"]
    BY <1>7, UndoFacts
  <2>2. \A u \in Reloader : at'[u] = "undo" => at[u] = "undo"
    BY <2>1
  <2>3. disposed
    BY <2>1 DEF DisposeInv
  <2> QED
    BY <1>6, <2>1, <2>2, <2>3 DEF DisposeInv
<1>8. CASE FinishDispose
  <2>1. /\ UNCHANGED <<safeHandle, at, crossed, disposed>> /\ Released(safeHandle)
        /\ disposing = "begun" /\ disposing' = "done"
    BY <1>8, FinishFacts
  <2> QED
    BY <1>6, <2>1 DEF DisposeInv
<1>9. ASSUME UNCHANGED <<safeHandle, released, crossed>>, disposing' = "not" <=> ~disposed',
             disposed => disposed', disposing' = "done" => disposing = "done",
             \A u \in Reloader :
               /\ at'[u] = "undo" => at[u] = "undo" \/ disposed'
               /\ at[u] \in {"dispose", "check", "undo"} => at'[u] \in {"dispose", "check", "undo"}
                                                            \/ disposing' # "done"
      PROVE  DisposeInv'
  BY <1>9 DEF DisposeInv
<1> USE DEF UnlessReload, UnlessWatch, UnlessDispose, handleVars, Goto, DataInv
<1>10. ASSUME NEW t \in Reloader,
              \/ Reload(t) \/ EnableHotReload(t) \/ FailLoad(t)
              \/ InstallWatcher(t) \/ AcceptEvent(t) \/ EndDelay(t)
       PROVE  DisposeInv'
  <2>1. \A u \in Reloader : /\ at'[u] = "undo" => at[u] = "undo"
                            /\ at[u] \in {"dispose", "check", "undo"} => at'[u] = at[u]
    BY <1>1, <1>10 DEF Reload, EnableHotReload, InstallWatcher, AcceptEvent,
       FailLoad, EndDelay
  <2>2. UNCHANGED <<safeHandle, released, crossed, disposed, disposing>>
    BY <1>10 DEF Reload, EnableHotReload, InstallWatcher, AcceptEvent, FailLoad,
       EndDelay
  <2> QED
    BY <2>1, <2>2 DEF DisposeInv
<1>11. ASSUME NEW t \in Reloader, CheckDisposed(t)
       PROVE  DisposeInv'
  <2>1. /\ at[t] = "check" /\ at' = [at EXCEPT ![t] = IF disposed THEN "undo" ELSE "idle"]
        /\ UNCHANGED <<safeHandle, released, crossed, disposed, disposing>>
    BY <1>11 DEF CheckDisposed
  <2>2. disposing = "done" => disposed
    BY DEF DisposeInv
  <2>3. \A u \in Reloader : /\ at'[u] = "undo" => at[u] = "undo" \/ disposed
                            /\ disposed /\ at[u] \in {"dispose", "check", "undo"} =>
                                 at'[u] \in {"dispose", "check", "undo"}
    BY <1>1, <2>1
  <2> QED
    BY <2>1, <2>2, <2>3 DEF DisposeInv
<1>12. CASE DisableHotReload \/ DropEvent \/ CloseWindow
  BY <1>9, <1>12 DEF DropEvent, CloseWindow, DisposeInv, DisableHotReload
<1>13. CASE Dispose
  BY <1>9, <1>13 DEF Dispose
<1>14. CASE WriteFile \/ UNCHANGED databaseVars
  BY <1>9, <1>14 DEF databaseVars, DisposeInv, WriteFile
<1> QED
  BY <1>2, <1>3, <1>4, <1>5, <1>7, <1>8, <1>10, <1>11, <1>12, <1>13, <1>14 DEF
     DatabaseNext, Work

-----------------------------------------------------------------------------
\* The file's version, and who is to bring it: nothing that ServedInv is about.
Elsewhere ==
  /\ UNCHANGED <<safeHandle, contents, sound, saved, missed>> /\ (disposed => disposed')
  /\ events' = events \/ disposed'
  /\ \A t \in Reloader : /\ at[t] \in {"delay", "load", "swap"} => at'[t] = at[t]
                         /\ at'[t] = "swap" => at[t] = "swap"
                         /\ at'[t] = "swap" => mine'[t] = mine[t]

(* A save that loads is installed, or somebody is on the way to install it,  *)
(* and nobody installs an older one after it.                                *)
LEMMA ServedPreserved ==
  ASSUME DataInv, HandleInv, DisposeInv, ServedInv, [DatabaseNext]_databaseVars
  PROVE  ServedInv'
<1> USE HandleFacts
<1>1. \A t \in Reloader : t \in Thread
  BY DEF Thread
<1>2. CASE Elsewhere
  <2>1. \A t \in Reloader : Current(t)' <=> Current(t)
    BY <1>2 DEF Current, Elsewhere
  <2> QED
    BY <1>2, <2>1 DEF ServedInv, Elsewhere
<1>3. ASSUME NEW r \in Reader, Get(r)
      PROVE  ServedInv'
  <2>1. \A t \in Reloader : /\ at[t] \in {"delay", "load", "swap"} => at'[t] = at[t]
                            /\ at'[t] = "swap" => at[t] = "swap"
    BY <1>1, <1>3, GetFacts
  <2> QED
    BY <1>2, <1>3, <2>1, GetFacts DEF Elsewhere
<1>4. ASSUME NEW t \in Reloader, DisposeOld(t)
      PROVE  ServedInv'
  <2>1. /\ mine' = [mine EXCEPT ![t] = NoHandle] /\ at[t] = "dispose"
        /\ (at' = [at EXCEPT ![t] = "idle"] \/ at' = [at EXCEPT ![t] = "check"])
        /\ UNCHANGED <<safeHandle, contents, disposed, events, saved, sound, missed>>
    BY <1>4, DisposeOldFacts
  <2>2. \A u \in Reloader : /\ at[u] \in {"delay", "load", "swap"} => at'[u] = at[u]
                            /\ at'[u] = "swap" => at[u] = "swap" /\ mine'[u] = mine[u]
    BY <1>1, <2>1 DEF DataInv
  <2> QED
    BY <1>2, <2>1, <2>2 DEF Elsewhere
<1>5. ASSUME NEW t \in Reloader, Undo(t)
      PROVE  ServedInv'
  <2>1. /\ at[t] = "undo" /\ at' = [at EXCEPT ![t] = "idle"]
        /\ UNCHANGED <<safeHandle, contents, mine, disposed, events, saved, sound, missed>>
    BY <1>5, UndoFacts
  <2>2. \A u \in Reloader : /\ at[u] \in {"delay", "load", "swap"} => at'[u] = at[u]
                            /\ at'[u] = "swap" => at[u] = "swap"
    BY <1>1, <2>1
  <2> QED
    BY <1>2, <2>1, <2>2 DEF Elsewhere
<1>6. CASE FinishDispose
  BY <1>2, <1>6, FinishFacts DEF DisposeInv, Elsewhere
<1>7. ASSUME NEW t \in Reloader, LoadFile(t)
      PROVE  ServedInv'
  <2>1. /\ UNCHANGED <<safeHandle, disposed, events, saved, sound>>
        /\ loaded' = loaded + 1 /\ loaded + 1 \in Handle
        /\ mine' = [mine EXCEPT ![t] = loaded + 1]
        /\ contents' = [contents EXCEPT ![loaded + 1] = saved]
        /\ missed' = (\E u \in Reloader : at[u] = "swap" /\ contents[mine[u]] # saved)
        /\ at[t] = "load" /\ at' = [at EXCEPT ![t] = "swap"]
    BY <1>7, LoadFacts
  <2>2. \A u \in Reloader : at[u] = "swap" => mine[u] \in 1..loaded
    BY DEF HandleInv
  <2>3. \A h \in Handle : contents'[h] = IF h = loaded + 1 THEN saved ELSE contents[h]
    BY <2>1 DEF DataInv
  <2>4. Current(t)'
    BY <1>1, <2>1 DEF DataInv, Current
  <2>5. \A u \in Reloader : u # t => at'[u] = at[u] /\ mine'[u] = mine[u]
    BY <1>1, <2>1
  <2>6. ASSUME ~missed', NEW u \in Reloader, at'[u] = "swap"
        PROVE  Current(u)'
    <3>1. CASE u = t
      BY <2>4, <3>1
    <3>2. CASE u # t
      <4>1. at[u] = "swap" /\ contents[mine[u]] = saved
        BY <2>1, <2>5, <2>6, <3>2
      <4>2. mine'[u] = mine[u] /\ mine[u] \in Handle /\ mine[u] # loaded + 1
        BY <2>2, <2>5, <3>2, <4>1
      <4> QED
        BY <2>1, <2>3, <2>6, <4>1, <4>2 DEF Current
    <3> QED
      BY <3>1, <3>2
  <2>7. \A h \in Handle : contents'[h] <= saved'
    BY <2>1, <2>3 DEF DataInv, ServedInv
  <2> QED
    BY <2>4, <2>6, <2>7 DEF ServedInv
<1>8. ASSUME NEW t \in Reloader, Swap(t)
      PROVE  ServedInv'
  <2>1. /\ UNCHANGED <<contents, disposed, events, saved, sound, missed>>
        /\ safeHandle' = mine[t] /\ at[t] = "swap" /\ at' = [at EXCEPT ![t] = "dispose"]
        /\ mine' = [mine EXCEPT ![t] = safeHandle]
    BY <1>8, SwapFacts
  <2>2. \A u \in Reloader :
          u # t => at'[u] = at[u] /\ mine'[u] = mine[u] /\ (Current(u)' <=> Current(u))
    BY <1>1, <2>1 DEF Current
  <2>3. /\ at'[t] = "dispose" /\ ~Current(t)'
        /\ (Current(t) <=> contents[safeHandle'] = saved)
    BY <1>1, <2>1 DEF DataInv, Current
  <2> QED
    BY <2>1, <2>2, <2>3 DEF ServedInv
<1>9. ASSUME NEW t \in Reloader,
             \/ Reload(t) \/ EnableHotReload(t) \/ CheckDisposed(t) \/ InstallWatcher(t)
      PROVE  ServedInv'
  <2>1. \A u \in Reloader : /\ at[u] \in {"delay", "load", "swap"} => at'[u] = at[u]
                            /\ at'[u] = "swap" => at[u] = "swap"
    BY <1>1, <1>9 DEF DataInv, Goto, Reload, EnableHotReload, InstallWatcher,
       CheckDisposed
  <2>2. UNCHANGED <<safeHandle, contents, mine, disposed, events, saved, sound, missed>>
    BY <1>9 DEF watchVars, fileVars, handleVars, Reload, EnableHotReload,
       InstallWatcher, UnlessReload, UnlessWatch, CheckDisposed
  <2> QED
    BY <1>2, <2>1, <2>2 DEF Elsewhere
<1>10. ASSUME NEW t \in Reloader, FailLoad(t) \/ AcceptEvent(t) \/ EndDelay(t)
       PROVE  ServedInv'
  <2>1. /\ UNCHANGED <<safeHandle, contents, mine, disposed, saved, sound, missed>>
        /\ at[t] \in {"load", "idle", "delay"}
        /\ \/ at'[t] \in {"load", "delay"}
           \/ at'[t] = "idle" /\ events' = events /\ (~sound \/ disposed)
        /\ \A u \in Reloader : u # t => at'[u] = at[u]
    BY <1>1, <1>10 DEF watchVars, DataInv, fileVars, handleVars, Goto, AcceptEvent,
       UnlessReload, UnlessWatch, FailLoad, EndDelay
  <2>2. \A u \in Reloader :
          (at'[u] = "swap" <=> at[u] = "swap") /\ (Current(u)' <=> Current(u))
    BY <2>1 DEF Current
  <2> QED
    BY <2>1, <2>2 DEF ServedInv
<1>11. CASE DisableHotReload \/ DropEvent
  <2>1. /\ UNCHANGED <<safeHandle, contents, mine, disposed, saved, sound, at>>
        /\ \/ missed'
           \/ missed' = missed /\ events' = events
           \/ missed' = missed /\ \E t \in Reloader : at[t] = "delay"
    BY <1>11 DEF DropEvent, DataInv, fileVars, handleVars, UnlessWatch,
       DisableHotReload
  <2>2. \A u \in Reloader : Current(u)' <=> Current(u)
    BY <2>1 DEF Current
  <2> QED
    BY <2>1, <2>2 DEF ServedInv
<1>12. CASE WriteFile
  <2>1. UNCHANGED <<safeHandle, contents, mine, at, disposed>> /\ saved' = saved + 1
    BY <1>12 DEF handleVars, WriteFile
  <2>6. ~missed' => events' > 0
    <3>1. ~missed' => watching /\ events' \in (events + 1)..MaxEvents
      BY <1>12 DEF WriteFile
    <3> QED
      BY <3>1 DEF DataInv
  <2>2. \A h \in Handle : contents[h] \in Nat /\ contents[h] <= saved /\ saved \in Nat
    BY DEF DataInv, ServedInv
  <2>3. \A h \in Handle : contents'[h] <= saved' /\ contents'[h] # saved'
    BY <2>1, <2>2
  <2>4. \A t \in Reloader : ~Current(t)'
    BY <2>1, <2>3 DEF HandleInv, Current
  <2>5. safeHandle' \in Handle
    BY <2>1
  <2> QED
    BY <2>1, <2>3, <2>4, <2>5, <2>6 DEF ServedInv
<1>13. CASE CloseWindow \/ Dispose \/ UNCHANGED databaseVars
  BY <1>2, <1>13 DEF CloseWindow, Dispose, UnlessDispose, databaseVars, watchVars,
     fileVars, handleVars, Elsewhere, UnlessWatch
<1> QED
  BY <1>3, <1>4, <1>5, <1>6, <1>7, <1>8, <1>9, <1>10, <1>11, <1>12, <1>13 DEF
     DatabaseNext, Work

-----------------------------------------------------------------------------
LEMMA DatabaseInvariant == DatabaseSpec => []DatabaseInv
<1>1. DatabaseInv /\ [DatabaseNext]_databaseVars => DatabaseInv'
  BY DataPreserved, HandlePreserved, BoundPreserved, CountPreserved,
     DisposePreserved, ServedPreserved DEF DatabaseInv
<1> QED
  BY <1>1, InitInv, PTL DEF DatabaseSpec

(* The types of the binding's variables, for any number of threads: a handle *)
(* is counted once by its owner and at most once by each getter.             *)
THEOREM DatabaseTypeCorrect == DatabaseSpec => []DatabaseTypeOK
<1>1. ASSUME DatabaseInv PROVE DatabaseTypeOK
  <2> USE <1>1 DEF DatabaseInv
  <2>1. \A h \in Handle : refs[h] \in 0..(1 + Cardinality(Reader))
    <3> SUFFICES ASSUME NEW h \in Handle PROVE refs[h] \in 0..(1 + Cardinality(Reader))
      OBVIOUS
    <3>1. refs[h] \in Nat /\ refs[h] <= 1 + Cardinality(Reader \ Asking(h))
      BY DEF DataInv, BoundInv
    <3> HIDE DEF Asking
    <3>2. /\ Cardinality(Reader \ Asking(h)) \in Nat /\ Cardinality(Reader) \in Nat
          /\ Cardinality(Reader \ Asking(h)) <= Cardinality(Reader)
      BY ReaderSets
    <3> QED
      BY <3>1, <3>2
  <2> QED
    BY <2>1 DEF DatabaseTypeOK, DataInv, ThreadPlaces
<1> QED
  BY <1>1, DatabaseInvariant, PTL

(* No native call of a getter runs on a database that a reload or a Dispose  *)
(* has freed, unless a reload has replaced the handle in the middle of one.  *)
THEOREM CallsAreOnLive == DatabaseSpec => []CallsOnLive
<1>1. ASSUME DatabaseInv PROVE CallsOnLive
  <2> SUFFICES ASSUME NEW r \in Reader, raw[r] # NoHandle, ~crossed PROVE refs[raw[r]] > 0
    BY DEF CallsOnLive
  <2> USE <1>1 DEF DatabaseInv
  <2>1. at[r] = "native"
    BY DEF HandleInv
  <2>2. raw[r] = safeHandle /\ refs[safeHandle] = Owned(safeHandle) + Cardinality(Counted)
    BY <2>1 DEF DataInv, CountInv
  <2>3. Cardinality(Counted) \in Nat /\ Cardinality(Counted) > 0
    BY <2>1, ReaderSets DEF Counted
  <2>4. Owned(safeHandle) \in Nat
    BY DEF Owned
  <2> HIDE DEF Counted, Owned
  <2> QED
    BY <2>2, <2>3, <2>4
<1> QED
  BY <1>1, DatabaseInvariant, PTL

(* However reloads and Dispose overlap, what is left live when all threads   *)
(* are idle is the installed handle, or nothing after Dispose.               *)
THEOREM NothingIsLeaked == DatabaseSpec => []NothingLeaks
<1>1. ASSUME DatabaseInv PROVE NothingLeaks
  <2> SUFFICES ASSUME AllIdle, ~crossed PROVE {h \in Handle : refs[h] > 0} = Wanted
    BY DEF NothingLeaks
  <2> USE <1>1, HandleFacts DEF DatabaseInv
  <2>1. \A t \in Thread : at[t] = "idle"
    BY DEF AllIdle
  <2>2. Counted = {} /\ \A t \in Reloader : mine[t] = NoHandle
    BY <2>1 DEF Thread, HandleInv, Counted
  <2>3. Cardinality(Counted) = 0
    BY <2>2, FS_EmptySet
  <2>4. \A h \in 1..loaded : refs[h] = IF h \in released THEN 0 ELSE 1
    BY <2>3 DEF Owned, CountInv
  <2>5. \A h \in (1..loaded) \ released : h = safeHandle
    BY <2>2 DEF CountInv
  <2>6. \A h \in Handle : h \notin 1..loaded => refs[h] = 0
    BY DEF HandleInv
  <2>7. disposed <=> safeHandle \in released
    <3>1. disposed => disposing = "done"
      BY DEF AllIdle, DataInv, DisposeInv
    <3>2. \A t \in Reloader : at[t] = "idle"
      BY <2>1 DEF Thread
    <3> QED
      BY <3>1, <3>2 DEF DisposeInv
  <2>8. safeHandle \in 1..loaded
    BY DEF DataInv
  <2> QED
    BY <2>4, <2>5, <2>6, <2>7, <2>8 DEF Wanted
<1> QED
  BY <1>1, DatabaseInvariant, PTL

(* The debounce, the waiting time and reloads that overlap lose no save,     *)
(* but for the two cases that SavesAreServed excepts.                        *)
THEOREM EverySaveIsServed == DatabaseSpec => []SavesAreServed
<1>1. ASSUME DatabaseInv PROVE SavesAreServed
  <2> SUFFICES ASSUME AllIdle, events = 0, ~disposed, sound, ~missed
               PROVE  contents[safeHandle] = saved
    BY DEF SavesAreServed
  <2>1. \A t \in Reloader : at[t] = "idle"
    BY DEF AllIdle, Thread
  <2> QED
    BY <1>1, <2>1 DEF DatabaseInv, ServedInv, Current
<1> QED
  BY <1>1, DatabaseInvariant, PTL
=============================================================================
