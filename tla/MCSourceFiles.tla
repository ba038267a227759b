----------------------------- MODULE MCSourceFiles -----------------------------
\* Files that change under those who look at them: two threads that load two
\* files through one loader, a watcher of one of them, or a reader of the files
\* that a compiler encrypts.  None sees anything of another, so a behaviour has
\* one of them.
EXTENDS LoaderCache, HotReload, DlmArtifacts, TLC

CONSTANTS
  t1, t2, p1, p2, c1,
  ThreadVersions   \* bound: the versions of all files while the threads look

VARIABLE user   \* "threads", "watcher" or "pipeline"

mcVars == <<history, threadVars, watcherVars, pipelineVars, user>>

MCInit ==
  LoaderInit /\ WatcherInit /\ PipelineInit /\ user \in {"threads", "watcher", "pipeline"}

MCNext ==
  /\ \/ /\ user = "threads" /\ Next /\ UNCHANGED <<watcherVars, pipelineVars>>
        /\ Cardinality(Versions') <= ThreadVersions
     \/ user = "watcher" /\ WatcherNext /\ UNCHANGED <<threadVars, pipelineVars>>
     \/ user = "pipeline" /\ PipelineNext /\ UNCHANGED <<history, threadVars, watcherVars>>
  /\ UNCHANGED user

MCSpec ==
  /\ MCInit /\ [][MCNext]_mcVars
  /\ WF_mcVars(Watch /\ user = "watcher" /\ UNCHANGED <<threadVars, pipelineVars, user>>)
  /\ SF_mcVars(Reload /\ user = "watcher" /\ UNCHANGED <<threadVars, pipelineVars, user>>)

\* ChangeIsPickedUp, of a behaviour that has the watcher.
WatcherPicksUp == user = "watcher" => ChangeIsPickedUp
=============================================================================
