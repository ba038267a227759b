----------------------------- MODULE DlmArtifacts -----------------------------
(***************************************************************************)
(* The files of the DLM pipeline: every run of DLMPipelineExecutor encrypts *)
(* with a fresh key and replaces x.mdix.enc, then x.mdix.key, while        *)
(* DixLoader::load_encrypted may be reading them                           *)
(* (dixscript/src/Compiler/DLM, Compiler/Utilities/file_permissions.rs).   *)
(*                                                                         *)
(* A file is known by the run that wrote it.  Each step is one access to   *)
(* the file system: fs::write is its open, which truncates, and the write  *)
(* proper.  Any access of a compiler may fail, and a compiler may die, if  *)
(* MayFail.  The bytes of one run do not decrypt under the key of another: *)
(* the ciphers authenticate, or the unpacker refuses the result.           *)
(***************************************************************************)
EXTENDS Naturals, FiniteSets

CONSTANTS
  Compiler,   \* the threads and processes that compile the same source
  MayFail,    \* whether accesses may fail and compilers die
  MaxRuns     \* bound: the runs of the pipeline

ASSUME ArtifactsAssumption == MayFail \in BOOLEAN /\ MaxRuns \in Nat \ {0}

Artifacts == {"enc", "key"}

Runs == 1..MaxRuns
Torn == 0        \* the content of a file truncated, or half of two runs

VARIABLES
  present,    \* the artifacts that exist
  content,    \* artifact -> Torn or the run that wrote it
  readonly,   \* the artifacts locked at the OS level
  started,    \* the number of runs begun
  troubled,   \* the runs that met a failure of the system, or died
  compiler,   \* each compiler: its step, artifact, run, and the paths its result reports
  reader      \* load_encrypted: its step, what it read, and what was settled as it began

disk == <<present, content, readonly>>
pipelineVars == <<disk, started, troubled, compiler, reader>>

Resting == [at |-> "idle", file |-> "enc", run |-> 0, wrote |-> FALSE, reported |-> {}]
NoRead  == [at |-> "idle", enc |-> 0, result |-> Torn, settled |-> 0, since |-> 0]

PipelineInit ==
  /\ present = {} /\ content = [f \in Artifacts |-> Torn] /\ readonly = {}
  /\ started = 0 /\ troubled = {}
  /\ compiler = [c \in Compiler |-> Resting]
  /\ reader = NoRead

Settled(c) == compiler[c].at = "idle"
Quiet      == \A c \in Compiler : Settled(c)

\* The run that is the latest, over, and met no failure; 0 if there is none.
SettledRun == IF Quiet /\ started \notin troubled THEN started ELSE 0

-----------------------------------------------------------------------------
At(c, place)   == compiler[c].at = place
Now(c)         == compiler[c].file
Goes(c, place) == compiler' = [compiler EXCEPT ![c].at = place]

\* execute has encrypted the source and calls generate_output_files.
StartRun(c) ==
  /\ Settled(c) /\ started < MaxRuns
  /\ started' = started + 1
  /\ compiler' = [compiler EXCEPT ![c] = [Resting EXCEPT !.at = "unlock", !.run = started + 1]]
  /\ UNCHANGED <<disk, troubled, reader>>

\* An access of c fails, or does not.
Trouble(c, failed) ==
  /\ failed => MayFail
  /\ troubled' = IF failed THEN troubled \cup {compiler[c].run} ELSE troubled
  /\ UNCHANGED <<started, reader>>

\* write_enc_file or write_key_file returned: on to the key, or the run is over.
Written(c, reported) ==
  compiler' = [compiler EXCEPT ![c] =
    [@ EXCEPT !.at = IF Now(c) = "enc" THEN "unlock" ELSE "idle",
              !.file = "key", !.wrote = FALSE, !.reported = reported]]

\* Faulty variant: a file that is there is not unlocked.
UnlockNothing(c) ==
  /\ At(c, "unlock")
  /\ Trouble(c, FALSE)
  /\ Goes(c, "open")
  /\ UNCHANGED disk

\* set_writable, when the file exists: its failure is `?`.
Unlock(c) ==
  /\ At(c, "unlock")
  /\ \E failed \in BOOLEAN :
       /\ Trouble(c, failed)
       /\ failed => Now(c) \in present
       /\ readonly' = IF failed THEN readonly ELSE readonly \ {Now(c)}
       /\ IF failed THEN Written(c, compiler[c].reported) ELSE Goes(c, "open")
  /\ UNCHANGED <<present, content>>

\* Faulty variant: only a new file is written.
OpenNew(c) ==
  /\ At(c, "open")
  /\ Trouble(c, FALSE)
  /\ IF Now(c) \in present
     THEN Goes(c, "lock") /\ UNCHANGED <<present, content>>
     ELSE Goes(c, "fill") /\ present' = present \cup {Now(c)} /\ UNCHANGED content
  /\ UNCHANGED readonly

\* fs::write opens and truncates; a file that was locked again cannot be opened.
Open(c) ==
  /\ At(c, "open")
  /\ \E failed \in BOOLEAN :
       /\ Trouble(c, failed)
       /\ IF failed \/ Now(c) \in readonly
          THEN Goes(c, "lock") /\ UNCHANGED <<present, content>>
          ELSE /\ Goes(c, "fill")
               /\ present' = present \cup {Now(c)}
               /\ content' = [content EXCEPT ![Now(c)] = Torn]
  /\ UNCHANGED readonly

\* The bytes go to the start of the file, over what another run wrote there.
Fill(c) ==
  /\ At(c, "fill")
  /\ \E failed \in BOOLEAN :
       /\ Trouble(c, failed)
       /\ \E left \in IF content[Now(c)] = Torn
                      THEN {IF failed THEN Torn ELSE compiler[c].run}
                      ELSE {Torn} \cup (IF failed THEN {} ELSE {compiler[c].run}) :
            content' = [content EXCEPT ![Now(c)] = left]
       /\ compiler' = [compiler EXCEPT ![c].at = "lock", ![c].wrote = ~failed]
  /\ UNCHANGED <<present, readonly>>

\* Faulty variant: the path is reported whether the write went well or not.
LockAndReport(c) ==
  /\ At(c, "lock")
  /\ Trouble(c, FALSE)
  /\ readonly' = IF Now(c) \in present THEN readonly \cup {Now(c)} ELSE readonly
  /\ Written(c, compiler[c].reported \cup {Now(c)})
  /\ UNCHANGED <<present, content>>

\* set_readonly: its failure is a warning.
Lock(c) ==
  /\ At(c, "lock")
  /\ \E failed \in BOOLEAN :
       /\ Trouble(c, failed)
       /\ readonly' = IF failed \/ Now(c) \notin present
                      THEN readonly ELSE readonly \cup {Now(c)}
  /\ Written(c, IF compiler[c].wrote THEN compiler[c].reported \cup {Now(c)}
                ELSE compiler[c].reported)
  /\ UNCHANGED <<present, content>>

Die(c) ==
  /\ ~Settled(c)
  /\ Trouble(c, TRUE)
  /\ compiler' = [compiler EXCEPT ![c] = Resting]
  /\ UNCHANGED disk

Compile(c) == StartRun(c) \/ Unlock(c) \/ Open(c) \/ Fill(c) \/ Lock(c) \/ Die(c)

-----------------------------------------------------------------------------
Readable(f) == f \in present /\ content[f] # Torn

Ends(result) == reader' = [reader EXCEPT !.at = "idle", !.result = result]

BeginRead ==
  /\ reader.at = "idle"
  /\ reader' = [NoRead EXCEPT !.at = IF "enc" \in present THEN "resolve" ELSE "idle",
                              !.settled = SettledRun, !.since = started]

\* resolve_key_file and parse_key_file_content
ResolveKey ==
  /\ reader.at = "resolve"
  /\ IF Readable("key") THEN reader' = [reader EXCEPT !.at = "enc"] ELSE Ends(Torn)

\* DLMReverseExecutor::execute reads both files again.
ReadEnc ==
  /\ reader.at = "enc"
  /\ reader' = [reader EXCEPT !.at = "key", !.enc = content["enc"]]

\* Bytes written by run n decrypt and unpack under the key now on disk.
Decrypts(n) == Readable("key") /\ content["key"] = n

ReadKey ==
  /\ reader.at = "key"
  /\ Ends(IF Decrypts(reader.enc) THEN reader.enc ELSE Torn)

Read == (BeginRead \/ ResolveKey \/ ReadEnc \/ ReadKey)
        /\ UNCHANGED <<disk, started, troubled, compiler>>

PipelineNext == Read \/ \E c \in Compiler : Compile(c)

PipelineSpec == PipelineInit /\ [][PipelineNext]_pipelineVars

-----------------------------------------------------------------------------
Work ==
  [at : {"idle", "unlock", "open", "fill", "lock"}, file : Artifacts, run : 0..MaxRuns,
   wrote : BOOLEAN, reported : SUBSET Artifacts]
Reading ==
  [at : {"idle", "resolve", "enc", "key"}, enc : {Torn} \cup Runs, result : {Torn} \cup Runs,
   settled : 0..MaxRuns, since : 0..MaxRuns]

\* The types of the disk, the runs, the compilers and the reader.
PipelineTypeOK ==
  /\ content \in [Artifacts -> {Torn} \cup Runs]
  /\ present \subseteq Artifacts /\ readonly \subseteq present
  /\ started \in 0..MaxRuns /\ troubled \subseteq Runs
  /\ compiler \in [Compiler -> Work] /\ reader \in Reading

(* "The compiler unlocks, writes, then re-locks in a single critical        *)
(* section": when no run is under way and the latest one met no failure,    *)
(* both files are locked and hold one run, whatever failures, deaths and    *)
(* half-written files the runs before it left behind.                       *)
CleanRunLeavesLockedPair ==
  SettledRun # 0 =>
    /\ readonly = Artifacts
    /\ \E n \in Runs : \A f \in Artifacts : content[f] = n

(* A path that the result of the latest run reports is a file with what the *)
(* run wrote, also when the run failed elsewhere: encrypted_file_path and   *)
(* key_file_path are None otherwise.                                        *)
ReportedIsOnDisk ==
  \A c \in Compiler : Settled(c) /\ compiler[c].run = started =>
    \A f \in compiler[c].reported : content[f] = started

(* load_encrypted on files no run is replacing returns the latest run, when *)
(* that run met no failure; and no read returns anything older than the run *)
(* that was settled as it began.                                            *)
ReadsTheSettledRun ==
  reader.at = "idle" /\ reader.settled # 0 =>
    /\ reader.result # Torn => reader.result >= reader.settled
    /\ reader.since = started => reader.result = reader.settled
=============================================================================
