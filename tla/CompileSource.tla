---------------------------- MODULE CompileSource ----------------------------
(***************************************************************************)
(* DixLoader::compile_source_from_bytes under its entry points: one source *)
(* is scanned, parsed, analyzed and resolved                               *)
(* (dixscript/src/Runtime/loader.rs), on threads that may share a loader.  *)
(*                                                                         *)
(* Two things outlive a compilation: the ErrorManager of its loader        *)
(* (whether there are errors, and the strategy it was last given), which   *)
(* every stage asks whether to stop; and the process-wide table of enums,  *)
(* under a lock that only the loader takes.  The language server analyzes  *)
(* without it.                                                             *)
(*                                                                         *)
(* Each step is one access to one of the two.  A source is its strategy,   *)
(* its @ENUMS, and the entries of its @DATA section: a "stray" one comes   *)
(* after a character that is no token, a "malformed" one does not parse,   *)
(* an "invalid" one fails its analysis.  Recover stops nowhere and is      *)
(* "continue" here; other sections go the way of @DATA.                    *)
(***************************************************************************)
EXTENDS Naturals, Sequences

CONSTANTS
  Thread,
  Loader,
  Source,
  Contents,   \* source -> its strategy, entries and enums
  Nobody      \* no thread

Kinds      == {"good", "stray", "malformed", "invalid"}
Strategies == {"halt", "continue"}

Entries(s)     == Contents[s].entries
Enums(s)       == Contents[s].enums
OwnStrategy(s) == Contents[s].strategy

ASSUME CompileAssumption ==
  /\ Nobody \notin Thread
  /\ \A s \in Source :
       /\ Entries(s) \in Seq(Kinds)
       /\ OwnStrategy(s) \in Strategies

VARIABLES
  errors,     \* loader -> has_errors
  strategy,   \* loader -> error_handling_strategy of its manager's settings
  registry,   \* DIXSCRIPT_ENUMS: enum -> the source its fields are from
  guard,      \* the thread with ENUM_REGISTRY_LOCK
  job         \* each thread's compilation

vars == <<errors, strategy, registry, guard, job>>

\* As a compilation begins.  The last three fields are history: the strategy the
\* manager still had, whether no other load has touched the manager since, and
\* whether no analysis without the lock has touched the table.
Job(s, l, place, alone) ==
  [at |-> place, source |-> s, loader |-> l,
   next |-> 1,           \* the entry the stage comes to
   kept |-> {},          \* entries that are still there
   cut |-> FALSE,        \* scanning stopped before the end
   section |-> TRUE,     \* there is a @DATA section
   failed |-> FALSE,     \* semantic errors
   todo |-> {},          \* enums to register
   ok |-> FALSE,         \* the result, once "done"
   inherited |-> strategy[l], alone |-> alone, undisturbed |-> TRUE]

At(t)   == job[t].at
From(t) == Entries(job[t].source)
Over(t) == At(t) \in {"idle", "done"}

Init ==
  /\ errors   = [l \in Loader |-> FALSE]
  /\ strategy = [l \in Loader |-> "halt"]
  /\ registry = << >> /\ guard = Nobody
  /\ \E s \in Source, l \in Loader : job = [t \in Thread |-> Job(s, l, "idle", FALSE)]

\* should_terminate_parsing
Halting(l) == errors[l] /\ strategy[l] = "halt"

\* Only t's compilation moves on, to j.
Becomes(t, j) == job' = [job EXCEPT ![t] = j]

Report(t) == errors' = [errors EXCEPT ![job[t].loader] = TRUE]

IsFirst(i, S) == i \in S /\ \A k \in S : i <= k

-----------------------------------------------------------------------------
\* Thread t calls an entry point; every other load of the loader is no longer alone.
Started(t, s, l, cleared) ==
  LET others == {u \in Thread \ {t} : ~Over(u) /\ job[u].loader = l}
      alone  == others = {} /\ (cleared \/ ~errors[l])
  IN job' = [u \in Thread |->
       IF u = t THEN Job(s, l, "scan", alone)
       ELSE IF u \in others THEN [job[u] EXCEPT !.alone = FALSE] ELSE job[u]]

\* Faulty variant: the errors of the last load stay.
BeginUncleared(t, s, l) ==
  /\ Over(t)
  /\ Started(t, s, l, TRUE)
  /\ UNCHANGED <<errors, strategy, registry, guard>>

\* load_text, load_from_str, compile_to_resolved_ast, ...: clear_errors.
Begin(t, s, l) ==
  /\ Over(t)
  /\ errors' = [errors EXCEPT ![l] = FALSE]
  /\ Started(t, s, l, TRUE)
  /\ UNCHANGED <<strategy, registry, guard>>

\* compile_with_dlm_from_str clears nothing.
BeginInMemory(t, s, l) ==
  /\ Over(t)
  /\ Started(t, s, l, FALSE)
  /\ UNCHANGED <<errors, strategy, registry, guard>>

\* "File not found", and an unreadable file.
RefuseSource(t) ==
  /\ At(t) = "scan" /\ job[t].next = 1
  /\ Report(t)
  /\ Becomes(t, [job[t] EXCEPT !.at = "idle"])
  /\ UNCHANGED <<strategy, registry, guard>>

-----------------------------------------------------------------------------
\* Stage 1.  The manager has the strategy of the source before.
Strays(t) == {i \in job[t].next..Len(From(t)) : From(t)[i] = "stray"}

MeetStray(t) ==
  /\ At(t) = "scan"
  /\ \E i \in Strays(t) :
       /\ IsFirst(i, Strays(t))
       /\ Becomes(t, [job[t] EXCEPT !.at = "stray", !.next = i])
  /\ Report(t)
  /\ UNCHANGED <<strategy, registry, guard>>

\* The loop ends, or goes on after the character.
PassStray(t) ==
  /\ At(t) = "stray"
  /\ IF Halting(job[t].loader)
     THEN Becomes(t, [job[t] EXCEPT !.at = "cut", !.cut = TRUE,
                                    !.kept = 1..(job[t].next - 1)])
     ELSE Becomes(t, [job[t] EXCEPT !.at = "scan", !.next = @ + 1])
  /\ UNCHANGED <<errors, strategy, registry, guard>>

\* Stage 3: update_settings.
Configure(t) ==
  /\ \/ At(t) = "cut" /\ Becomes(t, [job[t] EXCEPT !.at = "parse", !.next = 1])
     \/ At(t) = "scan" /\ Strays(t) = {}
        /\ Becomes(t, [job[t] EXCEPT !.at = "parse", !.next = 1, !.kept = DOMAIN From(t)])
  /\ strategy' = [strategy EXCEPT ![job[t].loader] = OwnStrategy(job[t].source)]
  /\ UNCHANGED <<errors, registry, guard>>

\* Stage 4.  What was cut lacks its ')'.
Faults(t) ==
  LET end == Len(From(t)) + 1
  IN {i \in job[t].kept : i >= job[t].next /\ From(t)[i] = "malformed"}
       \cup {i \in {end} : job[t].cut /\ job[t].next <= end}

MeetFault(t) ==
  /\ At(t) = "parse"
  /\ \E i \in Faults(t) :
       /\ IsFirst(i, Faults(t))
       /\ Becomes(t, [job[t] EXCEPT !.at = "fault", !.next = i])
  /\ Report(t)
  /\ UNCHANGED <<strategy, registry, guard>>

\* should_halt_section asks the manager, handle_section_failure the source's own
\* settings: no section, or an empty one.
PassFault(t) ==
  /\ At(t) = "fault"
  /\ IF Halting(job[t].loader)
     THEN Becomes(t, [job[t] EXCEPT !.at = "parsed", !.kept = {},
                                    !.section = OwnStrategy(job[t].source) # "halt"])
     ELSE Becomes(t, [job[t] EXCEPT !.at = "parse", !.kept = @ \ {job[t].next},
                                    !.next = @ + 1])
  /\ UNCHANGED <<errors, strategy, registry, guard>>

Parsed(t) ==
  \/ At(t) = "parsed"
  \/ At(t) = "parse" /\ Faults(t) = {}

-----------------------------------------------------------------------------
\* Faulty variant: nobody waits.
AcquireNothing(t) ==
  /\ Parsed(t)
  /\ guard' = t
  /\ Becomes(t, [job[t] EXCEPT !.at = "clear"])
  /\ UNCHANGED <<errors, strategy, registry>>

\* ENUM_REGISTRY_LOCK, also from one who died with it.
Acquire(t) ==
  /\ Parsed(t) /\ guard = Nobody
  /\ guard' = t
  /\ Becomes(t, [job[t] EXCEPT !.at = "clear"])
  /\ UNCHANGED <<errors, strategy, registry>>

\* Stage 5: clear_enums, register_enum for each, then the sections.
ClearEnums(t) ==
  /\ At(t) = "clear"
  /\ registry' = << >>
  /\ Becomes(t, [job[t] EXCEPT !.at = "analyze", !.next = 1,
                              !.todo = Enums(job[t].source)])
  /\ UNCHANGED <<errors, strategy, guard>>

With(e, s) == [n \in DOMAIN registry \cup {e} |-> IF n = e THEN s ELSE registry[n]]

RegisterEnum(t, e) ==
  /\ At(t) = "analyze" /\ e \in job[t].todo
  /\ registry' = With(e, job[t].source)
  /\ Becomes(t, [job[t] EXCEPT !.todo = @ \ {e}])
  /\ UNCHANGED <<errors, strategy, guard>>

Unseen(t) == {i \in job[t].kept : i >= job[t].next}

\* validate_data_entry
AnalyzeEntry(t) ==
  /\ At(t) = "analyze" /\ job[t].todo = {}
  /\ \E i \in Unseen(t) :
       /\ IsFirst(i, Unseen(t))
       /\ LET bad == From(t)[i] = "invalid"
          IN /\ IF bad THEN Report(t) ELSE UNCHANGED errors
             /\ Becomes(t, [job[t] EXCEPT !.at = "analyzed", !.next = i + 1,
                                         !.failed = @ \/ bad])
  /\ UNCHANGED <<strategy, registry, guard>>

\* The entries after an error are not looked at: whoever made the error.
PassEntry(t) ==
  /\ At(t) = "analyzed"
  /\ Becomes(t, [job[t] EXCEPT !.at = IF Halting(job[t].loader) THEN "judge" ELSE "analyze"])
  /\ UNCHANGED <<errors, strategy, registry, guard>>

\* The compilation returns, and the guard goes out of scope.
Return(t, place, ok) ==
  /\ guard' = Nobody
  /\ Becomes(t, [job[t] EXCEPT !.at = place, !.ok = ok,
                              !.kept = IF ok THEN @ ELSE {},
                              !.next = 1, !.cut = FALSE, !.failed = FALSE, !.todo = {}])

EndAnalysis(t) ==
  /\ \/ At(t) = "judge"
     \/ At(t) = "analyze" /\ job[t].todo = {} /\ Unseen(t) = {}
  /\ IF job[t].failed
     THEN Return(t, "done", FALSE)
     ELSE Becomes(t, [job[t] EXCEPT !.at = "resolve"]) /\ UNCHANGED guard
  /\ UNCHANGED <<errors, strategy, registry>>

\* Stage 7, for a source whose functions ask for its enums (Enum.getValue, ...).
Resolve(t) ==
  /\ At(t) = "resolve"
  /\ LET found == job[t].section => Enums(job[t].source) \subseteq DOMAIN registry
     IN /\ Return(t, "done", found)
        /\ IF found THEN UNCHANGED errors ELSE Report(t)
  /\ UNCHANGED <<strategy, registry>>

-----------------------------------------------------------------------------
\* A panic under the lock, which the caller of the loader catches.
Panic(t) ==
  /\ guard = t
  /\ Return(t, "idle", FALSE)
  /\ UNCHANGED <<errors, strategy, registry>>

\* The language server clears the table, or registers an enum of what it analyzes.
AnalyzeOutside ==
  /\ registry' \in {<< >>} \cup UNION {{With(e, s) : e \in Enums(s)} : s \in Source}
  /\ job' = [t \in Thread |->
       IF guard = t THEN [job[t] EXCEPT !.undisturbed = FALSE] ELSE job[t]]
  /\ UNCHANGED <<errors, strategy, guard>>

Compile(t) ==
  \/ RefuseSource(t)
  \/ MeetStray(t) \/ PassStray(t) \/ Configure(t)
  \/ MeetFault(t) \/ PassFault(t)
  \/ Acquire(t) \/ ClearEnums(t)
  \/ \E e \in job[t].todo : RegisterEnum(t, e)
  \/ AnalyzeEntry(t) \/ PassEntry(t) \/ EndAnalysis(t) \/ Resolve(t)

Next ==
  \/ \E t \in Thread, s \in Source, l \in Loader : Begin(t, s, l) \/ BeginInMemory(t, s, l)
  \/ \E t \in Thread : Compile(t) \/ Panic(t)
  \/ AnalyzeOutside

Spec == Init /\ [][Next]_vars

-----------------------------------------------------------------------------
AllEnums == UNION {Enums(s) : s \in Source}
Places == {"idle", "done", "scan", "stray", "cut", "parse", "fault", "parsed",
           "clear", "analyze", "analyzed", "judge", "resolve"}
Jobs ==
  [at : Places, source : Source, loader : Loader, next : Nat, kept : SUBSET Nat,
   cut : BOOLEAN, section : BOOLEAN, failed : BOOLEAN, ok : BOOLEAN,
   todo : SUBSET AllEnums,
   inherited : Strategies, alone : BOOLEAN, undisturbed : BOOLEAN]

\* The types of the managers, the table, the lock and the compilations.
TypeOK ==
  /\ errors \in [Loader -> BOOLEAN] /\ strategy \in [Loader -> Strategies]
  /\ registry \in [DOMAIN registry -> Source] /\ guard \in Thread \cup {Nobody}
  /\ job \in [Thread -> Jobs]

(* "This lock closes that window": a compilation resolves with its own      *)
(* enums in the table and no others, whatever the others compile and        *)
(* wherever they fail or die, unless an analysis without the lock came in   *)
(* between.                                                                 *)
SeesOwnEnums ==
  \A t \in Thread :
    At(t) = "resolve" /\ job[t].undisturbed =>
      registry = [e \in Enums(job[t].source) |-> job[t].source]

\* What a source comes to when it is scanned with strategy s0: where scanning
\* stops, what is read and parses, whether the section is given up, and which
\* entries the analysis gets to see.
Has(s, i, kind)   == Entries(s)[i] = kind
StraysOf(s)       == {i \in DOMAIN Entries(s) : Has(s, i, "stray")}
Cuts(s, s0)       == StraysOf(s) # {} /\ s0 = "halt"
Read(s, s0)       == {i \in DOMAIN Entries(s) : Cuts(s, s0) => \A k \in StraysOf(s) : i < k}
WellFormed(s, s0) == {i \in Read(s, s0) : ~Has(s, i, "malformed")}
Halts(s)          == OwnStrategy(s) = "halt"
Broken(s, s0)     == Halts(s) /\ (Cuts(s, s0) \/ WellFormed(s, s0) # Read(s, s0))
Seen(s, s0) ==
  {i \in WellFormed(s, s0) : Halts(s) /\ StraysOf(s) # {} => IsFirst(i, WellFormed(s, s0))}

Accepted(s, s0) == Broken(s, s0) \/ \A i \in Seen(s, s0) : ~Has(s, i, "invalid")
Kept(s, s0)     == IF Broken(s, s0) THEN {} ELSE WellFormed(s, s0)

(* "loading multiple files never mixes error state between calls": what a   *)
(* load returns depends on its source and, what the sentence does not say,  *)
(* on the strategy of the source that its loader compiled before.  Of loads *)
(* that overlap on one loader, and of compile_with_dlm_from_str after       *)
(* errors, nothing is said.                                                 *)
VerdictIsOwn ==
  \A t \in Thread :
    At(t) = "done" /\ job[t].alone /\ job[t].undisturbed =>
      LET s  == job[t].source
          s0 == job[t].inherited
      IN /\ job[t].ok <=> Accepted(s, s0)
         /\ job[t].ok => /\ job[t].section <=> ~Broken(s, s0)
                         /\ job[t].kept = Kept(s, s0)
=============================================================================
