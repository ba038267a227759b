------------------------------ MODULE SourceFile ------------------------------
(***************************************************************************)
(* The .mdix files the runtime loads, as editors and other programs write  *)
(* them while the runtime looks: the environment of LoaderCache and of     *)
(* HotReload, not code of the repository.                                  *)
(*                                                                         *)
(* A file is the sequence of the states it has been in, each with the      *)
(* modified-time the file system gave it; its version is the length of     *)
(* that sequence.  The clock does not go back, and two writes may share    *)
(* one of its ticks.  A save passes through states that are not the file:  *)
(* one that is "torn" does not compile, and one that is "cut" short of its *)
(* @DATA section (empty, at first) does: under Halt the parser makes of a  *)
(* section with an error no section, and load_text accepts that.  Every    *)
(* file is sound as the program starts.                                    *)
(***************************************************************************)
EXTENDS Naturals, Sequences, FiniteSets

CONSTANTS
  Path,
  MaxVersions   \* bound: the versions of all files together

ASSUME SourceFileAssumption == MaxVersions \in Nat \ {0}

VARIABLE history   \* path -> the states of the file, oldest first

States == {"sound", "cut", "torn", "missing"}
NoTime == 0   \* no modified-time: current_mtime is None

FileInit == history = [p \in Path |-> <<[state |-> "sound", mtime |-> 1]>>]

Version(p)  == Len(history[p])
Latest(p)   == history[p][Version(p)]
Exists(p)   == Latest(p).state # "missing"
Compiles(p) == Latest(p).state \in {"sound", "cut"}
Mtime(p)    == IF Exists(p) THEN Latest(p).mtime ELSE NoTime

\* As far as modified-times can tell, version v is one the file has had since
\* version w.
NotOlder(p, v, w) ==
  /\ v \in 1..Version(p)
  /\ v >= w \/ \E u \in w..Version(p) : history[p][u].mtime = history[p][v].mtime

Versions == UNION {{p} \X DOMAIN history[p] : p \in Path}

Write(p) ==
  /\ Cardinality(Versions) < MaxVersions
  /\ \E state \in States, tick \in {0, 1} :
       /\ state = "missing" => Exists(p)
       /\ history' = [history EXCEPT ![p] =
            Append(@, [state |-> state, mtime |-> Latest(p).mtime + tick])]

HistoryOK ==
  /\ DOMAIN history = Path
  /\ \A p \in Path : history[p] \in Seq([state : States, mtime : Nat]) /\ Version(p) > 0
=============================================================================
