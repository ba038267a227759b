------------------------------ MODULE NativeHandle ------------------------------
(***************************************************************************)
(* What the C interface (mdix-ffi) asks of those who use its databases: a  *)
(* call may be made on a handle that is live, and a handle is freed once,  *)
(* with no call on it under way.                                           *)
(***************************************************************************)
CONSTANTS Caller, Handle, NoHandle

VARIABLES
  live,     \* the handles that were given out and not yet freed
  using     \* the handle of the call each caller is in

nativeVars == <<live, using>>

NativeInit == live \in {{h} : h \in Handle} /\ using = [c \in Caller |-> NoHandle]

Load(h)     == h \in Handle \ live /\ live' = live \cup {h} /\ UNCHANGED using
BeginCall(c, h) ==
  /\ using[c] = NoHandle /\ h \in live
  /\ using' = [using EXCEPT ![c] = h] /\ UNCHANGED live
EndCall(c) ==
  /\ using[c] # NoHandle
  /\ using' = [using EXCEPT ![c] = NoHandle] /\ UNCHANGED live
Free(h) ==
  /\ h \in live /\ \A c \in Caller : using[c] # h
  /\ live' = live \ {h} /\ UNCHANGED using

NativeNext ==
  \/ \E h \in Handle : Load(h) \/ Free(h)
  \/ \E c \in Caller : EndCall(c) \/ \E h \in Handle : BeginCall(c, h)

NativeSpec == NativeInit /\ [][NativeNext]_nativeVars
=============================================================================
