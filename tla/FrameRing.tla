----------------------------- MODULE FrameRing -----------------------------
(***************************************************************************)
(* What a ring of N frame buffers promises a reader that gives a buffer    *)
(* back before it has read it: every frame put in is taken once, in order, *)
(* and the frame being read is intact until the writer is N - 1 frames     *)
(* ahead and comes for its buffer.                                         *)
(***************************************************************************)
EXTENDS Integers

CONSTANT N              \* buffers, at least one

VARIABLES
  put,                  \* frames put in so far
  taken,                \* frames taken out so far
  held                  \* what the reader reads: a frame, Spoilt or None

ringVars == <<put, taken, held>>

None == 0
Spoilt == -1

Init == put = 0 /\ taken = 0 /\ held = None

Put ==
  /\ put - taken < N
  /\ put' = put + 1
  /\ UNCHANGED <<taken, held>>

Take ==
  /\ held = None /\ taken < put
  /\ taken' = taken + 1
  /\ held' = taken + 1
  /\ UNCHANGED put

Spoil ==
  /\ held # None /\ put - taken = N - 1
  /\ held' = Spoilt
  /\ UNCHANGED <<put, taken>>

Done ==
  /\ held # None
  /\ held' = None
  /\ UNCHANGED <<put, taken>>

Next == Put \/ Take \/ Spoil \/ Done

Spec == Init /\ [][Next]_ringVars

(* The reader keeps reading.                                               *)
FairSpec == Spec /\ WF_ringVars(Take) /\ WF_ringVars(Done)
=============================================================================
