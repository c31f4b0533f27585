------------------------------ MODULE StateStore -------------------------------
(***************************************************************************)
(* What the state store promises its callers: every call takes effect at   *)
(* one instant between its start and its return, on the state as it is     *)
(* then.  This is the store that keeps everything in memory; the store     *)
(* that keeps a document in a file (StateDocuments) implements it.         *)
(*                                                                         *)
(* One operation of each shape the store has stands for those of the same  *)
(* shape: set and clear a watch, reserve and clear a clarification, begin  *)
(* and clear a dependency park, and the generation of a babysitter.        *)
(***************************************************************************)
EXTENDS Naturals

CONSTANTS Caller, Nobody

VARIABLES contents, call

storeVars == <<contents, call>>

Kinds == {"list", "watch", "unwatch", "reserve", "forget", "park", "unpark",
          "mark", "finish", "unmark"}

Fresh == [watched |-> FALSE, asked |-> FALSE, epoch |-> 0, parked |-> FALSE,
          holder |-> Nobody, finished |-> FALSE]

Failed == 99
Free == [at |-> "free", kind |-> "list", answer |-> 0]

Yes(s) == [state |-> s, answer |-> 1]
No(s) == [state |-> s, answer |-> 0]
Either(s, yes) == [state |-> s, answer |-> IF yes THEN 1 ELSE 0]

(* The operations: the state each leaves and its answer. *)
Watch(s) == Yes([s EXCEPT !.watched = TRUE])
Unwatch(s) == Yes([s EXCEPT !.watched = FALSE])
List(s) == Either(s, s.watched)
Reserve(s) == IF s.asked THEN No(s) ELSE Yes([s EXCEPT !.asked = TRUE])
Forget(s) == Yes([s EXCEPT !.asked = FALSE])
Park(s) == [state |-> [s EXCEPT !.parked = TRUE], answer |-> s.epoch]
Unpark(s) == IF s.parked THEN Yes([s EXCEPT !.parked = FALSE, !.epoch = @ + 1]) ELSE Yes(s)
Mark(s, c) == IF s.holder = Nobody THEN Yes([s EXCEPT !.holder = c, !.finished = FALSE]) ELSE No(s)
Finish(s, c) == IF s.holder = c /\ ~s.finished THEN Yes([s EXCEPT !.finished = TRUE]) ELSE No(s)
Unmark(s, c) ==
    IF s.holder = c THEN Yes([s EXCEPT !.holder = Nobody, !.finished = FALSE]) ELSE No(s)

Outcome(kind, s, c) ==
    CASE kind = "list" -> List(s)       [] kind = "watch" -> Watch(s)
      [] kind = "unwatch" -> Unwatch(s) [] kind = "reserve" -> Reserve(s)
      [] kind = "forget" -> Forget(s)   [] kind = "park" -> Park(s)
      [] kind = "unpark" -> Unpark(s)   [] kind = "mark" -> Mark(s, c)
      [] kind = "finish" -> Finish(s, c) [] kind = "unmark" -> Unmark(s, c)

-----------------------------------------------------------------------------
(* The contents are whatever an earlier process left. *)
StoreInit == call = [c \in Caller |-> Free]

Asks(c, kind) ==
    /\ call[c].at = "free"
    /\ call' = [call EXCEPT ![c] = [at |-> "asked", kind |-> kind, answer |-> 0]]
    /\ UNCHANGED contents

Answered(c, n) ==
    call' = [call EXCEPT ![c] = [at |-> "done", kind |-> call[c].kind, answer |-> n]]

TakesEffect(c) ==
    /\ call[c].at = "asked"
    /\ LET out == Outcome(call[c].kind, contents, c)
       IN  /\ contents' = out.state
           /\ Answered(c, out.answer)

(* An error says nothing of whether the call took effect. *)
IsRefused(c) ==
    /\ call[c].at \in {"asked", "done"}
    /\ Answered(c, Failed)
    /\ UNCHANGED contents

Returns(c) ==
    /\ call[c].at = "done" /\ call' = [call EXCEPT ![c] = Free] /\ UNCHANGED contents

(* The caller's process ends: its call is forgotten, done or not. *)
IsLost(c) == call' = [call EXCEPT ![c] = Free] /\ UNCHANGED contents

StoreNext == \E c \in Caller :
    \/ \E kind \in Kinds : Asks(c, kind)
    \/ TakesEffect(c)
    \/ IsRefused(c)
    \/ Returns(c)
    \/ IsLost(c)

StoreSpec == StoreInit /\ [][StoreNext]_storeVars
==============================================================================
