---------------------------- MODULE StateDocuments -----------------------------
(***************************************************************************)
(* The state store kept in a file that several processes share.  A process *)
(* runs one operation at a time.  A mutation takes the lock of the file,   *)
(* reads the whole document, changes its copy, writes a temporary file and *)
(* renames it over the document, and gives the lock back; a read takes no  *)
(* lock.  A document written by an older version holds fewer sections, and *)
(* one that cannot be parsed fails every call.                             *)
(*                                                                         *)
(* A workspace that holds nothing is dropped from the document (Vacant).   *)
(***************************************************************************)
EXTENDS Naturals

CONSTANTS Caller, Nobody,
          Vacant,    \* the document has no such workspace
          Pauses,    \* a process may sleep past the staleness of its lock
          MaxCalls,  \* bound on mutations
          MaxFaults  \* bound on failed writes and ends of processes

VARIABLES version, data, lock, work, calls, faults

documentVars == <<version, data, lock, work, calls, faults>>

Missing == 0
Unreadable == 4

(* A workspace that holds nothing. *)
Fresh == [watched |-> FALSE, asked |-> FALSE, epoch |-> 0, parked |-> FALSE,
          holder |-> Nobody, finished |-> FALSE]
Contents == IF data = Vacant THEN Fresh ELSE data

(* The store that callers see: the document's workspace, and the calls that *)
(* are on their way to it or answered.                                      *)
CallOf(w) ==
    [at |-> CASE w.at \in {"asked", "locked", "loaded"} -> "asked"
              [] w.at \in {"written", "done"} -> "done"
              [] OTHER -> "free",
     kind |-> w.kind,
     answer |-> IF w.at \in {"written", "done"} THEN w.answer ELSE 0]
Store == INSTANCE StateStore WITH
    contents <- Contents, call <- [c \in Caller |-> CallOf(work[c])]

Kinds == Store!Kinds
Failed == Store!Failed
Outcome(kind, s, c) == Store!Outcome(kind, s, c)

Idle == [at |-> "free", kind |-> "list", answer |-> 0, copy |-> Vacant]

(* The sections that version 1, and then version 2, of a document has. *)
First == [Fresh EXCEPT !.watched = TRUE]
Second == [First EXCEPT !.asked = TRUE]
Third == [Second EXCEPT !.epoch = 1, !.parked = TRUE]

DocumentInit ==
    /\ \E d \in {<<Missing, Vacant>>, <<1, First>>, <<2, Second>>, <<3, Third>>, <<Unreadable, Third>>} :
          version = d[1] /\ data = d[2]
    /\ lock = Nobody /\ work = [c \in Caller |-> Idle] /\ calls = 0 /\ faults = 0

DocumentTypes ==
    /\ version \in 0..4 /\ lock \in Caller \cup {Nobody}
    /\ data = Vacant \/ (data.epoch \in 0..MaxCalls + 1 /\ data.holder \in Caller \cup {Nobody})
    /\ \A c \in Caller : /\ work[c].at \in {"free", "asked", "locked", "loaded", "written", "done"}
                         /\ work[c].kind \in Kinds /\ work[c].answer \in 0..MaxCalls + 1 \cup {Failed}
    /\ calls \in 0..MaxCalls /\ faults \in 0..MaxFaults

Sleep(c) == Pauses /\ lock = c /\ work[c].at = "loaded"
Fails == faults < MaxFaults /\ faults' = faults + 1
Goes(c, step) == work' = [work EXCEPT ![c] = step]
Answers(c, n) == Goes(c, [work[c] EXCEPT !.at = "done", !.answer = n, !.copy = Vacant])

-----------------------------------------------------------------------------
(* What a document of each version says of the workspace. *)
Parse ==
    CASE version = 1 -> [Fresh EXCEPT !.watched = Contents.watched]
      [] version = 2 -> [Fresh EXCEPT !.watched = Contents.watched, !.asked = Contents.asked]
      [] OTHER -> Contents

WorkspaceIsEmptyBarParks(s) == ~s.watched /\ ~s.asked /\ s.holder = Nobody

WorkspaceIsEmpty(s) ==
    /\ ~s.watched /\ ~s.asked
    /\ ~s.parked /\ s.epoch = 0
    /\ s.holder = Nobody

(* Whether the operation writes: one that finds nothing to do does not. *)
Writes(kind, s, c) ==
    \/ kind = "watch"
    \/ Outcome(kind, s, c).state # s

(* Only the operations that take something away look whether anything is left. *)
Left(kind, s) ==
    IF kind \in {"unwatch", "forget", "unmark"} /\ WorkspaceIsEmpty(s) THEN Vacant ELSE s

Calls(c, kind) ==
    /\ work[c].at = "free"
    /\ (kind = "list") \/ (calls < MaxCalls)
    /\ calls' = IF kind = "list" THEN calls ELSE calls + 1
    /\ Goes(c, [Idle EXCEPT !.at = "asked", !.kind = kind])
    /\ UNCHANGED <<version, data, lock, faults>>

Read(c) ==
    /\ work[c].at = "asked" /\ work[c].kind = "list"
    /\ Answers(c, IF version = Unreadable THEN Failed ELSE Outcome("list", Parse, c).answer)
    /\ UNCHANGED <<version, data, lock, calls, faults>>

Lock(c) ==
    /\ work[c].at = "asked" /\ work[c].kind # "list" /\ lock = Nobody
    /\ lock' = c /\ Goes(c, [work[c] EXCEPT !.at = "locked"])
    /\ UNCHANGED <<version, data, calls, faults>>

Load(c) ==
    /\ work[c].at = "locked"
    /\ IF version = Unreadable
       THEN Answers(c, Failed)
       ELSE LET out == Outcome(work[c].kind, Parse, c)
            IN  IF Writes(work[c].kind, Parse, c)
                THEN Goes(c, [work[c] EXCEPT !.at = "loaded", !.answer = out.answer,
                                             !.copy = Left(work[c].kind, out.state)])
                ELSE Answers(c, out.answer)
    /\ UNCHANGED <<version, data, lock, calls, faults>>

Write(c) ==
    /\ work[c].at = "loaded"
    /\ \/ /\ version' = 3 /\ data' = work[c].copy
          /\ \/ /\ Answers(c, work[c].answer) /\ UNCHANGED faults
             \/ /\ Fails /\ Goes(c, [work[c] EXCEPT !.at = "written"])
       \/ Fails /\ Answers(c, Failed) /\ UNCHANGED <<version, data>>
    /\ UNCHANGED <<lock, calls>>

(* The document is renamed, but its directory cannot be synced. *)
Unsynced(c) ==
    /\ work[c].at = "written" /\ Answers(c, Failed)
    /\ UNCHANGED <<version, data, lock, calls, faults>>

Unlock(c) ==
    /\ work[c].at = "done"
    /\ lock' = IF lock = c THEN Nobody ELSE lock
    /\ Goes(c, Idle) /\ UNCHANGED <<version, data, calls, faults>>

(* A process ends inside an operation and leaves its lock, and perhaps its *)
(* temporary file, behind; a lock nobody refreshes is taken after a minute. *)
Ends(c) ==
    /\ work[c].at # "free" /\ Fails /\ Goes(c, Idle)
    /\ UNCHANGED <<version, data, lock, calls>>

GoesStale ==
    /\ \E c \in Caller : lock = c /\ (work[c].at \in {"free", "asked"} \/ Sleep(c))
    /\ lock' = Nobody /\ UNCHANGED <<version, data, work, calls, faults>>

DocumentNext ==
    \/ GoesStale
    \/ \E c \in Caller :
         \/ \E kind \in Kinds : Calls(c, kind)
         \/ Read(c)
         \/ Lock(c)
         \/ Load(c)
         \/ Write(c)
         \/ Unsynced(c)
         \/ Unlock(c)
         \/ Ends(c)

-----------------------------------------------------------------------------
DocumentSpec == DocumentInit /\ [][DocumentNext]_documentVars

(* Every call on the document takes effect at one instant, whatever other   *)
(* processes do, writes fail or processes end: the document implements the  *)
(* store in memory.  A read by the lock's rule sees no half-written state,  *)
(* nothing a call was told is saved is lost, an upgraded document keeps its *)
(* sections, and a dropped workspace forgets nothing.                       *)
TakesEffectOnce == UNCHANGED Store!storeVars \/ Store!StoreNext
CallsTakeEffectOnce == Store!StoreInit /\ [][TakesEffectOnce]_documentVars

==============================================================================
