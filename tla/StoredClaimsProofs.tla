------------------------- MODULE StoredClaimsProofs -------------------------
(***************************************************************************)
(* Proofs about what the stores keep: the documents of the state store,    *)
(* the leases of its lifecycle rows, the claims of babysitters, the        *)
(* records of the guardian's threads, and the rows that the recovery of    *)
(* orphaned issues deletes.                                                *)
(***************************************************************************)
EXTENDS StateDocuments, LifecycleKeys, BabysitterGenerations, GuardianTurns,
        OrphanRecovery, FiniteSetTheorems, TLAPS

-----------------------------------------------------------------------------
(***************************************************************************)
(* Documents.  The document in a file implements the store in memory, for  *)
(* any number of processes, calls and faults.                              *)
(***************************************************************************)

(* The inductive invariant *)

State == [watched : BOOLEAN, asked : BOOLEAN, epoch : Nat, parked : BOOLEAN,
          holder : Caller \union {Nobody}, finished : BOOLEAN]

(* A completion is that of a holder.                                       *)
Sound(s) == s \in State /\ (s.holder = Nobody => ~s.finished)

(* No process sleeps past the staleness of a lock it holds; a workspace is *)
(* not the absence of one.                                                 *)
NoPauses == ~Pauses
Distinct == Nobody \notin Caller /\ Vacant \notin State

CallStage == {"free", "asked", "locked", "loaded", "written", "done"}
AnyWork == [at : CallStage, kind : Kinds, answer : Nat, copy : State \union {Vacant}]

(* An older document has the sections of its version and no more.          *)
VersionInv ==
    /\ version \in 0 .. 4
    /\ version = Missing => data = Vacant
    /\ version = 1 => data = First
    /\ version = 2 => data = Second
    /\ data = Vacant \/ Sound(data)

(* A mutation holds the lock from its read to its write, and its copy is   *)
(* what its operation makes of the contents as they are.                   *)
Seen(w) == IF w.copy = Vacant THEN Fresh ELSE w.copy
CallInv(c) ==
    /\ work[c].at \in {"locked", "loaded", "written"} => lock = c
    /\ work[c].at = "loaded" =>
          /\ version # Unreadable
          /\ Seen(work[c]) = Outcome(work[c].kind, Contents, c).state
          /\ work[c].answer = Outcome(work[c].kind, Contents, c).answer
          /\ work[c].copy = Vacant \/ Sound(work[c].copy)

DocumentInv ==
    /\ work \in [Caller -> AnyWork]
    /\ VersionInv
    /\ \A c \in Caller : CallInv(c)

-----------------------------------------------------------------------------
(* Lemmas about the operations *)

LEMMA FreshFacts == Sound(Fresh) /\ Sound(First) /\ Sound(Second) /\ Sound(Third)
BY DEF Sound, State, Fresh, First, Second, Third

LEMMA ContentsSound == VersionInv => Sound(Contents)
BY FreshFacts DEF VersionInv, Contents

(* An operation leaves a sound workspace and answers with a number.        *)
LEMMA OutcomeSound ==
    ASSUME NEW s, Sound(s), NEW c \in Caller, NEW sort \in Kinds, Distinct
    PROVE  Sound(Outcome(sort, s, c).state) /\ Outcome(sort, s, c).answer \in Nat
<1>1. s \in State
  BY DEF Sound
<1>2. CASE sort \in {"list", "watch", "unwatch", "reserve", "forget"}
  BY <1>1, <1>2 DEF Sound, State, Outcome, Store!Outcome, Store!List, Store!Watch,
     Store!Unwatch, Store!Reserve, Store!Forget, Store!Yes, Store!No, Store!Either
<1>3. CASE sort = "park"
  BY <1>1, <1>3 DEF Sound, State, Outcome, Store!Outcome, Store!Park
<1>5. CASE sort = "unpark"
  <2>1. Outcome(sort, s, c) = Store!Unpark(s)
    BY <1>5 DEF Outcome, Store!Outcome
  <2>2. CASE s.parked
    <3>1. PICK t : t = [s EXCEPT !.parked = FALSE, !.epoch = s.epoch + 1]
      OBVIOUS
    <3>4. s.epoch + 1 \in Nat
      BY <1>1 DEF State
    <3>5. t = [watched |-> s.watched, asked |-> s.asked, epoch |-> s.epoch + 1,
               parked |-> FALSE, holder |-> s.holder, finished |-> s.finished]
      BY <1>1, <3>1 DEF State
    <3>2. t \in State /\ t.holder = s.holder /\ t.finished = s.finished
      BY <1>1, <3>4, <3>5 DEF State
    <3>3. Store!Unpark(s) = [state |-> t, answer |-> 1]
      BY <2>2, <3>1 DEF Store!Unpark, Store!Yes
    <3> QED
      BY <2>1, <3>2, <3>3 DEF Sound
  <2>3. CASE ~s.parked
    BY <2>1, <2>3 DEF Store!Unpark, Store!Yes
  <2> QED
    BY <2>2, <2>3
<1>4. CASE sort \in {"mark", "finish", "unmark"}
  BY <1>1, <1>4 DEF Sound, State, Outcome, Store!Outcome, Store!Mark, Store!Finish,
     Store!Unmark, Store!Yes, Store!No, Distinct
<1> QED
  BY <1>2, <1>3, <1>4, <1>5 DEF Kinds, Store!Kinds

(* Reading an older document loses nothing of what it holds.               *)
LEMMA ParseIsContents == ASSUME VersionInv, Distinct PROVE Parse = Contents
<1>1. First # Vacant /\ Second # Vacant
  BY FreshFacts DEF Sound, Distinct
<1>2. CASE version = 1
  BY <1>1, <1>2 DEF VersionInv, Parse, Contents, First, Fresh
<1>3. CASE version = 2
  BY <1>1, <1>3 DEF VersionInv, Parse, Contents, Second, First, Fresh
<1>4. CASE version \notin {1, 2}
  BY <1>4 DEF Parse
<1> QED
  BY <1>2, <1>3, <1>4

(* A workspace that is dropped was empty: dropping it forgets nothing.     *)
LEMMA LeftSeen ==
    ASSUME NEW s, Sound(s), NEW sort, Distinct
    PROVE  /\ Left(sort, s) = Vacant \/ Sound(Left(sort, s))
           /\ (IF Left(sort, s) = Vacant THEN Fresh ELSE Left(sort, s)) = s
<1>1. s # Vacant
  BY DEF Sound, Distinct
<1>2. WorkspaceIsEmpty(s) => s = Fresh
  BY DEF WorkspaceIsEmpty, Sound, State, Fresh
<1> QED
  BY <1>1, <1>2 DEF Left

(* A list writes nothing.                                                  *)
LEMMA ListKeeps == \A s, c : Outcome("list", s, c).state = s
BY DEF Outcome, Store!Outcome, Store!List, Store!Either

(* The call of one process moves, those of the others stay.                *)
LEMMA GoesWork ==
    ASSUME work \in [Caller -> AnyWork], NEW c \in Caller, NEW w \in AnyWork, Goes(c, w)
    PROVE  /\ work' \in [Caller -> AnyWork] /\ work'[c] = w
           /\ \A d \in Caller : d # c => work'[d] = work[d]
BY DEF Goes

LEMMA IdleWork == Idle \in AnyWork
BY DEF Idle, AnyWork, CallStage, Kinds, Store!Kinds

LEMMA AnswersWork ==
    ASSUME work \in [Caller -> AnyWork], NEW c \in Caller, NEW n \in Nat, Answers(c, n)
    PROVE  /\ work' \in [Caller -> AnyWork]
           /\ work'[c] = [work[c] EXCEPT !.at = "done", !.answer = n, !.copy = Vacant]
           /\ \A d \in Caller : d # c => work'[d] = work[d]
<1>1. PICK w : w = [work[c] EXCEPT !.at = "done", !.answer = n, !.copy = Vacant]
  OBVIOUS
<1>2. w \in AnyWork
  BY <1>1 DEF AnyWork, CallStage
<1>3. Goes(c, w)
  BY <1>1 DEF Answers
<1> QED
  BY <1>1, <1>2, <1>3, GoesWork

LEMMA FailedNat == Failed \in Nat
BY DEF Failed, Store!Failed

(* What callers see when one call moves.                                   *)
Shown == [c \in Caller |-> CallOf(work[c])]

LEMMA ShownMoves ==
    ASSUME work \in [Caller -> AnyWork], work' \in [Caller -> AnyWork], NEW c \in Caller,
           \A d \in Caller : d # c => work'[d] = work[d]
    PROVE  Shown' = [Shown EXCEPT ![c] = CallOf(work'[c])]
BY DEF Shown

LEMMA ShownStays ==
    ASSUME work \in [Caller -> AnyWork], work' \in [Caller -> AnyWork], NEW c \in Caller,
           \A d \in Caller : d # c => work'[d] = work[d],
           CallOf(work'[c]) = CallOf(work[c])
    PROVE  Shown' = Shown
BY DEF Shown

LEMMA ShownDone ==
    ASSUME NEW c \in Caller, NEW k, NEW n, NEW a, NEW m,
           Shown[c] = [at |-> a, kind |-> k, answer |-> m],
           Shown' = [Shown EXCEPT ![c] = [at |-> "done", kind |-> k, answer |-> n]]
    PROVE  Store!Answered(c, n)
<1>1. Shown' = [Shown EXCEPT ![c] = [at |-> "done", kind |-> Shown[c].kind, answer |-> n]]
  OBVIOUS
<1> QED
  BY <1>1 DEF Store!Answered, Shown

-----------------------------------------------------------------------------
(* The invariant is inductive, one action at a time *)

LEMMA InitInv == DocumentInit => DocumentInv
<1> SUFFICES ASSUME DocumentInit PROVE DocumentInv
  OBVIOUS
<1>1. work \in [Caller -> AnyWork] /\ \A c \in Caller : work[c] = Idle
  BY IdleWork DEF DocumentInit
<1>2. VersionInv
  BY FreshFacts DEF DocumentInit, VersionInv, Missing, Unreadable
<1>3. \A c \in Caller : work[c].at = "free"
  <2>1. Idle.at = "free"
    BY DEF Idle
  <2> QED
    BY <1>1, <2>1
<1>4. \A c \in Caller : CallInv(c)
  BY <1>3 DEF CallInv
<1> QED
  BY <1>1, <1>2, <1>4 DEF DocumentInv

(* The calls of the others keep their invariant while the lock and the     *)
(* contents stay.                                                          *)
LEMMA OtherWorkKept ==
    ASSUME DocumentInv, NEW c \in Caller, NEW d \in Caller, d # c,
           work'[d] = work[d], lock' = lock, UNCHANGED <<version, data>>
    PROVE  CallInv(d)'
BY DEF DocumentInv, CallInv, Seen, Contents

LEMMA VersionKept == VersionInv /\ UNCHANGED <<version, data>> => VersionInv'
BY DEF VersionInv

LEMMA CallsStep ==
    ASSUME DocumentInv, NEW c \in Caller, NEW sort \in Kinds, Calls(c, sort)
    PROVE  DocumentInv' /\ Store!StoreNext
<1>1. PICK w : w = [Idle EXCEPT !.at = "asked", !.kind = sort]
  OBVIOUS
<1>2. w \in AnyWork /\ w.at = "asked"
  BY <1>1, IdleWork DEF Idle, AnyWork, CallStage
<1>3. /\ work' \in [Caller -> AnyWork] /\ work'[c] = w
      /\ \A d \in Caller : d # c => work'[d] = work[d]
  BY <1>1, <1>2, GoesWork DEF DocumentInv, Calls
<1>4. DocumentInv'
  <2>1. CallInv(c)'
    BY <1>2, <1>3 DEF CallInv
  <2>2. \A d \in Caller : d # c => CallInv(d)'
    BY <1>3, OtherWorkKept DEF Calls
  <2> QED
    BY <1>3, <2>1, <2>2, VersionKept DEF DocumentInv, Calls
<1>5. CallOf(w) = [at |-> "asked", kind |-> sort, answer |-> 0]
  BY <1>1 DEF CallOf, Idle
<1>6. Shown[c].at = "free"
  BY DEF Shown, CallOf, Calls
<1>7. Shown' = [Shown EXCEPT ![c] = [at |-> "asked", kind |-> sort, answer |-> 0]]
  BY <1>3, <1>5, ShownMoves DEF DocumentInv
<1>8. Contents' = Contents
  BY DEF Calls, Contents
<1>9. Store!Asks(c, sort)
  BY <1>6, <1>7, <1>8 DEF Store!Asks, Shown
<1> QED
  BY <1>4, <1>9 DEF Store!StoreNext, Kinds

LEMMA ReadStep ==
    ASSUME DocumentInv, Distinct, NEW c \in Caller, Read(c)
    PROVE  DocumentInv' /\ Store!StoreNext
<1>1. VersionInv /\ work \in [Caller -> AnyWork]
  BY DEF DocumentInv
<1>2. PICK n : n = IF version = Unreadable THEN Failed ELSE Outcome("list", Parse, c).answer
  OBVIOUS
<1>3. Parse = Contents /\ Sound(Contents)
  BY <1>1, ParseIsContents, ContentsSound
<1>4. n \in Nat
  BY <1>2, <1>3, FailedNat, OutcomeSound DEF Kinds, Store!Kinds
<1>5. /\ work' \in [Caller -> AnyWork]
      /\ work'[c] = [work[c] EXCEPT !.at = "done", !.answer = n, !.copy = Vacant]
      /\ \A d \in Caller : d # c => work'[d] = work[d]
  BY <1>1, <1>2, <1>4, AnswersWork DEF Read
<1>6. work'[c].at = "done" /\ work'[c].answer = n /\ work'[c].kind = "list"
  BY <1>1, <1>5 DEF AnyWork, Read
<1>7. DocumentInv'
  <2>1. CallInv(c)'
    BY <1>6 DEF CallInv
  <2>2. \A d \in Caller : d # c => CallInv(d)'
    BY <1>5, OtherWorkKept DEF Read
  <2> QED
    BY <1>1, <1>5, <2>1, <2>2, VersionKept DEF DocumentInv, Read
<1>8. Shown' = [Shown EXCEPT ![c] = [at |-> "done", kind |-> "list", answer |-> n]]
  BY <1>1, <1>5, <1>6, ShownMoves DEF CallOf
<1>9. Shown[c] = [at |-> "asked", kind |-> "list", answer |-> 0]
  BY DEF Shown, CallOf, Read
<1>10. Contents' = Contents
  BY DEF Read, Contents
<1>11. CASE version = Unreadable
  <2>2. Store!Answered(c, n)
    BY <1>8, <1>9, ShownDone
  <2>1. Store!IsRefused(c)
    BY <1>2, <1>9, <1>10, <1>11, <2>2 DEF Store!IsRefused, Shown, Failed
  <2> QED
    BY <1>7, <2>1 DEF Store!StoreNext
<1>12. CASE version # Unreadable
  <2>1. n = Store!Outcome("list", Contents, c).answer
        /\ Store!Outcome("list", Contents, c).state = Contents
    BY <1>2, <1>3, <1>12, ListKeeps DEF Outcome
  <2>3. Store!Answered(c, n)
    BY <1>8, <1>9, ShownDone
  <2>2. Store!TakesEffect(c)
    BY <1>9, <1>10, <2>1, <2>3 DEF Store!TakesEffect, Shown
  <2> QED
    BY <1>7, <2>2 DEF Store!StoreNext
<1> QED
  BY <1>11, <1>12

LEMMA LockStep ==
    ASSUME DocumentInv, Distinct, NEW c \in Caller, Lock(c)
    PROVE  DocumentInv' /\ UNCHANGED Store!storeVars
<1>1. VersionInv /\ work \in [Caller -> AnyWork]
  BY DEF DocumentInv
<1>2. PICK w : w = [work[c] EXCEPT !.at = "locked"]
  OBVIOUS
<1>3. w \in AnyWork /\ w.at = "locked" /\ w.kind = work[c].kind
  BY <1>1, <1>2 DEF AnyWork, CallStage
<1>4. /\ work' \in [Caller -> AnyWork] /\ work'[c] = w
      /\ \A d \in Caller : d # c => work'[d] = work[d]
  BY <1>1, <1>2, <1>3, GoesWork DEF Lock
<1>5. DocumentInv'
  <2>1. CallInv(c)'
    BY <1>3, <1>4 DEF CallInv, Lock
  <2>2. ASSUME NEW d \in Caller, d # c PROVE CallInv(d)'
    <3>1. work[d].at \notin {"locked", "loaded", "written"}
      BY Distinct DEF DocumentInv, CallInv, Lock, Distinct
    <3> QED
      BY <1>4, <2>2, <3>1 DEF CallInv
  <2>3. VersionInv'
    BY <1>1, VersionKept DEF Lock
  <2> QED
    BY <1>4, <2>1, <2>2, <2>3 DEF DocumentInv
<1>6. CallOf(w) = CallOf(work[c])
  BY <1>3 DEF CallOf, Lock
<1>7. Shown' = Shown
  BY <1>1, <1>4, <1>6, ShownStays
<1>8. Contents' = Contents
  BY DEF Lock, Contents
<1> QED
  BY <1>5, <1>7, <1>8 DEF Store!storeVars, Shown

(* What a mutation makes of the contents it read under the lock.           *)
LEMMA LoadStep ==
    ASSUME DocumentInv, Distinct, NEW c \in Caller, Load(c)
    PROVE  DocumentInv' /\ (Store!StoreNext \/ UNCHANGED Store!storeVars)
<1>1. VersionInv /\ work \in [Caller -> AnyWork] /\ work[c].kind \in Kinds
  BY DEF DocumentInv, AnyWork
<1>2. Parse = Contents /\ Sound(Contents)
  BY <1>1, ParseIsContents, ContentsSound
<1>3. PICK out : out = Outcome(work[c].kind, Contents, c)
  OBVIOUS
<1>4. Sound(out.state) /\ out.answer \in Nat
  BY <1>1, <1>2, <1>3, OutcomeSound
<1>5. Contents' = Contents
  BY DEF Load, Contents
<1>6. Shown[c] = [at |-> "asked", kind |-> work[c].kind, answer |-> 0]
  BY DEF Shown, CallOf, Load
<1>7. ASSUME NEW n \in Nat, Answers(c, n)
      PROVE  /\ DocumentInv'
             /\ Shown' = [Shown EXCEPT ![c] = [at |-> "done", kind |-> work[c].kind, answer |-> n]]
  <2>1. /\ work' \in [Caller -> AnyWork]
        /\ work'[c] = [work[c] EXCEPT !.at = "done", !.answer = n, !.copy = Vacant]
        /\ \A d \in Caller : d # c => work'[d] = work[d]
    BY <1>1, <1>7, AnswersWork
  <2>2. work'[c].at = "done" /\ work'[c].answer = n /\ work'[c].kind = work[c].kind
    BY <1>1, <2>1 DEF AnyWork
  <2>3. CallInv(c)'
    BY <2>2 DEF CallInv
  <2>4. \A d \in Caller : d # c => CallInv(d)'
    BY <2>1, OtherWorkKept DEF Load
  <2>5. VersionInv'
    BY <1>1, VersionKept DEF Load
  <2>6. Shown' = [Shown EXCEPT ![c] = [at |-> "done", kind |-> work[c].kind, answer |-> n]]
    BY <1>1, <2>1, <2>2, ShownMoves DEF CallOf
  <2> QED
    BY <2>1, <2>3, <2>4, <2>5, <2>6 DEF DocumentInv
<1>8. CASE version = Unreadable
  <2>1. Answers(c, Failed)
    BY <1>8 DEF Load
  <2>2. /\ DocumentInv'
        /\ Shown' = [Shown EXCEPT ![c] = [at |-> "done", kind |-> work[c].kind, answer |-> Failed]]
    BY <1>7, <2>1, FailedNat
  <2>3. Store!Answered(c, Failed)
    BY <1>6, <2>2, ShownDone
  <2>4. Store!IsRefused(c)
    BY <1>5, <1>6, <2>3 DEF Store!IsRefused, Shown, Failed
  <2> QED
    BY <2>2, <2>4 DEF Store!StoreNext
<1>9. CASE version # Unreadable /\ Writes(work[c].kind, Contents, c)
  <2>1. PICK w : w = [work[c] EXCEPT !.at = "loaded", !.answer = out.answer,
                                      !.copy = Left(work[c].kind, out.state)]
    OBVIOUS
  <2>2. Goes(c, w)
    BY <1>2, <1>3, <1>9, <2>1 DEF Load
  <2>3. /\ Left(work[c].kind, out.state) = Vacant \/ Sound(Left(work[c].kind, out.state))
        /\ (IF Left(work[c].kind, out.state) = Vacant THEN Fresh ELSE Left(work[c].kind, out.state))
              = out.state
    BY <1>4, LeftSeen
  <2>4. w.at = "loaded" /\ w.kind = work[c].kind /\ w.answer = out.answer
        /\ w.copy = Left(work[c].kind, out.state)
    BY <1>1, <2>1 DEF AnyWork
  <2>5. w \in AnyWork
    BY <1>1, <1>4, <2>1, <2>3 DEF AnyWork, CallStage, Sound
  <2>6. /\ work' \in [Caller -> AnyWork] /\ work'[c] = w
        /\ \A d \in Caller : d # c => work'[d] = work[d]
    BY <1>1, <2>2, <2>5, GoesWork
  <2>7. lock' = c /\ version' # Unreadable
    BY <1>9 DEF DocumentInv, CallInv, Load
  <2>8. Seen(w) = out.state
    BY <2>3, <2>4 DEF Seen
  <2>9. CallInv(c)'
    BY <1>3, <1>5, <2>3, <2>4, <2>6, <2>7, <2>8 DEF CallInv
  <2>10. \A d \in Caller : d # c => CallInv(d)'
    BY <2>6, OtherWorkKept DEF Load
  <2>11. VersionInv'
    BY <1>1, VersionKept DEF Load
  <2>12. CallOf(w) = CallOf(work[c])
    BY <2>4 DEF CallOf, Load
  <2>13. Shown' = Shown
    BY <1>1, <2>6, <2>12, ShownStays
  <2> QED
    BY <1>5, <2>6, <2>9, <2>10, <2>11, <2>13 DEF DocumentInv, Store!storeVars, Shown
<1>10. CASE version # Unreadable /\ ~Writes(work[c].kind, Contents, c)
  <2>1. Answers(c, out.answer) /\ out.state = Contents
    BY <1>2, <1>3, <1>10 DEF Load, Writes
  <2>2. DocumentInv'
        /\ Shown' = [Shown EXCEPT ![c] = [at |-> "done", kind |-> work[c].kind, answer |-> out.answer]]
    BY <1>4, <1>7, <2>1
  <2>3. out = Store!Outcome(Shown[c].kind, Contents, c)
    BY <1>3, <1>6 DEF Outcome
  <2>5. Store!Answered(c, out.answer)
    BY <1>6, <2>2, ShownDone
  <2>4. Store!TakesEffect(c)
    BY <1>5, <1>6, <2>1, <2>3, <2>5 DEF Store!TakesEffect, Shown
  <2> QED
    BY <2>2, <2>4 DEF Store!StoreNext
<1> QED
  BY <1>8, <1>9, <1>10

LEMMA WriteStep ==
    ASSUME DocumentInv, Distinct, NEW c \in Caller, Write(c)
    PROVE  DocumentInv' /\ Store!StoreNext
<1>1. /\ VersionInv /\ work \in [Caller -> AnyWork] /\ work[c] \in AnyWork /\ work[c].answer \in Nat
      /\ work[c].kind \in Kinds /\ work[c].at = "loaded" /\ CallInv(c)
  BY DEF DocumentInv, AnyWork, Write
<1>2. \A d \in Caller : d # c => work[d].at \notin {"locked", "loaded", "written"}
  BY <1>1 DEF DocumentInv, CallInv
<1>3. Shown[c] = [at |-> "asked", kind |-> work[c].kind, answer |-> 0]
  BY <1>1 DEF Shown, CallOf
<1>4. ASSUME NEW w \in AnyWork, Goes(c, w), w.at \in {"done", "written"}, w.kind = work[c].kind,
             VersionInv', w.at = "written" => lock = c
      PROVE  /\ DocumentInv'
             /\ Store!Answered(c, w.answer)
  <2>1. /\ work' \in [Caller -> AnyWork] /\ work'[c] = w
        /\ \A d \in Caller : d # c => work'[d] = work[d]
    BY <1>1, <1>4, GoesWork
  <2>2. \A d \in Caller : CallInv(d)'
    BY <1>2, <1>4, <2>1 DEF CallInv, Write
  <2>3. Shown' = [Shown EXCEPT ![c] = [at |-> "done", kind |-> work[c].kind, answer |-> w.answer]]
    BY <1>1, <1>4, <2>1, ShownMoves DEF CallOf
  <2>4. Store!Answered(c, w.answer)
    BY <1>3, <2>3, ShownDone
  <2> QED
    BY <1>4, <2>1, <2>2, <2>4 DEF DocumentInv
<1>5. ASSUME NEW n \in Nat, Answers(c, n), VersionInv'
      PROVE  DocumentInv' /\ Store!Answered(c, n)
  <2>1. PICK w : w = [work[c] EXCEPT !.at = "done", !.answer = n, !.copy = Vacant]
    OBVIOUS
  <2>2. w \in AnyWork /\ w.at = "done" /\ w.kind = work[c].kind /\ w.answer = n
    BY <1>1, <2>1 DEF AnyWork, CallStage
  <2>3. Goes(c, w)
    BY <1>5, <2>1 DEF Answers
  <2> QED
    BY <1>4, <1>5, <2>2, <2>3
<1>6. CASE /\ version' = 3 /\ data' = work[c].copy
           /\ \/ Answers(c, work[c].answer)
              \/ Goes(c, [work[c] EXCEPT !.at = "written"])
  <2>1. Contents' = Seen(work[c])
    BY <1>6 DEF Contents, Seen
  <2>2. /\ Contents' = Store!Outcome(Shown[c].kind, Contents, c).state
        /\ work[c].answer = Store!Outcome(Shown[c].kind, Contents, c).answer
    BY <1>1, <1>3, <2>1 DEF CallInv, Outcome
  <2>3. VersionInv'
    BY <1>1, <1>6 DEF CallInv, VersionInv, Missing
  <2>4. DocumentInv' /\ Store!Answered(c, work[c].answer)
    <3>1. CASE Answers(c, work[c].answer)
      BY <1>1, <1>5, <2>3, <3>1
    <3>2. CASE Goes(c, [work[c] EXCEPT !.at = "written"])
      <4>1. PICK w : w = [work[c] EXCEPT !.at = "written"]
        OBVIOUS
      <4>2. w \in AnyWork /\ w.at = "written" /\ w.kind = work[c].kind /\ w.answer = work[c].answer
        BY <1>1, <4>1 DEF AnyWork, CallStage
      <4>3. Goes(c, w) /\ lock = c
        BY <1>1, <3>2, <4>1 DEF CallInv
      <4>4. DocumentInv' /\ Store!Answered(c, w.answer)
        BY <1>4, <2>3, <4>2, <4>3
      <4> QED
        BY <4>2, <4>4
    <3> QED
      BY <1>6, <3>1, <3>2
  <2>5. Store!TakesEffect(c)
    BY <1>3, <2>2, <2>4 DEF Store!TakesEffect, Shown
  <2> QED
    BY <2>4, <2>5 DEF Store!StoreNext
<1>7. CASE Answers(c, Failed) /\ UNCHANGED <<version, data>>
  <2>1. VersionInv'
    BY <1>1, <1>7, VersionKept
  <2>2. DocumentInv' /\ Store!Answered(c, Failed)
    BY <1>5, <1>7, <2>1, FailedNat
  <2>3. Contents' = Contents
    BY <1>7 DEF Contents
  <2>4. Store!IsRefused(c)
    BY <1>3, <2>2, <2>3 DEF Store!IsRefused, Shown, Failed
  <2> QED
    BY <2>2, <2>4 DEF Store!StoreNext
<1> QED
  BY <1>6, <1>7 DEF Write

(* The directory cannot be synced: the call, that took effect, is refused. *)
LEMMA UnsyncedStep ==
    ASSUME DocumentInv, NEW c \in Caller, Unsynced(c)
    PROVE  DocumentInv' /\ Store!StoreNext
<1>1. VersionInv /\ work \in [Caller -> AnyWork] /\ work[c] \in AnyWork
  BY DEF DocumentInv
<1>2. /\ work' \in [Caller -> AnyWork]
      /\ work'[c] = [work[c] EXCEPT !.at = "done", !.answer = Failed, !.copy = Vacant]
      /\ \A d \in Caller : d # c => work'[d] = work[d]
  BY <1>1, AnswersWork, FailedNat DEF Unsynced
<1>3. work'[c].at = "done" /\ work'[c].answer = Failed /\ work'[c].kind = work[c].kind
  BY <1>1, <1>2 DEF AnyWork
<1>4. CallInv(c)'
  BY <1>3 DEF CallInv
<1>5. \A d \in Caller : d # c => CallInv(d)'
  BY <1>2, OtherWorkKept DEF Unsynced
<1>6. VersionInv'
  BY <1>1, VersionKept DEF Unsynced
<1>7. Shown[c] = [at |-> "done", kind |-> work[c].kind, answer |-> work[c].answer]
  BY DEF Shown, CallOf, Unsynced
<1>8. Shown' = [Shown EXCEPT ![c] = [at |-> "done", kind |-> work[c].kind, answer |-> Failed]]
  BY <1>1, <1>2, <1>3, ShownMoves DEF CallOf
<1>9. Store!Answered(c, Failed)
  BY <1>7, <1>8, ShownDone
<1>10. Contents' = Contents
  BY DEF Unsynced, Contents
<1>11. Store!IsRefused(c)
  BY <1>7, <1>9, <1>10 DEF Store!IsRefused, Shown, Failed
<1> QED
  BY <1>2, <1>4, <1>5, <1>6, <1>11 DEF DocumentInv, Store!StoreNext

(* A call that returns, or whose process ends, is gone.                    *)
LEMMA GoneStep ==
    ASSUME DocumentInv, NEW c \in Caller, Goes(c, Idle), UNCHANGED <<version, data>>,
           lock' = lock \/ (lock = c /\ lock' = Nobody)
    PROVE  DocumentInv' /\ Shown' = [Shown EXCEPT ![c] = Store!Free] /\ Contents' = Contents
<1>1. /\ work' \in [Caller -> AnyWork] /\ work'[c] = Idle
      /\ \A d \in Caller : d # c => work'[d] = work[d]
  BY GoesWork, IdleWork DEF DocumentInv
<1>2. Idle.at = "free"
  BY DEF Idle
<1>3. CallInv(c)'
  BY <1>1, <1>2 DEF CallInv
<1>4. Contents' = Contents
  BY DEF Contents
<1>5. \A d \in Caller : d # c => CallInv(d)'
  BY <1>1, <1>4 DEF DocumentInv, CallInv, Seen
<1>6. VersionInv'
  BY VersionKept DEF DocumentInv
<1>7. CallOf(Idle) = Store!Free
  BY DEF CallOf, Idle, Store!Free
<1>8. Shown' = [Shown EXCEPT ![c] = Store!Free]
  BY <1>1, <1>7, ShownMoves DEF DocumentInv
<1> QED
  BY <1>1, <1>3, <1>4, <1>5, <1>6, <1>8 DEF DocumentInv

LEMMA UnlockStep ==
    ASSUME DocumentInv, NEW c \in Caller, Unlock(c)
    PROVE  DocumentInv' /\ Store!StoreNext
<1>1. DocumentInv' /\ Shown' = [Shown EXCEPT ![c] = Store!Free] /\ Contents' = Contents
  BY GoneStep DEF Unlock
<1>2. Shown[c].at = "done"
  BY DEF Shown, CallOf, Unlock
<1>3. Store!Returns(c)
  BY <1>1, <1>2 DEF Store!Returns, Shown
<1> QED
  BY <1>1, <1>3 DEF Store!StoreNext

LEMMA EndsStep ==
    ASSUME DocumentInv, NEW c \in Caller, Ends(c)
    PROVE  DocumentInv' /\ Store!StoreNext
<1>1. DocumentInv' /\ Shown' = [Shown EXCEPT ![c] = Store!Free] /\ Contents' = Contents
  BY GoneStep DEF Ends
<1>2. Store!IsLost(c)
  BY <1>1 DEF Store!IsLost, Shown
<1> QED
  BY <1>1, <1>2 DEF Store!StoreNext

(* A lock is stale only when no operation holds it.                        *)
LEMMA StaleStep ==
    ASSUME DocumentInv, NoPauses, GoesStale
    PROVE  DocumentInv' /\ UNCHANGED Store!storeVars
<1>1. PICK c \in Caller : lock = c /\ work[c].at \in {"free", "asked"}
  BY DEF GoesStale, NoPauses, Sleep
<1>2. Contents' = Contents /\ Shown' = Shown
  BY DEF GoesStale, Contents, Shown
<1>3. ASSUME NEW d \in Caller PROVE CallInv(d)'
  <2>1. work[d].at \notin {"locked", "loaded", "written"}
    BY <1>1 DEF DocumentInv, CallInv
  <2> QED
    BY <2>1 DEF CallInv, GoesStale
<1>4. VersionInv'
  BY VersionKept DEF DocumentInv, GoesStale
<1> QED
  BY <1>2, <1>3, <1>4 DEF DocumentInv, GoesStale, Store!storeVars, Shown

(***************************************************************************)
(* The document in a file implements the store in memory: when no process  *)
(* sleeps past the staleness of a lock it holds, every call takes effect   *)
(* at one instant between its start and its return, is refused with an     *)
(* error, or is lost with its process, however calls, failed writes and    *)
(* ends of processes interleave.                                           *)
(***************************************************************************)
LEMMA StepImplements ==
    ASSUME DocumentInv, NoPauses, Distinct, DocumentNext
    PROVE  DocumentInv' /\ [Store!StoreNext]_(Store!storeVars)
<1>1. CASE GoesStale
  BY <1>1, StaleStep
<1>2. ASSUME NEW c \in Caller, NEW sort \in Kinds, Calls(c, sort)
      PROVE  DocumentInv' /\ [Store!StoreNext]_(Store!storeVars)
  BY <1>2, CallsStep
<1>3. ASSUME NEW c \in Caller,
             \/ Read(c) \/ Lock(c) \/ Load(c) \/ Write(c) \/ Unsynced(c) \/ Unlock(c) \/ Ends(c)
      PROVE  DocumentInv' /\ [Store!StoreNext]_(Store!storeVars)
  BY <1>3, ReadStep, LockStep, LoadStep, WriteStep, UnsyncedStep, UnlockStep, EndsStep
    
<1> QED
  BY <1>1, <1>2, <1>3 DEF DocumentNext

LEMMA InvStays == DocumentInv /\ UNCHANGED documentVars => DocumentInv'
BY DEF DocumentInv, VersionInv, CallInv, documentVars, Seen, Contents

LEMMA InitImplements == DocumentInit => Store!StoreInit
<1> SUFFICES ASSUME DocumentInit PROVE Store!StoreInit
  OBVIOUS
<1>1. CallOf(Idle) = Store!Free
  BY DEF CallOf, Idle, Store!Free
<1>2. \A c \in Caller : work[c] = Idle
  BY DEF DocumentInit
<1> QED
  BY <1>1, <1>2 DEF Store!StoreInit

THEOREM DocumentsImplementStore ==
    ASSUME NoPauses, Distinct
    PROVE  DocumentSpec => CallsTakeEffectOnce
<1>1. DocumentInit => DocumentInv /\ Store!StoreInit
  BY InitInv, InitImplements
<1>2. DocumentInv /\ [DocumentNext]_documentVars => DocumentInv' /\ [TakesEffectOnce]_documentVars
  <2>1. CASE DocumentNext
    BY <2>1, StepImplements DEF TakesEffectOnce
  <2>2. CASE UNCHANGED documentVars
    BY <2>2, InvStays
  <2> QED
    BY <2>1, <2>2
<1> QED
  BY <1>1, <1>2, PTL DEF DocumentSpec, CallsTakeEffectOnce

-----------------------------------------------------------------------------
(***************************************************************************)
(* Lifecycle keys.  A claim passes through four stages: the document as it *)
(* is loaded, the plan of the claim, the pruning of aliases and the grant  *)
(* itself.  Each of the first three keeps the row of a live lease,         *)
(* unchanged, under some key; the grant changes the row of a live lease only*)
(* for its own owner, and keeps its epoch.                                 *)
(***************************************************************************)

View == [Key -> Row \cup {NoEntry}]
(* Key k of view r holds the live lease of an owner. *)
LiveAt(r, k) == k \in Key /\ Has(r, k) /\ HoldsLiveLease(r[k])
(* Its row is there in view s, unchanged, under some key. *)
KeptIn(s, entry) == \E j \in Key : s[j] = entry

-----------------------------------------------------------------------------
(* What a row is. *)
LEMMA RowFields ==
    ASSUME NEW entry \in Row
    PROVE  /\ entry.phase \in {"active", "queued", "done"} /\ entry.owner \in Owner \cup {NoOwner}
           /\ entry.live \in BOOLEAN /\ entry.epoch \in 0..MaxEpoch /\ entry.alias \in BOOLEAN
BY DEF Row

(* A finite set of at most one element that has this one is this singleton. *)
LEMMA OnlyOne ==
    ASSUME NEW S, IsFiniteSet(S), ~(Cardinality(S) > 1), NEW k \in S
    PROVE  S = {k} /\ Cardinality(S) = 1
<1>1. IsFiniteSet(S \ {k}) /\ Cardinality(S \ {k}) = Cardinality(S) - 1
  BY FS_RemoveElement
<1>2. Cardinality(S) \in Nat /\ Cardinality(S \ {k}) \in Nat
  BY <1>1, FS_CardinalityType
<1>3. Cardinality(S) = 1 /\ Cardinality(S \ {k}) = 0
  BY <1>1, <1>2
<1>4. S \ {k} = {}
  BY <1>1, <1>3, FS_EmptySet
<1> QED BY <1>3, <1>4

LEMMA KeysAreFinite ==
    ASSUME NEW S \in SUBSET Key
    PROVE  IsFiniteSet(S)
<1>1. IsFiniteSet(Key)
  BY KeyAssumption, FS_AddElement DEF Key
<1> QED BY <1>1, FS_Subset

(* A winner is one of the rows it is chosen from. *)
LEMMA WinnerIsARow ==
    ASSUME NEW r, NEW ks, NEW preferred \in SUBSET ks, NEW w \in Winners(r, ks, preferred)
    PROVE  w \in ks /\ (preferred # {} => w \in preferred)
BY DEF Winners, Best

(* Adopting a row keeps every view a view, and keeps the row of a live lease*)
(* that is the winner's or an alias's.                                       *)
LEMMA AdoptTyped ==
    ASSUME NEW r \in View, NEW w \in Key
    PROVE  Adopt(r, w) \in View
<1> SUFFICES ASSUME NEW k \in Key
             PROVE  Adopt(r, w)[k] \in Row \cup {NoEntry}
  BY DEF Adopt, View
<1>1. Canonical \in Key
  BY DEF Key
<1>2. ASSUME k \in Rows(r)
      PROVE  AsAlias(r[k]) \in Row
  <2>1. r[k] \in Row
    BY <1>2 DEF Rows, Has, View
  <2> QED BY <2>1, RowFields DEF AsAlias, Row
<1> QED BY <1>1, <1>2 DEF Adopt, View

LEMMA AdoptKeeps ==
    ASSUME NEW r \in View, NEW w \in Key, Has(r, Canonical) => w = Canonical,
           NEW k, LiveAt(r, k), k \in Rows(r) => k = w
    PROVE  KeptIn(Adopt(r, w), r[k])
<1>1. k \in Key /\ Canonical \in Key
  BY DEF LiveAt, Key
<1>2. CASE k = w
  <2>1. Adopt(r, w)[Canonical] = r[k]
    BY <1>1, <1>2 DEF Adopt
  <2> QED BY <1>1, <2>1 DEF KeptIn
<1>3. CASE k # w
  <2>1. k # Canonical /\ k \notin Rows(r)
    BY <1>3 DEF LiveAt
  <2>2. Adopt(r, w)[k] = r[k]
    BY <1>1, <1>3, <2>1 DEF Adopt
  <2> QED BY <1>1, <2>2 DEF KeptIn
<1> QED BY <1>2, <1>3

-----------------------------------------------------------------------------
(* Loading: it leaves the document alone, or at most one row is leased, and*)
(* that row is the one it adopts.                                          *)
LEMMA MigratedTyped ==
    ASSUME NEW r \in View, NEW m \in Migrated(r)
    PROVE  m \in View
<1>1. Canonical \in Key /\ Rows(r) \subseteq Key /\ Leased(r) \subseteq Rows(r)
  BY DEF Key, Rows, Leased
<1>2. \A w \in Winners(r, Rows(r), Leased(r)) : w \in Key
  BY <1>1, WinnerIsARow
<1> QED BY <1>1, <1>2, AdoptTyped DEF Migrated

LEMMA MigratedKeeps ==
    ASSUME NEW r \in View, NEW m \in Migrated(r), NEW k, LiveAt(r, k)
    PROVE  KeptIn(m, r[k])
<1>1. Canonical \in Key /\ Rows(r) \subseteq Key /\ Leased(r) \subseteq Rows(r) /\ k \in Key
  BY DEF Key, Rows, Leased, LiveAt
<1>2. CASE LoadLeaves(r)
  BY <1>1, <1>2 DEF Migrated, KeptIn
<1>3. CASE ~LoadLeaves(r)
  <2>1. ASSUME k \in Rows(r)
        PROVE  Leased(r) = {k} /\ Cardinality(Leased(r)) = 1
    <3>1. k \in Leased(r)
      BY <2>1 DEF Leased, LiveAt, HoldsLiveLease
    <3>2. IsFiniteSet(Leased(r))
      BY <1>1, KeysAreFinite
    <3>3. ~(Cardinality(Leased(r)) > 1)
      BY <1>3 DEF LoadLeaves
    <3> QED BY <3>1, <3>2, <3>3, OnlyOne
  <2>2. CASE Has(r, Canonical)
    <3>1. k \in Rows(r) => k = Canonical
      BY <1>3, <2>1, <2>2 DEF LoadLeaves
    <3>2. KeptIn(Adopt(r, Canonical), r[k])
      BY <1>1, <3>1, AdoptKeeps
    <3> QED BY <1>3, <2>2, <3>2 DEF Migrated
  <2>3. CASE ~Has(r, Canonical)
    <3>1. PICK w \in Winners(r, Rows(r), Leased(r)) : m = Adopt(r, w)
      BY <1>3, <2>3 DEF Migrated
    <3>2. w \in Rows(r) /\ (Leased(r) # {} => w \in Leased(r))
      BY <1>1, WinnerIsARow
    <3>3. k \in Rows(r) => k = w
      BY <2>1, <3>2
    <3> QED BY <1>1, <2>3, <3>1, <3>2, <3>3, AdoptKeeps
  <2> QED BY <2>2, <2>3
<1> QED BY <1>2, <1>3

(* Planning: without a conflict at most one row is live, the canonical one *)
(* where there is one, and that row is adopted.                            *)
LEMMA PlannedTyped ==
    ASSUME NEW r \in View, NEW m \in Planned(r)
    PROVE  m \in View
<1>1. Canonical \in Key /\ Rows(r) \subseteq Key /\ LiveKeys(r) \subseteq Rows(r)
  BY DEF Key, Rows, LiveKeys
<1>2. \A w \in Winners(r, Rows(r), LiveKeys(r)) : w \in Key
  BY <1>1, WinnerIsARow
<1> QED BY <1>1, <1>2, AdoptTyped DEF Planned

LEMMA PlannedKeeps ==
    ASSUME NEW r \in View, ~Conflict(r), NEW m \in Planned(r), NEW k, LiveAt(r, k)
    PROVE  KeptIn(m, r[k])
<1>1. Canonical \in Key /\ Rows(r) \subseteq Key /\ LiveKeys(r) \subseteq Rows(r) /\ k \in Key
  BY DEF Key, Rows, LiveKeys, LiveAt
<1>2. CASE Rows(r) \cap Legacy = {}
  BY <1>1, <1>2 DEF Planned, KeptIn
<1>3. CASE Rows(r) \cap Legacy # {}
  <2>1. ASSUME k \in Rows(r)
        PROVE  k \in LiveKeys(r) /\ LiveKeys(r) = {k}
    <3>1. k \in LiveKeys(r)
      BY <2>1 DEF LiveKeys, LiveAt
    <3>2. IsFiniteSet(LiveKeys(r))
      BY <1>1, KeysAreFinite
    <3>3. ~(Cardinality(LiveKeys(r)) > 1)
      BY <1>3 DEF Conflict
    <3> QED BY <3>1, <3>2, <3>3, OnlyOne
  <2>2. CASE Has(r, Canonical)
    <3>1. k \in Rows(r) => k = Canonical
      BY <1>1, <1>3, <2>1, <2>2 DEF Conflict, Key
    <3>2. KeptIn(Adopt(r, Canonical), r[k])
      BY <1>1, <3>1, AdoptKeeps
    <3> QED BY <1>3, <2>2, <3>2 DEF Planned
  <2>3. CASE ~Has(r, Canonical)
    <3>1. PICK w \in Winners(r, Rows(r), LiveKeys(r)) : m = Adopt(r, w)
      BY <1>3, <2>3 DEF Planned
    <3>2. w \in Rows(r) /\ (LiveKeys(r) # {} => w \in LiveKeys(r))
      BY <1>1, WinnerIsARow
    <3>3. k \in Rows(r) => k = w
      BY <2>1, <3>2
    <3> QED BY <1>1, <2>3, <3>1, <3>2, <3>3, AdoptKeeps
  <2> QED BY <2>2, <2>3
<1> QED BY <1>2, <1>3

(* Pruning: what a live lease protects is not prunable. *)
LEMMA PrunedTyped ==
    ASSUME NEW r \in View, NEW m \in Pruned(r)
    PROVE  m \in View
BY DEF Pruned, View

LEMMA PrunedKeeps ==
    ASSUME NEW r \in View, NEW m \in Pruned(r), NEW k, LiveAt(r, k)
    PROVE  KeptIn(m, r[k])
<1>1. k \in Key /\ k \notin Prunable(r)
  BY DEF LiveAt, HoldsLiveLease, Prunable
<1>2. PICK gone \in SUBSET Prunable(r) : m = [j \in Key |-> IF j \in gone THEN NoEntry ELSE r[j]]
  BY DEF Pruned
<1> QED BY <1>1, <1>2 DEF KeptIn

(* The grant: a claim takes the row it names, and a live one only from its *)
(* own owner.                                                               *)
LEMMA LeaseTyped ==
    ASSUME NEW entry \in Row, NEW p \in Owner, entry.epoch < MaxEpoch
    PROVE  Lease(entry, p) \in Row
<1>1. entry.epoch \in 0..MaxEpoch /\ entry.epoch + 1 \in 0..MaxEpoch
  BY RowFields, KeyAssumption
<1> QED BY <1>1, RowFields DEF Lease, Row

LEMMA GrantsTyped ==
    ASSUME NEW r \in View, NEW k \in Key, NEW p \in Owner, Grants(r, k, p)
    PROVE  rows' \in View
<1>1. CASE ~Has(r, k)
  <2>1. Unowned \in Row /\ Unowned.epoch < MaxEpoch
    BY KeyAssumption DEF Unowned, Row
  <2>2. Lease(Unowned, p) \in Row
    BY <2>1, LeaseTyped
  <2> QED BY <1>1, <2>2 DEF Grants, View
<1>2. CASE Has(r, k)
  <2>1. r[k] \in Row
    BY <1>2 DEF Has, View
  <2>2. Lease(r[k], p) \in Row
    BY <1>2, <2>1, LeaseTyped DEF Grants
  <2>3. rows' = [r EXCEPT ![k] = Lease(r[k], p)] \/ rows' = r
    BY <1>2 DEF Grants, View
  <2> QED BY <2>2, <2>3 DEF View
<1> QED BY <1>1, <1>2

LEMMA GrantsKeeps ==
    ASSUME NEW r \in View, NEW k \in Key, NEW p \in Owner, Grants(r, k, p),
           NEW j, LiveAt(r, j)
    PROVE  StillHolds(rows', r[j].owner, r[j].epoch)
<1>1. j \in Key /\ r[j] \in Row /\ r[j] # NoEntry
  BY DEF LiveAt, Has, View
<1>2. rows' \in View
  BY GrantsTyped
<1>3. CASE rows'[j] = r[j]
  BY <1>1, <1>3 DEF StillHolds, LiveAt, Has
<1>4. CASE rows'[j] # r[j]
  <2>1. j = k /\ Claimable(r[k], p) /\ rows'[k] = Lease(r[k], p)
    BY <1>1, <1>4 DEF Grants, View, Has
  <2>2. r[j].owner = p
    BY <2>1 DEF Claimable, LiveAt, HoldsLiveLease
  <2>3. /\ Lease(r[k], p).phase = r[j].phase /\ Lease(r[k], p).owner = p
        /\ Lease(r[k], p).live = TRUE /\ Lease(r[k], p).epoch = r[j].epoch
    BY <1>1, <2>1, <2>2 DEF Lease, Row
  <2>4. HoldsLiveLease(Lease(r[k], p))
    BY <2>2, <2>3 DEF HoldsLiveLease, IsTerminal, LiveAt
  <2>5. Lease(r[k], p) # NoEntry
    <3>1. Lease(r[k], p) \in Row
      BY <1>1, <2>1, LeaseTyped DEF Grants, LiveAt
    <3> QED BY <3>1, KeyAssumption
  <2> QED BY <1>1, <2>1, <2>2, <2>3, <2>4, <2>5 DEF StillHolds, Has
<1> QED BY <1>3, <1>4

-----------------------------------------------------------------------------
(* Every step keeps the rows what they should be. *)
LEMMA ActsTyped ==
    ASSUME NEW r \in View, NEW k \in Key, NEW p \in Owner, Acts(r, k, p)
    PROVE  rows' \in View
<1>1. r[k] \in Row
  BY DEF Acts, Owns, Has, View
<1>2. /\ [r[k] EXCEPT !.phase = "active"] \in Row /\ [r[k] EXCEPT !.phase = "done"] \in Row
      /\ [r[k] EXCEPT !.live = FALSE] \in Row
  BY <1>1 DEF Row
<1> QED BY <1>2 DEF Acts, View

LEMMA ClaimStages ==
    ASSUME KeyTypes, NEW p \in New, Claim(p)
    PROVE  \E loaded \in Migrated(rows) : \E planned \in Planned(loaded) :
             \E r \in Pruned(planned) :
               /\ ~Conflict(loaded) /\ Grants(r, Canonical, p)
               /\ rows \in View /\ loaded \in View /\ planned \in View /\ r \in View
<1>1. PICK loaded \in Migrated(rows) :
        ~Conflict(loaded) /\ \E planned \in Planned(loaded) : \E r \in Pruned(planned) :
                               Grants(r, Canonical, p)
  BY DEF Claim
<1>2. PICK planned \in Planned(loaded) : \E r \in Pruned(planned) : Grants(r, Canonical, p)
  BY <1>1
<1>3. PICK r \in Pruned(planned) : Grants(r, Canonical, p)
  BY <1>2
<1>4. rows \in View
  BY DEF KeyTypes, View
<1>5. loaded \in View
  BY <1>4, MigratedTyped
<1>6. planned \in View
  BY <1>5, PlannedTyped
<1>7. r \in View
  BY <1>6, PrunedTyped
<1> QED BY <1>1, <1>3, <1>4, <1>5, <1>6, <1>7

LEMMA StepTyped ==
    ASSUME KeyTypes, [KeyNext]_keyVars
    PROVE  KeyTypes'
<1> USE DEF KeyTypes
<1>a. rows \in View /\ Canonical \in Key /\ Legacy \subseteq Key
      /\ New \subseteq Owner /\ Old \subseteq Owner
  BY DEF View, Key, Owner
<1>1. CASE Persists
  BY <1>a, <1>1, MigratedTyped DEF Persists, View
<1>2. CASE Expires
  <2>1. PICK k \in Key : Has(rows, k) /\ rows' = [rows EXCEPT ![k].live = FALSE]
    BY <1>2 DEF Expires
  <2>2. [rows[k] EXCEPT !.live = FALSE] \in Row
    BY <1>a, <2>1 DEF Has, View, Row
  <2> QED BY <2>1, <2>2
<1>3. ASSUME NEW p \in New, Claim(p)
      PROVE  KeyTypes'
  <2>1. PICK loaded \in Migrated(rows) : \E planned \in Planned(loaded) :
             \E r \in Pruned(planned) : Grants(r, Canonical, p) /\ r \in View
    BY <1>3, ClaimStages
  <2>2. PICK r \in View : Grants(r, Canonical, p)
    BY <2>1
  <2> QED BY <1>a, <2>2, GrantsTyped DEF View
<1>4. ASSUME NEW p \in New, NewActs(p)
      PROVE  KeyTypes'
  <2>1. PICK loaded \in Migrated(rows) : Acts(loaded, Canonical, p)
    BY <1>4 DEF NewActs
  <2>2. loaded \in View
    BY <1>a, MigratedTyped
  <2> QED BY <1>a, <2>1, <2>2, ActsTyped DEF View
<1>5. ASSUME NEW p \in Old, OldClaims(p)
      PROVE  KeyTypes'
  <2>1. PICK k \in Legacy : Grants(rows, k, p)
    BY <1>5 DEF OldClaims
  <2> QED BY <1>a, <2>1, GrantsTyped DEF View
<1>6. ASSUME NEW p \in Old, OldActs(p)
      PROVE  KeyTypes'
  <2>1. PICK k \in Legacy : Acts(rows, k, p)
    BY <1>6 DEF OldActs
  <2> QED BY <1>a, <2>1, ActsTyped DEF View
<1>7. CASE UNCHANGED keyVars
  BY <1>7 DEF keyVars
<1> QED BY <1>1, <1>2, <1>3, <1>4, <1>5, <1>6, <1>7 DEF KeyNext

(* The rows of the work unit are rows of a lifecycle, in every state. *)
THEOREM KeysTyped == KeySpec => []KeyTypes
<1>1. KeyInit => KeyTypes
  BY DEF KeyInit, KeyTypes
<1>2. KeyTypes /\ [KeyNext]_keyVars => KeyTypes'
  BY StepTyped
<1> QED BY <1>1, <1>2, PTL DEF KeySpec

-----------------------------------------------------------------------------
(* A view that keeps the row of a live lease holds the lease. *)
LEMMA KeptIsLive ==
    ASSUME NEW r, NEW k, LiveAt(r, k), NEW s, KeptIn(s, r[k])
    PROVE  \E j \in Key : s[j] = r[k] /\ LiveAt(s, j)
BY DEF KeptIn, LiveAt, Has

LEMMA PersistsKeeps ==
    ASSUME KeyTypes, Persists, NEW k, LiveAt(rows, k)
    PROVE  StillHolds(rows', rows[k].owner, rows[k].epoch)
<1>1. PICK loaded \in Migrated(rows) : rows' = loaded
  BY DEF Persists
<1>2. KeptIn(loaded, rows[k])
  BY MigratedKeeps DEF KeyTypes, View
<1>3. PICK j \in Key : loaded[j] = rows[k] /\ LiveAt(loaded, j)
  BY <1>2, KeptIsLive
<1> QED BY <1>1, <1>3 DEF StillHolds, LiveAt

LEMMA ClaimKeeps ==
    ASSUME KeyTypes, NEW p \in New, Claim(p), NEW k, LiveAt(rows, k)
    PROVE  StillHolds(rows', rows[k].owner, rows[k].epoch)
<1>1. PICK loaded \in Migrated(rows) : \E planned \in Planned(loaded) :
             \E r \in Pruned(planned) :
               /\ ~Conflict(loaded) /\ Grants(r, Canonical, p)
               /\ rows \in View /\ loaded \in View /\ planned \in View /\ r \in View
  BY ClaimStages
<1>2. PICK planned \in Planned(loaded) : \E r \in Pruned(planned) :
               /\ ~Conflict(loaded) /\ Grants(r, Canonical, p)
               /\ rows \in View /\ loaded \in View /\ planned \in View /\ r \in View
  BY <1>1
<1>3. PICK r \in Pruned(planned) :
               /\ ~Conflict(loaded) /\ Grants(r, Canonical, p)
               /\ rows \in View /\ loaded \in View /\ planned \in View /\ r \in View
  BY <1>2
<1>4. PICK a \in Key : loaded[a] = rows[k] /\ LiveAt(loaded, a)
  BY <1>3, MigratedKeeps, KeptIsLive
<1>5. PICK b \in Key : planned[b] = loaded[a] /\ LiveAt(planned, b)
  BY <1>3, <1>4, PlannedKeeps, KeptIsLive
<1>6. PICK c \in Key : r[c] = planned[b] /\ LiveAt(r, c)
  BY <1>3, <1>5, PrunedKeeps, KeptIsLive
<1>7. Canonical \in Key /\ p \in Owner
  BY DEF Key, Owner
<1>8. StillHolds(rows', r[c].owner, r[c].epoch)
  BY <1>3, <1>6, <1>7, GrantsKeeps
<1> QED BY <1>4, <1>5, <1>6, <1>8

(* No load of the document and no claim of another takes a live lease away: *)
(* the process that held one still holds it, at the same epoch, whatever    *)
(* the keys its row is moved between.                                      *)
THEOREM LeasesSurvive == KeySpec => LiveLeaseKept
<1>1. ASSUME KeyTypes, NEW p \in Owner, NEW n \in 0..MaxEpoch,
             StillHolds(rows, p, n), ~StillHolds(rows', p, n)
      PROVE  ~Persists /\ \A q \in New : ~Claim(q)
  <2>1. PICK k \in Key : LiveAt(rows, k) /\ rows[k].owner = p /\ rows[k].epoch = n
    BY <1>1 DEF StillHolds, LiveAt
  <2>2. ~Persists
    BY <1>1, <2>1, PersistsKeeps
  <2>3. ASSUME NEW q \in New
        PROVE  ~Claim(q)
    BY <1>1, <2>1, ClaimKeeps
  <2> QED BY <2>2, <2>3
<1>2. KeyTypes =>
        [\A p \in Owner, n \in 0..MaxEpoch :
          StillHolds(rows, p, n) /\ ~StillHolds(rows', p, n) =>
             ~Persists /\ \A q \in New : ~Claim(q)]_keyVars
  BY <1>1
<1> QED BY <1>2, KeysTyped, PTL DEF LiveLeaseKept

-----------------------------------------------------------------------------
(***************************************************************************)
(* Babysitter generations.  A pull request has one babysitter, for any     *)
(* number of processes, work units and mishaps.                            *)
(***************************************************************************)

(* The inductive invariant *)

(* The babysitters that are up or may still come up. *)
Live == workers \union creating

Before == {"idle", "snapshot", "sessions", "claim"}
Early == Before \union {"roster", "plan", "spawn"}
Placing == {"roster", "plan", "spawn", "answer", "owned", "registered"}
AnyAttempt == [pc : Placing \union Before \union {"persist", "catch"}, generation : Nat,
               created : {"no", "uncertain", "yes"}]

(* An attempt places its babysitter under the claim as it is, and one that *)
(* has created nothing finds nobody that somebody else created.            *)
Steady(a) ==
    /\ a.pc \in Placing => a.generation # 0 /\ a.generation = claim
    /\ a.pc \in Before => a.generation = 0
    /\ a.pc \in Early => a.created = "no"
Holds(p, w) ==
    /\ Steady(attempt[p][w])
    /\ attempt[p][w].generation <= granted
    /\ attempt[p][w].generation = claim /\ claim # 0 =>
          Live \subseteq {w} /\ (attempt[p][w].created = "no" => Live = {})

(* No generation is granted twice. *)
OneGrant ==
    \A p, q \in Proc, v, w \in Work :
        attempt[p][v].generation = attempt[q][w].generation /\ attempt[p][v].generation # 0
          => p = q /\ v = w

Counts ==
    /\ claim \in Nat /\ granted \in Nat /\ claim <= granted
    /\ attempt \in [Proc -> [Work -> AnyAttempt]]

OneLive ==
    /\ claim = 0 => Live = {}
    /\ workers \intersect creating = {}
    /\ \A v, w \in Live : v = w

GenerationInv ==
    /\ Counts
    /\ OneLive
    /\ OneGrant
    /\ \A p \in Proc, w \in Work : Holds(p, w)

-----------------------------------------------------------------------------
(* Lemmas *)

AttemptMoves(p, w, a) == attempt' = [attempt EXCEPT ![p][w] = a]

LEMMA MovesOne ==
    ASSUME attempt \in [Proc -> [Work -> AnyAttempt]], NEW p \in Proc, NEW w \in Work,
           NEW a \in AnyAttempt, AttemptMoves(p, w, a)
    PROVE  /\ attempt' \in [Proc -> [Work -> AnyAttempt]]
           /\ attempt'[p][w] = a
           /\ \A q \in Proc, v \in Work : <<q, v>> # <<p, w>> => attempt'[q][v] = attempt[q][v]
BY DEF AttemptMoves

LEMMA NoAttemptFacts ==
    /\ NoAttempt \in AnyAttempt /\ NoAttempt.pc = "idle" /\ NoAttempt.generation = 0
    /\ NoAttempt.created = "no"
BY DEF NoAttempt, AnyAttempt, Before

(* A step of an attempt that creates nothing.                              *)
LEMMA Proceeds ==
    ASSUME GenerationInv, NEW p \in Proc, NEW w \in Work, NEW a \in AnyAttempt, AttemptMoves(p, w, a),
           UNCHANGED <<claim, granted, creating>>, workers' \subseteq workers, Steady(a),
           a.generation \in {0, attempt[p][w].generation},
           a.generation # 0 /\ a.created = "no" => attempt[p][w].created = "no"
    PROVE  GenerationInv'
<1>1. /\ attempt' \in [Proc -> [Work -> AnyAttempt]]
      /\ attempt'[p][w] = a
      /\ \A q \in Proc, v \in Work : <<q, v>> # <<p, w>> => attempt'[q][v] = attempt[q][v]
  BY MovesOne DEF GenerationInv, Counts
<1>2. Live' \subseteq Live
  BY DEF Live
<1>3. OneLive'
  BY <1>2 DEF GenerationInv, OneLive
<1>4. OneGrant'
  <2> SUFFICES ASSUME NEW q \in Proc, NEW r \in Proc, NEW u \in Work, NEW v \in Work,
                      attempt'[q][u].generation = attempt'[r][v].generation,
                      attempt'[q][u].generation # 0
               PROVE  q = r /\ u = v
    BY DEF OneGrant
  <2>1. attempt'[q][u].generation = attempt[q][u].generation
        /\ attempt'[r][v].generation = attempt[r][v].generation
    BY <1>1
  <2>2. OneGrant /\ attempt[q][u].generation = attempt[r][v].generation
        /\ attempt[q][u].generation # 0
    BY <2>1 DEF GenerationInv
  <2> QED
    BY <2>2 DEF OneGrant
<1>5. Holds(p, w)'
  <2>1. Steady(a)'
    BY DEF Steady
  <2>2. a.generation <= granted
    BY DEF GenerationInv, Holds, Counts
  <2>3. a.generation = claim /\ claim # 0 => Live \subseteq {w} /\ (a.created = "no" => Live = {})
    BY DEF GenerationInv, Holds
  <2> QED
    BY <1>1, <1>2, <2>1, <2>2, <2>3 DEF Holds, Steady
<1>6. ASSUME NEW q \in Proc, NEW v \in Work, <<q, v>> # <<p, w>> PROVE Holds(q, v)'
  <2>1. attempt'[q][v] = attempt[q][v] /\ Holds(q, v)
    BY <1>1, <1>6 DEF GenerationInv
  <2> QED
    BY <1>2, <2>1 DEF Holds, Steady
<1> QED
  BY <1>1, <1>3, <1>4, <1>5, <1>6 DEF GenerationInv, Counts

(* What leaves the attempts alone and creates nothing.                     *)
LEMMA Quiet ==
    ASSUME GenerationInv, UNCHANGED <<claim, granted, creating, attempt>>,
           workers' \subseteq workers
    PROVE  GenerationInv'
<1>1. Live' \subseteq Live
  BY DEF Live
<1>2. OneLive'
  BY <1>1 DEF GenerationInv, OneLive
<1>3. ASSUME NEW q \in Proc, NEW v \in Work PROVE Holds(q, v)'
  BY <1>1 DEF GenerationInv, Holds, Steady
<1> QED
  BY <1>2, <1>3 DEF GenerationInv, Counts, OneGrant

(* The steps of the code that name the attempt they leave.                 *)
LEMMA Stepping ==
    ASSUME attempt \in [Proc -> [Work -> AnyAttempt]], NEW p \in Proc, NEW w \in Work,
           NEW pc, StepsTo(p, w, pc)
    PROVE  AttemptMoves(p, w, [pc |-> pc, generation |-> attempt[p][w].generation,
                        created |-> attempt[p][w].created])
<1>1. attempt[p][w] \in AnyAttempt
  OBVIOUS
<1>2. [attempt[p][w] EXCEPT !.pc = pc] = [pc |-> pc, generation |-> attempt[p][w].generation,
                                          created |-> attempt[p][w].created]
  BY <1>1 DEF AnyAttempt
<1>3. attempt' = [attempt EXCEPT ![p][w] = [attempt[p][w] EXCEPT !.pc = pc]]
  BY DEF StepsTo
<1> QED
  BY <1>2, <1>3 DEF AttemptMoves

LEMMA SteppingWith ==
    ASSUME attempt \in [Proc -> [Work -> AnyAttempt]], NEW p \in Proc, NEW w \in Work,
           NEW pc, NEW created, StepsWith(p, w, pc, created)
    PROVE  AttemptMoves(p, w, [pc |-> pc, generation |-> attempt[p][w].generation, created |-> created])
<1>1. attempt[p][w] \in AnyAttempt
  OBVIOUS
<1>2. [[attempt[p][w] EXCEPT !.pc = pc] EXCEPT !.created = created]
        = [pc |-> pc, generation |-> attempt[p][w].generation, created |-> created]
  <2>1. PICK b : b = [attempt[p][w] EXCEPT !.pc = pc]
    OBVIOUS
  <2>2. b = [pc |-> pc, generation |-> attempt[p][w].generation,
             created |-> attempt[p][w].created]
    BY <1>1, <2>1 DEF AnyAttempt
  <2>3. [b EXCEPT !.created = created]
          = [pc |-> pc, generation |-> attempt[p][w].generation, created |-> created]
    BY <2>2
  <2> QED
    BY <2>1, <2>3
<1>3. attempt' = [attempt EXCEPT ![p][w] = [[attempt[p][w] EXCEPT !.pc = pc] EXCEPT !.created = created]]
  BY DEF StepsWith
<1> QED
  BY <1>2, <1>3 DEF AttemptMoves

-----------------------------------------------------------------------------
(* The steps that only move an attempt *)

LEMMA Steps ==
    ASSUME GenerationInv, NEW p \in Proc, NEW w \in Work, NEW pc, StepsTo(p, w, pc),
           UNCHANGED <<claim, granted, creating>>, workers' \subseteq workers,
           \/ attempt[p][w].pc \in Before /\ pc \in Before \union {"persist", "catch"}
           \/ attempt[p][w].pc \in {"roster", "plan"} /\ pc \in {"plan", "spawn", "catch"}
           \/ attempt[p][w].pc \in Placing \union {"persist"} /\ pc \in {"persist", "catch"}
           \/ attempt[p][w].pc = "owned" /\ pc = "registered"
    PROVE  GenerationInv'
<1>1. PICK a : a = [pc |-> pc, generation |-> attempt[p][w].generation,
                    created |-> attempt[p][w].created]
  OBVIOUS
<1>2. attempt[p][w] \in AnyAttempt /\ Steady(attempt[p][w])
  BY DEF GenerationInv, Counts, Holds
<1>3. a \in AnyAttempt
  BY <1>1, <1>2 DEF AnyAttempt, Placing, Before
<1>4. Steady(a)
  BY <1>1, <1>2 DEF Steady, Placing, Before, Early
<1>5. AttemptMoves(p, w, a)
  BY <1>1, Stepping DEF GenerationInv, Counts
<1> QED
  BY <1>1, <1>3, <1>4, <1>5, Proceeds

LEMMA StepsCreated ==
    ASSUME GenerationInv, NEW p \in Proc, NEW w \in Work, NEW pc, StepsWith(p, w, pc, "yes"),
           UNCHANGED <<claim, granted, creating>>, workers' \subseteq workers,
           \/ attempt[p][w].pc = "roster" /\ pc \in {"persist", "catch"}
           \/ attempt[p][w].pc = "answer" /\ pc = "owned"
    PROVE  GenerationInv'
<1>1. PICK a : a = [pc |-> pc, generation |-> attempt[p][w].generation, created |-> "yes"]
  OBVIOUS
<1>2. attempt[p][w] \in AnyAttempt /\ Steady(attempt[p][w])
  BY DEF GenerationInv, Counts, Holds
<1>3. a \in AnyAttempt
  BY <1>1, <1>2 DEF AnyAttempt, Placing, Before
<1>4. Steady(a)
  BY <1>1, <1>2 DEF Steady, Placing, Before, Early
<1>5. AttemptMoves(p, w, a)
  BY <1>1, SteppingWith DEF GenerationInv, Counts
<1> QED
  BY <1>1, <1>3, <1>4, <1>5, Proceeds

LEMMA Concluding ==
    ASSUME GenerationInv, NEW p \in Proc, NEW w \in Work, Concludes(p, w),
           UNCHANGED <<claim, granted, creating>>, workers' \subseteq workers
    PROVE  GenerationInv'
<1>1. AttemptMoves(p, w, NoAttempt)
  BY DEF Concludes, AttemptMoves
<1>2. Steady(NoAttempt)
  BY NoAttemptFacts DEF Steady, Placing, Before
<1> QED
  BY <1>1, <1>2, NoAttemptFacts, Proceeds

-----------------------------------------------------------------------------
(* The claim and its generations *)

(* An attempt that holds the claim is the only one that does, and while it *)
(* places the babysitter nobody else has one up.                           *)
LEMMA MarkRunningInv ==
    ASSUME GenerationInv, NEW p \in Proc, NEW w \in Work, MarkRunning(p, w)
    PROVE  GenerationInv'
<1>1. /\ attempt[p][w] \in AnyAttempt /\ Steady(attempt[p][w]) /\ attempt[p][w].pc = "claim"
      /\ attempt[p][w].generation = 0 /\ attempt[p][w].created = "no"
  BY DEF GenerationInv, Counts, Holds, Steady, MarkRunning, At, Before, Early
<1>2. CASE claim # 0
  BY <1>2, Concluding DEF MarkRunning
<1>3. CASE claim = 0
  <2>1. PICK a : a = attempt'[p][w]
    OBVIOUS
  <2>2. /\ a \in AnyAttempt /\ AttemptMoves(p, w, a)
        /\ \/ a = [pc |-> "roster", generation |-> granted + 1, created |-> "no"]
           \/ a = [pc |-> "catch", generation |-> 0, created |-> "no"]
    <3>1. CASE StepsTo(p, w, "catch")
      <4>1. PICK b : b = [pc |-> "catch", generation |-> 0, created |-> "no"]
        OBVIOUS
      <4>2. b \in AnyAttempt
        BY <4>1 DEF AnyAttempt
      <4>3. AttemptMoves(p, w, b)
        BY <1>1, <3>1, <4>1, Stepping DEF GenerationInv, Counts
      <4> QED
        BY <2>1, <4>1, <4>2, <4>3, MovesOne DEF GenerationInv, Counts
    <3>2. CASE attempt' = [attempt EXCEPT ![p][w].pc = "roster", ![p][w].generation = granted + 1]
      <4>1. PICK b : b = [pc |-> "roster", generation |-> granted + 1, created |-> "no"]
        OBVIOUS
      <4>2. b \in AnyAttempt
        BY <4>1 DEF AnyAttempt, Placing, GenerationInv, Counts
      <4>3. PICK c : c = [attempt[p][w] EXCEPT !.pc = "roster"]
        OBVIOUS
      <4>4. c = [pc |-> "roster", generation |-> 0, created |-> "no"]
        BY <1>1, <4>3 DEF AnyAttempt
      <4>5. [c EXCEPT !.generation = granted + 1] = b
        BY <4>1, <4>4
      <4>6. attempt' = [attempt EXCEPT ![p][w] = [[attempt[p][w] EXCEPT !.pc = "roster"]
                                                     EXCEPT !.generation = granted + 1]]
        BY <3>2
      <4>7. AttemptMoves(p, w, b)
        BY <4>3, <4>5, <4>6 DEF AttemptMoves
      <4> QED
        BY <2>1, <4>1, <4>2, <4>7, MovesOne DEF GenerationInv, Counts
    <3> QED
      BY <1>3, <3>1, <3>2 DEF MarkRunning
  <2>3. /\ attempt' \in [Proc -> [Work -> AnyAttempt]]
        /\ attempt'[p][w] = a
        /\ \A q \in Proc, v \in Work : <<q, v>> # <<p, w>> => attempt'[q][v] = attempt[q][v]
    BY <2>2, MovesOne DEF GenerationInv, Counts
  <2>4. /\ claim' = granted + 1 /\ granted' = granted + 1 /\ granted \in Nat
        /\ workers' = workers /\ creating' = creating /\ Live = {} /\ Live' = Live
    BY <1>3 DEF MarkRunning, GenerationInv, Counts, OneLive, Live
  <2>5. Counts'
    BY <2>3, <2>4 DEF Counts
  <2>6. OneLive'
    BY <2>4 DEF GenerationInv, OneLive
  <2>7. a.generation \in {0, granted + 1} /\ a.created = "no" /\ Steady(a)'
    BY <2>2, <2>4 DEF Steady, Placing, Before, Early
  <2>8. ASSUME NEW q \in Proc, NEW v \in Work, <<q, v>> # <<p, w>>
        PROVE  /\ attempt'[q][v] = attempt[q][v] /\ attempt[q][v].generation \in Nat
               /\ attempt[q][v].generation <= granted /\ attempt[q][v].pc \notin Placing
               /\ Steady(attempt[q][v])
    <3>1. attempt[q][v] \in AnyAttempt /\ Holds(q, v)
      BY DEF GenerationInv, Counts
    <3>2. Steady(attempt[q][v]) /\ attempt[q][v].generation <= granted
      BY <3>1 DEF Holds
    <3>3. attempt[q][v].pc \notin Placing
      BY <1>3, <3>2 DEF Steady
    <3> QED
      BY <2>3, <2>8, <3>1, <3>2, <3>3 DEF AnyAttempt
  <2>9. OneGrant'
    <3> SUFFICES ASSUME NEW q \in Proc, NEW r \in Proc, NEW u \in Work, NEW v \in Work,
                        attempt'[q][u].generation = attempt'[r][v].generation,
                        attempt'[q][u].generation # 0
                 PROVE  q = r /\ u = v
      BY DEF OneGrant
    <3>1. CASE <<q, u>> = <<p, w>> \/ <<r, v>> = <<p, w>>
      BY <2>3, <2>4, <2>7, <2>8, <3>1
    <3>2. CASE <<q, u>> # <<p, w>> /\ <<r, v>> # <<p, w>>
      <4>1. OneGrant /\ attempt[q][u].generation = attempt[r][v].generation
            /\ attempt[q][u].generation # 0
        BY <2>8, <3>2 DEF GenerationInv
      <4> QED
        BY <4>1 DEF OneGrant
    <3> QED
      BY <3>1, <3>2
  <2>10. Holds(p, w)'
    BY <2>3, <2>4, <2>7 DEF Holds, Steady
  <2>11. ASSUME NEW q \in Proc, NEW v \in Work, <<q, v>> # <<p, w>> PROVE Holds(q, v)'
    BY <2>4, <2>8, <2>11 DEF Holds, Steady
  <2> QED
    BY <2>5, <2>6, <2>9, <2>10, <2>11 DEF GenerationInv
<1> QED
  BY <1>2, <1>3

(* The holder of the claim is the only attempt under it.                   *)
LEMMA OneHolder ==
    ASSUME GenerationInv, NEW p \in Proc, NEW w \in Work,
           attempt[p][w].generation = claim, claim # 0,
           NEW q \in Proc, NEW v \in Work, <<q, v>> # <<p, w>>
    PROVE  attempt[q][v].generation # claim
<1>1. SUFFICES ASSUME attempt[q][v].generation = claim PROVE FALSE
  OBVIOUS
<1>2. OneGrant /\ attempt[p][w].generation = attempt[q][v].generation /\ attempt[p][w].generation # 0
  BY <1>1 DEF GenerationInv
<1>3. p = q /\ w = v
  BY <1>2 DEF OneGrant
<1> QED
  BY <1>3

(* The generations of an attempt that keeps its own stay granted once.     *)
LEMMA GrantsKept ==
    ASSUME GenerationInv, NEW p \in Proc, NEW w \in Work, NEW a \in AnyAttempt, AttemptMoves(p, w, a),
           a.generation = attempt[p][w].generation
    PROVE  OneGrant'
<1>1. \A q \in Proc, v \in Work : attempt'[q][v].generation = attempt[q][v].generation
  BY MovesOne DEF GenerationInv, Counts
<1> QED
  BY <1>1 DEF GenerationInv, OneGrant

LEMMA SpawnsInv ==
    ASSUME GenerationInv, NEW p \in Proc, NEW w \in Work, Spawns(p, w)
    PROVE  GenerationInv'
<1>1. PICK a : a = [pc |-> "answer", generation |-> attempt[p][w].generation,
                    created |-> "uncertain"]
  OBVIOUS
<1>2. /\ attempt[p][w] \in AnyAttempt /\ Holds(p, w) /\ attempt[p][w].pc = "spawn"
      /\ attempt[p][w].created = "no" /\ claim # 0 /\ attempt[p][w].generation = claim
  BY DEF GenerationInv, Counts, Holds, Steady, Spawns, At, Placing, Early
<1>3. a \in AnyAttempt
  BY <1>1, <1>2 DEF AnyAttempt, Placing
<1>4. AttemptMoves(p, w, a)
  BY <1>1, SteppingWith DEF Spawns, GenerationInv, Counts
<1>5. /\ attempt' \in [Proc -> [Work -> AnyAttempt]]
      /\ attempt'[p][w] = a
      /\ \A q \in Proc, v \in Work : <<q, v>> # <<p, w>> => attempt'[q][v] = attempt[q][v]
  BY <1>3, <1>4, MovesOne DEF GenerationInv, Counts
<1>6. Live = {} /\ Live' = {w}
  BY <1>2 DEF Holds, Live, Spawns
<1>7. OneLive'
  BY <1>2, <1>6 DEF OneLive, Live, Spawns
<1>8. OneGrant'
  BY <1>1, <1>3, <1>4, GrantsKept
<1>9. Holds(p, w)'
  BY <1>1, <1>2, <1>5, <1>6 DEF Holds, Steady, Spawns, Placing, Before, Early
<1>10. ASSUME NEW q \in Proc, NEW v \in Work, <<q, v>> # <<p, w>> PROVE Holds(q, v)'
  <2>1. attempt[q][v].generation # claim
    BY <1>2, <1>10, OneHolder
  <2>2. attempt'[q][v] = attempt[q][v] /\ Holds(q, v)
    BY <1>5, <1>10 DEF GenerationInv
  <2> QED
    BY <2>1, <2>2 DEF Holds, Steady, Spawns
<1> QED
  BY <1>5, <1>7, <1>8, <1>9, <1>10 DEF GenerationInv, Counts, Spawns

LEMMA CreatesInv ==
    ASSUME GenerationInv, NEW w \in Work, Creates(w)
    PROVE  GenerationInv'
<1>1. Live' = Live
  BY DEF Creates, Live
<1>2. OneLive'
  BY <1>1 DEF Creates, GenerationInv, OneLive
<1>3. ASSUME NEW q \in Proc, NEW v \in Work PROVE Holds(q, v)'
  BY <1>1 DEF Creates, GenerationInv, Holds, Steady
<1> QED
  BY <1>2, <1>3 DEF Creates, GenerationInv, Counts, OneGrant

(* A refusal is evidence that nothing was created: the worker that was     *)
(* asked for is not up, and there was no other.                            *)
LEMMA SpawnRefusedInv ==
    ASSUME GenerationInv, NEW p \in Proc, NEW w \in Work, At(p, w, "answer"), w \in creating,
           creating' = creating \ {w}, StepsWith(p, w, "catch", "no"),
           UNCHANGED <<claim, granted, workers>>
    PROVE  GenerationInv'
<1>1. PICK a : a = [pc |-> "catch", generation |-> attempt[p][w].generation, created |-> "no"]
  OBVIOUS
<1>2. /\ attempt[p][w] \in AnyAttempt /\ Holds(p, w) /\ attempt[p][w].pc = "answer"
      /\ claim # 0 /\ attempt[p][w].generation = claim
  BY DEF GenerationInv, Counts, Holds, Steady, At, Placing
<1>3. a \in AnyAttempt
  BY <1>1, <1>2 DEF AnyAttempt
<1>4. AttemptMoves(p, w, a)
  BY <1>1, SteppingWith DEF GenerationInv, Counts
<1>5. /\ attempt' \in [Proc -> [Work -> AnyAttempt]]
      /\ attempt'[p][w] = a
      /\ \A q \in Proc, v \in Work : <<q, v>> # <<p, w>> => attempt'[q][v] = attempt[q][v]
  BY <1>3, <1>4, MovesOne DEF GenerationInv, Counts
<1>6. Live' = {}
  <2>1. Live \subseteq {w} /\ w \notin workers
    BY <1>2 DEF Holds, GenerationInv, OneLive
  <2> QED
    BY <2>1 DEF Live
<1>7. OneLive'
  BY <1>6 DEF OneLive, Live
<1>8. OneGrant'
  BY <1>1, <1>3, <1>4, GrantsKept
<1>9. Holds(p, w)'
  BY <1>1, <1>2, <1>5, <1>6 DEF Holds, Steady, Placing, Before, Early
<1>10. ASSUME NEW q \in Proc, NEW v \in Work, <<q, v>> # <<p, w>> PROVE Holds(q, v)'
  <2>1. attempt'[q][v] = attempt[q][v] /\ Holds(q, v)
    BY <1>5, <1>10 DEF GenerationInv
  <2> QED
    BY <1>6, <2>1 DEF Holds, Steady
<1> QED
  BY <1>5, <1>7, <1>8, <1>9, <1>10 DEF GenerationInv, Counts

(* The claim is given back only by the attempt that holds it and knows     *)
(* that nothing was created.                                               *)
LEMMA CatchInv ==
    ASSUME GenerationInv, NEW p \in Proc, NEW w \in Work, Catch(p, w)
    PROVE  GenerationInv'
<1>1. CASE claim' = claim
  BY <1>1, Concluding DEF Catch
<1>2. CASE claim' # claim
  <2>1. /\ attempt[p][w].generation # 0 /\ attempt[p][w].created = "no"
        /\ claim = attempt[p][w].generation /\ claim' = 0
    BY <1>2 DEF Catch
  <2>2. Live = {} /\ Live' = Live
    BY <2>1 DEF GenerationInv, Holds, Catch, Live
  <2>3. AttemptMoves(p, w, NoAttempt)
    BY DEF Catch, Concludes, AttemptMoves
  <2>4. /\ attempt' \in [Proc -> [Work -> AnyAttempt]]
        /\ attempt'[p][w] = NoAttempt
        /\ \A q \in Proc, v \in Work : <<q, v>> # <<p, w>> => attempt'[q][v] = attempt[q][v]
    BY <2>3, NoAttemptFacts, MovesOne DEF GenerationInv, Counts
  <2>5. Counts'
    BY <2>1, <2>4 DEF GenerationInv, Counts, Catch
  <2>6. OneLive'
    BY <2>2 DEF GenerationInv, OneLive, Catch
  <2>7. OneGrant'
    <3> SUFFICES ASSUME NEW q \in Proc, NEW r \in Proc, NEW u \in Work, NEW v \in Work,
                        attempt'[q][u].generation = attempt'[r][v].generation,
                        attempt'[q][u].generation # 0
                 PROVE  q = r /\ u = v
      BY DEF OneGrant
    <3>1. <<q, u>> # <<p, w>> /\ <<r, v>> # <<p, w>>
      BY <2>4, NoAttemptFacts
    <3>2. OneGrant /\ attempt[q][u].generation = attempt[r][v].generation
          /\ attempt[q][u].generation # 0
      BY <2>4, <3>1 DEF GenerationInv
    <3> QED
      BY <3>2 DEF OneGrant
  <2>8. Holds(p, w)'
    BY <2>1, <2>4, NoAttemptFacts DEF Holds, Steady, Catch, Placing, Before, GenerationInv, Counts
  <2>9. ASSUME NEW q \in Proc, NEW v \in Work, <<q, v>> # <<p, w>> PROVE Holds(q, v)'
    <3>1. attempt[q][v].generation # claim
      BY <2>1, <2>9, OneHolder
    <3>2. attempt'[q][v] = attempt[q][v] /\ Holds(q, v)
      BY <2>4, <2>9 DEF GenerationInv
    <3> QED
      BY <2>1, <3>1, <3>2 DEF Holds, Steady, Catch
  <2> QED
    BY <2>5, <2>6, <2>7, <2>8, <2>9 DEF GenerationInv
<1> QED
  BY <1>1, <1>2

LEMMA RestartsInv ==
    ASSUME GenerationInv, NEW p \in Proc, Restarts(p)
    PROVE  GenerationInv'
<1>1. /\ attempt' \in [Proc -> [Work -> AnyAttempt]]
      /\ \A v \in Work : attempt'[p][v] = NoAttempt
      /\ \A q \in Proc \ {p}, v \in Work : attempt'[q][v] = attempt[q][v]
  BY NoAttemptFacts DEF Restarts, GenerationInv, Counts
<1>2. Live' = Live
  BY DEF Restarts, Live
<1>3. OneGrant'
  <2> SUFFICES ASSUME NEW q \in Proc, NEW r \in Proc, NEW u \in Work, NEW v \in Work,
                      attempt'[q][u].generation = attempt'[r][v].generation,
                      attempt'[q][u].generation # 0
               PROVE  q = r /\ u = v
    BY DEF OneGrant
  <2>1. q # p /\ r # p
    BY <1>1, NoAttemptFacts
  <2>2. OneGrant /\ attempt[q][u].generation = attempt[r][v].generation
        /\ attempt[q][u].generation # 0
    BY <1>1, <2>1 DEF GenerationInv
  <2> QED
    BY <2>2 DEF OneGrant
<1>4. ASSUME NEW v \in Work PROVE Holds(p, v)'
  BY <1>1, NoAttemptFacts DEF Holds, Steady, Restarts, Placing, Before, GenerationInv, Counts
<1>5. ASSUME NEW q \in Proc \ {p}, NEW v \in Work PROVE Holds(q, v)'
  BY <1>1, <1>2 DEF Holds, Steady, Restarts, GenerationInv
<1> QED
  BY <1>1, <1>2, <1>3, <1>4, <1>5 DEF GenerationInv, Counts, OneLive, Restarts

-----------------------------------------------------------------------------
(* The theorem *)

LEMMA GenerationInitInv == GenerationInit => GenerationInv
<1> SUFFICES ASSUME GenerationInit PROVE GenerationInv
  OBVIOUS
<1>1. \A p \in Proc, w \in Work : attempt[p][w] = NoAttempt
  BY DEF GenerationInit
<1>2. Counts
  BY NoAttemptFacts DEF GenerationInit, Counts
<1>3. OneLive
  BY DEF GenerationInit, OneLive, Live
<1>4. OneGrant
  BY <1>1, NoAttemptFacts DEF OneGrant
<1>5. \A p \in Proc, w \in Work : Holds(p, w)
  BY <1>1, NoAttemptFacts DEF GenerationInit, Holds, Steady, Placing, Before
<1> QED
  BY <1>2, <1>3, <1>4, <1>5 DEF GenerationInv

LEMMA GenerationStepInv ==
    ASSUME GenerationInv, GenerationNext
    PROVE  GenerationInv'
<1>1. ASSUME NEW w \in Work, Creates(w) PROVE GenerationInv'
  BY <1>1, CreatesInv
<1>2. ASSUME NEW p \in Proc, Restarts(p) PROVE GenerationInv'
  BY <1>2, RestartsInv
<1>3. ASSUME NEW p \in Proc, NEW w \in Work,
             \/ Begins(p, w) \/ SnapshotRead(p, w) \/ PriorSessions(p, w)
      PROVE  GenerationInv'
  BY <1>3, Steps, Concluding DEF Begins, SnapshotRead, PriorSessions, At, Before
<1>4. ASSUME NEW p \in Proc, NEW w \in Work, Roster(p, w) PROVE GenerationInv'
  BY <1>4, Steps, StepsCreated DEF Roster, At
<1>5. ASSUME NEW p \in Proc, NEW w \in Work, Plans(p, w) \/ SessionPersisted(p, w)
      PROVE  GenerationInv'
  BY <1>5, Steps, Concluding DEF Plans, SessionPersisted, At, Placing
<1>6. ASSUME NEW p \in Proc, NEW w \in Work, SpawnAnswered(p, w) PROVE GenerationInv'
  BY <1>6, StepsCreated DEF SpawnAnswered, At
<1>7. ASSUME NEW p \in Proc, NEW w \in Work, SpawnFails(p, w) PROVE GenerationInv'
  <2>1. CASE w \in creating /\ creating' = creating \ {w} /\ StepsWith(p, w, "catch", "no")
    BY <1>7, <2>1, SpawnRefusedInv DEF SpawnFails
  <2>2. CASE StepsTo(p, w, "catch") /\ UNCHANGED creating
    BY <1>7, <2>2, Steps DEF SpawnFails, At, Placing
  <2> QED
    BY <1>7, <2>1, <2>2 DEF SpawnFails
<1>8. ASSUME NEW p \in Proc, NEW w \in Work,
             \/ StillOwned(p, w) \/ RegistrationTimesOut(p, w) \/ Registered(p, w)
      PROVE  GenerationInv'
  BY <1>8, Steps DEF StillOwned, RegistrationTimesOut, Registered, At, Placing
<1>9. ASSUME NEW p \in Proc, NEW w \in Work, TakesOver(p, w) \/ Supersedes(p, w)
      PROVE  GenerationInv'
  BY <1>9, Quiet DEF TakesOver, Supersedes
<1> QED
  BY <1>1, <1>2, <1>3, <1>4, <1>5, <1>6, <1>7, <1>8, <1>9, MarkRunningInv, SpawnsInv, CatchInv
     DEF GenerationNext

LEMMA OneLiveIsOneBabysitter == GenerationInv => OneBabysitter
<1> SUFFICES ASSUME GenerationInv PROVE OneBabysitter
  OBVIOUS
<1>1. CASE Live = {}
  BY <1>1, FS_EmptySet DEF OneBabysitter, Live
<1>2. CASE Live # {}
  <2>1. PICK w : w \in Live
    BY <1>2
  <2>2. Live = {w}
    BY <2>1 DEF GenerationInv, OneLive
  <2> QED
    BY <2>2, FS_Singleton DEF OneBabysitter, Live
<1> QED
  BY <1>1, <1>2

(* A pull request has one babysitter at most, whichever processes and work *)
(* units admit it, whatever calls fail or answers are lost, and counting   *)
(* the workers that may still come up: a claim is given back only on       *)
(* evidence that nothing was created.                                      *)
THEOREM OnePerPullRequest == GenerationSpec => []OneBabysitter
<1>1. GenerationInit => GenerationInv
  BY GenerationInitInv
<1>2. GenerationInv /\ [GenerationNext]_generationVars => GenerationInv'
  <2>1. CASE GenerationNext
    BY <2>1, GenerationStepInv
  <2>2. CASE UNCHANGED generationVars
    BY <2>2, Quiet DEF generationVars
  <2> QED
    BY <2>1, <2>2
<1> QED
  BY <1>1, <1>2, OneLiveIsOneBabysitter, PTL DEF GenerationSpec

-----------------------------------------------------------------------------
(***************************************************************************)
(* The guardian.  A report comes to one outcome and one issue, for any     *)
(* number of runs, events and attempts: the thread hears what the record   *)
(* ends with, never a confirmation beside an issue, and the defect is      *)
(* submitted once.                                                         *)
(*                                                                         *)
(* What a run does next follows from the snapshot that it took, which may  *)
(* be stale.  The argument is that the record only ever moves to states in *)
(* which a stale snapshot is harmless: what is recorded stays recorded     *)
(* until its outcome is written, and a check that failed condemns the      *)
(* record, so that it cannot be confirmed any more.                        *)
(***************************************************************************)

Open == {"asked", "discussing"}
Submitting == {"submit", "dropped"}
Remedying == Submitting \cup {"remedy", "receipt", "remedied"}
Checking == {"verify", "judge", "recheck"} \cup Remedying
Answering == {"path", "say", "close"}
Finishing == Answering \cup {"finish"}

(* What holds of the record, and of every snapshot of it.  k is what the   *)
(* events say.                                                             *)
Begun(e, k) == e \in Event /\ k[e] # "none"

Fits(d, k) ==
    /\ d.status \in Open => d.pending = 0
    /\ d.status \in Recorded \cup {"verifying"} =>
           Begun(d.pending, k) /\ d.mark = d.pending /\ d.asks < 2 * d.mark
    /\ d.asks <= 2 * d.mark

(* The check of the record says that there is a defect.                    *)
Failing(d, k) ==
    /\ d.status = "verifying"
    /\ d.result = "failed" \/ (d.result = "passed" /\ k[d.pending] = "report" /\ d.asks >= 1)

(* The record will not be confirmed any more.                              *)
Condemned(d, k) ==
    \/ d.status \in {"deferred-recorded", "deferred", "remediation-recorded", "remediation-open"}
    \/ Failing(d, k)

(* What a run has read allows what it is about to do.                      *)
Placed(x, k) ==
    /\ Fits(x.snap, k)
    /\ x.at # "idle" => Begun(x.event, k)
    /\ x.at \in {"fresh", "clarify"} => x.snap.status \in Open /\ x.event > x.snap.mark
    /\ x.at = "clarify" => x.snap.turns < MaxTurns
    /\ x.at = "resume" => x.snap.status \in Recorded \cup {"verifying"}
    /\ x.at \in Checking => x.snap.status = "verifying"
    /\ x.at = "recheck" => ~Failing(x.snap, k)
    /\ x.at \in Remedying => Failing(x.snap, k)
    /\ x.at \in Finishing => x.snap.status \in Recorded

(* A stale snapshot is harmless: the record d has gone no other way.       *)
Agreed(x, d, k, c, said) ==
    /\ Failing(x.snap, k) => Condemned(d, k)
    /\ x.snap.status \in Recorded => d.status \in {x.snap.status, OutcomeOf(x.snap.status)}
    /\ x.at \in Answering /\ x.snap.status = "confirmation-recorded" => c
    /\ x.at = "close" => OutcomeOf(x.snap.status) \in said

(* The thread has heard nothing but the outcome of the record.             *)
Heard(d, c, said) ==
    /\ d.status \in Open \cup {"verifying"} => said = {}
    /\ d.status \in Recorded => said \subseteq {OutcomeOf(d.status)}
    /\ d.status \in Terminal => said = {d.status}
    /\ "confirmed" \in said => c

(* One run submits at a time, for the first file of the ledger that is not *)
(* dropped; while nobody knows that a submission failed, its file stays    *)
(* claimed and keeps everybody else from submitting.                       *)
Filed ==
    /\ \A r, q \in Run : runs[r].at \in Submitting /\ runs[q].at \in Submitting => r = q
    /\ \A r \in Run : runs[r].at \in Submitting => issues = 0
    /\ (\E r \in Run : runs[r].at \in Submitting) \/ issues > 0 =>
           \E n \in ledger.intents \ ledger.drops : \A m \in 1 .. Attempts \ ledger.drops : n <= m
    /\ issues > 0 => Condemned(doc, kind)
    /\ issues <= 1

GuardianInv ==
    /\ GuardianTypes /\ Fits(doc, kind)
    /\ \A r \in Run : Placed(runs[r], kind) /\ Agreed(runs[r], doc, kind, confirmed, replies)
    /\ Heard(doc, confirmed, replies) /\ Filed

(* The record moves from d to e.                                           *)
Advances(d, e, k) ==
    /\ Condemned(d, k) => Condemned(e, k)
    /\ d.status \in Recorded => e.status \in {d.status, OutcomeOf(d.status)}
    /\ d.status \in Terminal => e = d

-----------------------------------------------------------------------------
(* What the runs of a step leave alone *)

(* Another run is still allowed what it was allowed before.                *)
LEMMA OthersKept ==
    ASSUME NEW x, NEW d, NEW k, NEW c, NEW said, NEW d2, NEW k2, NEW c2, NEW said2,
           Placed(x, k), Agreed(x, d, k, c, said), Fits(d, k),
           \A e \in Event : k[e] # "none" => k2[e] = k[e],
           Advances(d, d2, k2), c => c2, said \subseteq said2
    PROVE  Placed(x, k2) /\ Agreed(x, d2, k2, c2, said2)
<1>1. Failing(x.snap, k2) <=> Failing(x.snap, k)
    BY DEF Placed, Fits, Failing, Begun
<1>2. Failing(d, k2) <=> Failing(d, k)
    BY DEF Fits, Failing, Begun
<1>3. Placed(x, k2)
    BY <1>1 DEF Placed, Fits, Begun
<1>4. Failing(x.snap, k2) => Condemned(d2, k2)
    BY <1>1, <1>2 DEF Agreed, Advances, Condemned
<1>5. x.snap.status \in Recorded => d2.status \in {x.snap.status, OutcomeOf(x.snap.status)}
    <2>1. CASE d.status = x.snap.status
        BY <2>1 DEF Agreed, Advances, Placed
    <2>2. CASE d.status = OutcomeOf(x.snap.status) /\ d.status # x.snap.status
        <3>1. x.snap.status \in Recorded => OutcomeOf(x.snap.status) \in Terminal
            BY DEF Placed, OutcomeOf, Terminal, Recorded
        <3> QED BY <2>2, <3>1 DEF Agreed, Advances
    <2> QED BY <2>1, <2>2 DEF Agreed
<1> QED BY <1>3, <1>4, <1>5 DEF Agreed

(* A step of one run keeps the invariant when what that run is left with,  *)
(* and what all of them share, is as it should be.                         *)
LEMMA RunSteps ==
    ASSUME GuardianInv, NEW r \in Run, NEW x \in Doing, runs' = [runs EXCEPT ![r] = x],
           doc' \in Doc, Fits(doc', kind'), Advances(doc, doc', kind'),
           kind' \in [Event -> Kind \cup {"none"}], \A e \in Event : kind[e] # "none" => kind'[e] = kind[e],
           moved' \in BOOLEAN, replies' \subseteq Terminal, replies \subseteq replies',
           confirmed' \in BOOLEAN, confirmed => confirmed', ledger' \in Ledger,
           issues' \in 0 .. Attempts, unknown' \in 0 .. MaxUnknown,
           Placed(x, kind'), Agreed(x, doc', kind', confirmed', replies'),
           Heard(doc', confirmed', replies'), Filed'
    PROVE  GuardianInv'
<1>1. GuardianTypes'
    BY DEF GuardianInv, GuardianTypes
<1>2. ASSUME NEW q \in Run PROVE Placed(runs'[q], kind') /\ Agreed(runs'[q], doc', kind', confirmed', replies')
    <2>1. CASE q = r
        BY <2>1 DEF GuardianInv, GuardianTypes
    <2>2. CASE q # r
        <3>1. runs'[q] = runs[q]
            BY <2>2 DEF GuardianInv, GuardianTypes
        <3>2. Placed(runs[q], kind) /\ Agreed(runs[q], doc, kind, confirmed, replies) /\ Fits(doc, kind)
            BY DEF GuardianInv
        <3>3. Placed(runs[q], kind') /\ Agreed(runs[q], doc', kind', confirmed', replies')
            BY <3>2, OthersKept
        <3> QED BY <3>1, <3>3
    <2> QED BY <2>1, <2>2
<1> QED BY <1>1, <1>2 DEF GuardianInv

(* A run that does not go on to submit leaves what is filed as it was.     *)
LEMMA FiledKept ==
    ASSUME GuardianInv, NEW r \in Run, NEW x \in Doing, runs' = [runs EXCEPT ![r] = x],
           x.at \notin Submitting, UNCHANGED <<ledger, issues>>,
           Condemned(doc, kind) => Condemned(doc', kind')
    PROVE  Filed'
<1>1. \A q \in Run : runs'[q].at \in Submitting => runs[q].at \in Submitting
    BY DEF GuardianInv, GuardianTypes
<1> QED BY <1>1 DEF GuardianInv, Filed

(* A run that gives up is at rest.                                         *)
LEMMA AtRest ==
    /\ NoRun \in Doing /\ NoRun.at = "idle" /\ NoRun.snap = Asked
    /\ Asked \in Doc /\ Asked.status \notin Recorded /\ Fits(Asked, kind) /\ ~Failing(Asked, kind)
<1> USE GuardianAssumption
<1>1. Asked \in Doc
    BY DEF Asked, Doc, Status
<1>2. NoRun \in Doing
    BY <1>1 DEF NoRun, Doing, Place
<1>3. Asked.status \notin Recorded /\ Fits(Asked, kind) /\ ~Failing(Asked, kind)
    BY DEF Asked, Fits, Failing, Open, Recorded
<1> QED BY <1>1, <1>2, <1>3 DEF NoRun

LEMMA EndsKept ==
    ASSUME GuardianInv, NEW r \in Run, EndsRun(r), UNCHANGED <<doc, kind, moved, replies, confirmed>>,
           ledger' \in Ledger, issues' \in 0 .. Attempts, unknown' \in 0 .. MaxUnknown, Filed'
    PROVE  GuardianInv'
<1>1. Placed(NoRun, kind) /\ Agreed(NoRun, doc, kind, confirmed, replies)
    BY AtRest DEF Placed, Agreed, Checking, Remedying, Submitting, Finishing, Answering
<1>2. Advances(doc, doc, kind)
    BY DEF Advances
<1>3. runs' = [runs EXCEPT ![r] = NoRun]
    BY DEF EndsRun
<1> QED BY <1>1, <1>2, <1>3, AtRest, RunSteps DEF GuardianInv, GuardianTypes

(* A run that goes on by itself: the record stays what it is.              *)
LEMMA GoKept ==
    ASSUME GuardianInv, NEW r \in Run, NEW next \in Place, Go(r, next),
           UNCHANGED <<doc, kind, moved>>,
           replies' \subseteq Terminal, replies \subseteq replies',
           confirmed' \in BOOLEAN, confirmed => confirmed', ledger' \in Ledger,
           issues' \in 0 .. Attempts, unknown' \in 0 .. MaxUnknown,
           NEW x, x = [runs[r] EXCEPT !.at = next],
           Placed(x, kind), Agreed(x, doc, kind, confirmed', replies'),
           Heard(doc, confirmed', replies'), Filed'
    PROVE  GuardianInv'
<1>1. runs[r] \in Doing
    BY DEF GuardianInv, GuardianTypes
<1>2. x \in Doing
    BY <1>1 DEF Doing
<1>3. runs' = [runs EXCEPT ![r] = x]
    BY DEF Go
<1>4. Advances(doc, doc, kind)
    BY DEF Advances
<1> QED BY <1>2, <1>3, <1>4, RunSteps DEF GuardianInv, GuardianTypes

(* A run that writes the record, or finds that somebody else has.          *)
LEMMA StoresKept ==
    ASSUME GuardianInv, NEW r \in Run, NEW new \in Doc, NEW next \in Place, Stores(r, new, next),
           UNCHANGED <<kind, moved, replies, confirmed, ledger, issues, unknown>>,
           next \notin Submitting, Fits(new, kind),
           runs[r].snap = doc => Advances(doc, new, kind) /\ Heard(new, confirmed, replies),
           NEW x, x = [runs[r] EXCEPT !.at = next, !.snap = new],
           runs[r].snap = doc /\ next # "idle" =>
               Placed(x, kind) /\ Agreed(x, new, kind, confirmed, replies)
    PROVE  GuardianInv'
<1>1. CASE runs[r].snap # doc
    <2>1. EndsRun(r) /\ doc' = doc
        BY <1>1 DEF Stores
    <2>2. Filed'
        <3>1. runs' = [runs EXCEPT ![r] = NoRun] /\ NoRun.at \notin Submitting
            BY <2>1, AtRest DEF EndsRun, Submitting
        <3> QED BY <2>1, <3>1, AtRest, FiledKept
    <2> QED BY <2>1, <2>2, EndsKept DEF GuardianInv, GuardianTypes
<1>2. CASE runs[r].snap = doc
    <2>1. Advances(doc, new, kind) /\ Heard(new, confirmed, replies)
        BY <1>2
    <2>2. doc' = new
        BY <1>2 DEF Stores
    <2>3. PICK y : y = IF next = "idle" THEN NoRun ELSE x
        OBVIOUS
    <2>4. runs[r] \in Doing
        BY DEF GuardianInv, GuardianTypes
    <2>5. x \in Doing /\ x.at = next /\ x.snap = new
        BY <2>4 DEF Doing
    <2>6. y \in Doing /\ y.at \notin Submitting
        BY <2>3, <2>5, AtRest DEF Submitting
    <2>7. runs' = [runs EXCEPT ![r] = y]
        BY <1>2, <2>3 DEF Stores
    <2>8. Placed(y, kind) /\ Agreed(y, new, kind, confirmed, replies)
        BY <1>2, <2>3, AtRest DEF Placed, Agreed, Checking, Remedying, Submitting, Finishing, Answering
    <2>9. Filed'
        BY <2>1, <2>2, <2>6, <2>7, FiledKept DEF Advances
    <2> QED BY <2>1, <2>2, <2>6, <2>7, <2>8, <2>9, RunSteps DEF GuardianInv, GuardianTypes
<1> QED BY <1>1, <1>2

-----------------------------------------------------------------------------
(* One lemma for each operation *)

LEMMA DeliverKept ==
    ASSUME GuardianInv, NEW r \in Run, NEW e \in Event, Deliver(r, e)
    PROVE  GuardianInv'
<1> USE GuardianAssumption
<1>1. /\ runs[r].at = "idle" /\ doc.status \notin Terminal
      /\ doc.pending # 0 \/ e > doc.mark
      /\ UNCHANGED <<doc, moved, replies, confirmed, ledger, issues, unknown>>
    BY DEF Deliver
<1>2. /\ kind' \in [Event -> Kind \cup {"none"}] /\ kind'[e] # "none"
      /\ \A f \in Event : kind[f] # "none" => kind'[f] = kind[f]
    BY DEF Deliver, GuardianInv, GuardianTypes, Kind
<1>3. PICK x : x = [at |-> IF doc.pending # 0 THEN "resume" ELSE "fresh", event |-> e, snap |-> doc]
    OBVIOUS
<1>4. doc \in Doc
    BY DEF GuardianInv, GuardianTypes
<1>5. /\ x \in Doing /\ x.event = e /\ x.snap = doc
      /\ (x.at = "resume" /\ doc.pending # 0) \/ (x.at = "fresh" /\ doc.pending = 0)
    BY <1>3, <1>4 DEF Doing, Place, Event
<1>6. runs' = [runs EXCEPT ![r] = x]
    BY <1>3 DEF Deliver
<1>7. Fits(doc, kind') /\ (Failing(doc, kind') <=> Failing(doc, kind))
    BY <1>2 DEF GuardianInv, Fits, Begun, Failing
<1>8. doc.status \in Open \cup Recorded \cup {"verifying"}
    BY <1>1, <1>4 DEF Doc, Status, Open
<1>9. doc.pending # 0 <=> doc.status \in Recorded \cup {"verifying"}
    BY <1>7, <1>8 DEF Fits, Begun, Event, Open, Recorded
<1>10. Begun(e, kind')
    BY <1>2 DEF Begun
<1>11. Placed(x, kind')
    BY <1>1, <1>5, <1>7, <1>8, <1>9, <1>10
       DEF Placed, Checking, Remedying, Submitting, Finishing, Answering
<1>12. Agreed(x, doc, kind', confirmed, replies)
    BY <1>5, <1>7 DEF Agreed, Condemned, Answering
<1>13. Advances(doc, doc, kind')
    BY DEF Advances
<1>14. Filed'
    <2>1. x.at \notin Submitting
        BY <1>5 DEF Submitting
    <2>2. Condemned(doc, kind) => Condemned(doc, kind')
        BY <1>7 DEF Condemned
    <2> QED BY <1>1, <1>5, <1>6, <2>1, <2>2, FiledKept
<1> QED BY <1>1, <1>2, <1>4, <1>5, <1>6, <1>7, <1>11, <1>12, <1>13, <1>14, RunSteps DEF GuardianInv, GuardianTypes

(* The record has not been said of yet: whatever follows is still open.    *)
LEMMA NothingSaid ==
    ASSUME GuardianInv, NEW new, doc.status \in Open \cup {"verifying"},
           new.status \in Open \cup {"verifying"} \cup Recorded
    PROVE  Heard(new, confirmed, replies)
<1>1. replies = {}
    BY DEF GuardianInv, Heard
<1>2. new.status \notin Terminal
    BY DEF Open, Recorded, Terminal
<1> QED BY <1>1, <1>2 DEF Heard

LEMMA CheckpointKept ==
    ASSUME GuardianInv, NEW r \in Run, NEW counts \in BOOLEAN, runs[r].at = "fresh",
           NEW status \in {"verifying", "confirmation-recorded", "deferred-recorded"},
           Checkpoint(r, status, counts),
           UNCHANGED <<kind, moved, replies, confirmed, ledger, issues, unknown>>
    PROVE  GuardianInv'
<1> USE GuardianAssumption
<1>1. PICK s : s = runs[r].snap
    OBVIOUS
<1>2. PICK e : e = runs[r].event
    OBVIOUS
<1>3. runs[r] \in Doing /\ s \in Doc
    BY <1>1 DEF GuardianInv, GuardianTypes, Doing
<1>4. s.status \in Open /\ e > s.mark /\ Fits(s, kind) /\ Begun(e, kind)
    BY <1>1, <1>2 DEF GuardianInv, Placed
<1>5. PICK t : t = IF counts /\ s.turns < MaxTurns THEN s.turns + 1 ELSE s.turns
    OBVIOUS
<1>6. t \in 0 .. MaxTurns
    BY <1>3, <1>5 DEF Doc
<1>7. PICK new : new = [s EXCEPT !.status = status, !.turns = t, !.pending = e, !.mark = e]
    OBVIOUS
<1>8. /\ new \in Doc
      /\ new.status = status /\ new.pending = e /\ new.mark = e /\ new.asks = s.asks
    <2>1. e \in 0 .. Events /\ status \in Status
        BY <1>4 DEF Begun, Event, Status, Recorded
    <2> QED BY <1>3, <1>6, <1>7, <2>1 DEF Doc
<1>9. PICK next : next = IF status = "verifying" THEN "verify" ELSE "finish"
    OBVIOUS
<1>10. Stores(r, new, next)
    BY <1>1, <1>2, <1>5, <1>7, <1>9 DEF Checkpoint
<1>11. next \in Place /\ next \notin Submitting /\ next # "idle"
    BY <1>9 DEF Place, Submitting
<1>12. Fits(new, kind)
    <2>1. s.asks \in Nat /\ s.mark \in Nat /\ e \in Nat /\ s.asks <= 2 * s.mark
        BY <1>3, <1>4 DEF Doc, Begun, Event, Fits
    <2> QED BY <1>4, <1>8, <2>1 DEF Fits, Open, Recorded
<1>13. s = doc => Advances(doc, new, kind) /\ Heard(new, confirmed, replies)
    <2>1. s = doc => ~Condemned(doc, kind) /\ doc.status \notin Recorded \cup Terminal
        BY <1>4 DEF Condemned, Failing, Open, Recorded, Terminal
    <2>2. s = doc => Heard(new, confirmed, replies)
        BY <1>4, <1>8, NothingSaid DEF Recorded
    <2> QED BY <2>1, <2>2 DEF Advances
<1>14. PICK x : x = [runs[r] EXCEPT !.at = next, !.snap = new]
    OBVIOUS
<1>15. x.at = next /\ x.snap = new /\ x.event = e
    BY <1>2, <1>3, <1>14 DEF Doing
<1>16. Placed(x, kind)
    BY <1>4, <1>8, <1>9, <1>12, <1>15
       DEF Placed, Checking, Remedying, Submitting, Finishing, Answering, Recorded
<1>17. Agreed(x, new, kind, confirmed, replies)
    BY <1>9, <1>15 DEF Agreed, Condemned, Answering
<1> QED BY <1>1, <1>8, <1>10, <1>11, <1>12, <1>13, <1>14, <1>16, <1>17, StoresKept

LEMMA DecideKept ==
    ASSUME GuardianInv, NEW r \in Run, Decide(r)
    PROVE  GuardianInv'
<1> USE GuardianAssumption
<1>1. runs[r].at = "fresh" /\ UNCHANGED <<kind, moved, replies, confirmed, ledger, issues, unknown>>
    BY DEF Decide
<1>2. CASE Checkpoint(r, "deferred-recorded", FALSE)
    BY <1>1, <1>2, CheckpointKept
<1>3. CASE Checkpoint(r, "deferred-recorded", TRUE) \/ Checkpoint(r, "confirmation-recorded", TRUE)
    BY <1>1, <1>3, CheckpointKept
<1>4. CASE \E status \in Gated : Checkpoint(r, status, TRUE)
    BY <1>1, <1>4, CheckpointKept DEF Gated
<1>5. CASE Go(r, "clarify") /\ UNCHANGED doc /\ ~(runs[r].snap.turns >= MaxTurns)
    <2>1. runs[r] \in Doing
        BY DEF GuardianInv, GuardianTypes
    <2>2. PICK x : x = [runs[r] EXCEPT !.at = "clarify"]
        OBVIOUS
    <2>3. x.at = "clarify" /\ x.snap = runs[r].snap /\ x.event = runs[r].event
        BY <2>1, <2>2 DEF Doing
    <2>4. Placed(runs[r], kind) /\ Agreed(runs[r], doc, kind, confirmed, replies)
        BY DEF GuardianInv
    <2>5. x.snap.turns < MaxTurns
        BY <1>5, <2>1, <2>3 DEF Doing, Doc
    <2>6. Placed(x, kind)
        BY <1>1, <2>3, <2>4, <2>5 DEF Placed, Checking, Remedying, Submitting, Finishing, Answering
    <2>7. Agreed(x, doc, kind, confirmed, replies)
        BY <2>3, <2>4 DEF Agreed, Answering
    <2>8. Filed'
        <3>1. runs' = [runs EXCEPT ![r] = x] /\ x \in Doing
            BY <1>5, <2>1, <2>2 DEF Go, Doing, Place
        <3> QED BY <1>1, <1>5, <2>3, <3>1, FiledKept DEF Submitting
    <2>9. "clarify" \in Place
        BY DEF Place
    <2> QED BY <1>1, <1>5, <2>2, <2>6, <2>7, <2>8, <2>9, GoKept DEF GuardianInv, GuardianTypes
<1> QED BY <1>2, <1>3, <1>4, <1>5 DEF Decide

LEMMA ClarifiedKept ==
    ASSUME GuardianInv, NEW r \in Run, Clarified(r)
    PROVE  GuardianInv'
<1> USE GuardianAssumption
<1>1. PICK s : s = runs[r].snap
    OBVIOUS
<1>2. PICK e : e = runs[r].event
    OBVIOUS
<1>3. runs[r] \in Doing /\ s \in Doc
    BY <1>1 DEF GuardianInv, GuardianTypes, Doing
<1>4. runs[r].at = "clarify" /\ UNCHANGED <<kind, moved, replies, confirmed, ledger, issues, unknown>>
    BY DEF Clarified
<1>5. s.status \in Open /\ s.turns < MaxTurns /\ e > s.mark /\ Fits(s, kind) /\ Begun(e, kind)
    BY <1>1, <1>2, <1>4 DEF GuardianInv, Placed
<1>6. /\ s.asks \in Nat /\ s.mark \in Nat /\ s.turns \in Nat /\ e \in Nat /\ s.asks <= 2 * s.mark
      /\ s.pending = 0 /\ s.seen \subseteq Event /\ e \in Event /\ e <= Events
    BY <1>3, <1>5 DEF Doc, Begun, Event, Fits
<1>7. PICK new : new = [s EXCEPT !.status = "discussing", !.turns = s.turns + 1, !.asks = s.asks + 1,
                                 !.seen = s.seen \cup {e}, !.mark = e]
    OBVIOUS
<1>8. /\ new \in Doc
      /\ new.status = "discussing" /\ new.pending = 0 /\ new.mark = e /\ new.asks = s.asks + 1
    <2>1. s.turns + 1 \in 0 .. MaxTurns /\ s.asks + 1 \in 0 .. 2 * Events /\ e \in 0 .. Events
        BY <1>3, <1>5, <1>6 DEF Doc
    <2>2. s.seen \cup {e} \in SUBSET Event
        BY <1>6
    <2> QED BY <1>3, <1>6, <1>7, <2>1, <2>2 DEF Doc, Status
<1>9. Stores(r, new, "idle")
    BY <1>1, <1>2, <1>7 DEF Clarified
<1>10. Fits(new, kind)
    BY <1>5, <1>6, <1>8 DEF Fits, Recorded
<1>11. s = doc => Advances(doc, new, kind) /\ Heard(new, confirmed, replies)
    <2>1. s = doc => ~Condemned(doc, kind) /\ doc.status \notin Recorded \cup Terminal
        BY <1>5 DEF Condemned, Failing, Open, Recorded, Terminal
    <2>2. s = doc => Heard(new, confirmed, replies)
        BY <1>5, <1>8, NothingSaid DEF Open
    <2> QED BY <2>1, <2>2 DEF Advances
<1>12. "idle" \in Place /\ "idle" \notin Submitting
    BY DEF Place, Submitting
<1> QED BY <1>1, <1>4, <1>8, <1>9, <1>10, <1>11, <1>12, StoresKept

(* A run that goes on and changes nothing else.                            *)
LEMMA GoesOn ==
    ASSUME GuardianInv, NEW r \in Run, NEW next \in Place \ Submitting, Go(r, next),
           UNCHANGED <<doc, kind, moved, replies, confirmed, ledger, issues, unknown>>,
           NEW x, x = [runs[r] EXCEPT !.at = next],
           Placed(x, kind), Agreed(x, doc, kind, confirmed, replies)
    PROVE  GuardianInv'
<1>1. runs[r] \in Doing
    BY DEF GuardianInv, GuardianTypes
<1>2. x \in Doing /\ x.at = next /\ runs' = [runs EXCEPT ![r] = x]
    BY <1>1 DEF Go, Doing
<1>3. Filed'
    BY <1>2, FiledKept
<1> QED BY <1>3, GoKept DEF GuardianInv, GuardianTypes

(* A check, or the manifest, settles what becomes of the report: a record  *)
(* that is condemned is not confirmed.                                     *)
LEMMA SettlesKept ==
    ASSUME GuardianInv, NEW r \in Run, NEW s, s = runs[r].snap, s.status = "verifying",
           runs[r].at # "idle", NEW status \in Recorded,
           Failing(s, kind) => status # "confirmation-recorded",
           NEW new, new = [s EXCEPT !.status = status], Stores(r, new, "finish"),
           UNCHANGED <<kind, moved, replies, confirmed, ledger, issues, unknown>>
    PROVE  GuardianInv'
<1>1. runs[r] \in Doing /\ s \in Doc
    BY DEF GuardianInv, GuardianTypes, Doing
<1>2. Fits(s, kind) /\ Begun(runs[r].event, kind)
    BY DEF GuardianInv, Placed
<1>3. /\ new \in Doc /\ new.status = status /\ new.pending = s.pending /\ new.mark = s.mark
      /\ new.asks = s.asks
    BY <1>1 DEF Doc, Status
<1>4. Fits(new, kind)
    BY <1>2, <1>3 DEF Fits, Open, Recorded
<1>5. s = doc => Advances(doc, new, kind) /\ Heard(new, confirmed, replies)
    <2>1. Condemned(s, kind) => Condemned(new, kind)
        BY <1>3 DEF Condemned, Recorded
    <2>2. s.status \notin Recorded \cup Terminal
        BY DEF Recorded, Terminal
    <2>3. s = doc => Heard(new, confirmed, replies)
        BY <1>3, NothingSaid
    <2> QED BY <2>1, <2>2, <2>3 DEF Advances
<1>6. PICK x : x = [runs[r] EXCEPT !.at = "finish", !.snap = new]
    OBVIOUS
<1>7. x.at = "finish" /\ x.snap = new /\ x.event = runs[r].event
    BY <1>1, <1>6 DEF Doing
<1>8. Placed(x, kind)
    BY <1>2, <1>3, <1>4, <1>7
       DEF Placed, Checking, Remedying, Submitting, Finishing, Answering, Recorded
<1>9. Agreed(x, new, kind, confirmed, replies)
    BY <1>7 DEF Agreed, Condemned, Answering
<1>10. "finish" \in Place /\ "finish" \notin Submitting
    BY DEF Place, Submitting
<1> QED BY <1>3, <1>4, <1>5, <1>6, <1>8, <1>9, <1>10, StoresKept

LEMMA ResumeKept ==
    ASSUME GuardianInv, NEW r \in Run, Resume(r)
    PROVE  GuardianInv'
<1> USE GuardianAssumption
<1>1. PICK s : s = runs[r].snap
    OBVIOUS
<1>2. runs[r] \in Doing /\ s \in Doc
    BY <1>1 DEF GuardianInv, GuardianTypes, Doing
<1>3. runs[r].at = "resume" /\ UNCHANGED <<kind, moved, replies, confirmed, ledger, issues, unknown>>
    BY DEF Resume
<1>4. /\ Placed(runs[r], kind) /\ Agreed(runs[r], doc, kind, confirmed, replies)
      /\ Fits(s, kind) /\ s.status \in Recorded \cup {"verifying"}
    BY <1>1, <1>3 DEF GuardianInv, Placed
<1>5. CASE s.status \in Recorded /\ Go(r, "finish") /\ UNCHANGED doc
    <2>1. PICK x : x = [runs[r] EXCEPT !.at = "finish"]
        OBVIOUS
    <2>2. x.at = "finish" /\ x.snap = s /\ x.event = runs[r].event
        BY <1>1, <1>2, <2>1 DEF Doing
    <2>3. Placed(x, kind)
        BY <1>1, <1>3, <1>4, <1>5, <2>2
           DEF Placed, Checking, Remedying, Submitting, Finishing, Answering
    <2>4. Agreed(x, doc, kind, confirmed, replies)
        BY <1>1, <1>4, <2>2 DEF Agreed, Answering
    <2>5. "finish" \in Place \ Submitting
        BY DEF Place, Submitting
    <2> QED BY <1>3, <1>5, <2>1, <2>3, <2>4, <2>5, GoesOn
<1>6. CASE s.status = "verifying" /\ Stores(r, [s EXCEPT !.status = "deferred-recorded"], "finish")
    <2>1. PICK new : new = [s EXCEPT !.status = "deferred-recorded"]
        OBVIOUS
    <2> QED BY <1>1, <1>3, <1>6, <2>1, SettlesKept DEF Recorded
<1>7. CASE s.status = "verifying" /\ Go(r, "verify") /\ UNCHANGED doc
    <2>1. PICK x : x = [runs[r] EXCEPT !.at = "verify"]
        OBVIOUS
    <2>2. x.at = "verify" /\ x.snap = s /\ x.event = runs[r].event
        BY <1>1, <1>2, <2>1 DEF Doing
    <2>3. Placed(x, kind)
        BY <1>1, <1>3, <1>4, <1>7, <2>2
           DEF Placed, Checking, Remedying, Submitting, Finishing, Answering
    <2>4. Agreed(x, doc, kind, confirmed, replies)
        BY <1>1, <1>4, <2>2 DEF Agreed, Answering
    <2>5. "verify" \in Place \ Submitting
        BY DEF Place, Submitting
    <2> QED BY <1>3, <1>7, <2>1, <2>3, <2>4, <2>5, GoesOn
<1> QED BY <1>1, <1>4, <1>5, <1>6, <1>7 DEF Resume

LEMMA VerifyKept ==
    ASSUME GuardianInv, NEW r \in Run, Verify(r)
    PROVE  GuardianInv'
<1> USE GuardianAssumption
<1>1. PICK s : s = runs[r].snap
    OBVIOUS
<1>2. runs[r] \in Doing /\ s \in Doc
    BY <1>1 DEF GuardianInv, GuardianTypes, Doing
<1>3. runs[r].at = "verify" /\ UNCHANGED <<kind, moved, replies, confirmed, ledger, issues, unknown>>
    BY DEF Verify
<1>4. /\ Placed(runs[r], kind) /\ Agreed(runs[r], doc, kind, confirmed, replies)
      /\ Fits(s, kind) /\ s.status = "verifying"
    BY <1>1, <1>3 DEF GuardianInv, Placed, Checking
<1>5. "judge" \in Place \ Submitting
    BY DEF Place, Submitting
<1>6. CASE Go(r, "judge") /\ UNCHANGED doc
    <2>1. PICK x : x = [runs[r] EXCEPT !.at = "judge"]
        OBVIOUS
    <2>2. x.at = "judge" /\ x.snap = s /\ x.event = runs[r].event
        BY <1>1, <1>2, <2>1 DEF Doing
    <2>3. Placed(x, kind)
        BY <1>1, <1>3, <1>4, <2>2 DEF Placed, Checking, Remedying, Submitting, Finishing, Answering
    <2>4. Agreed(x, doc, kind, confirmed, replies)
        BY <1>1, <1>4, <2>2 DEF Agreed, Answering
    <2> QED BY <1>3, <1>5, <1>6, <2>1, <2>3, <2>4, GoesOn
<1>7. ASSUME s.result = "none", NEW result \in Results, Stores(r, [s EXCEPT !.result = result], "judge")
      PROVE  GuardianInv'
    <2>1. PICK new : new = [s EXCEPT !.result = result]
        OBVIOUS
    <2>2. /\ new \in Doc /\ new.status = "verifying" /\ new.pending = s.pending /\ new.mark = s.mark
          /\ new.asks = s.asks
        BY <1>2, <1>4, <2>1 DEF Doc, Results
    <2>3. Fits(new, kind)
        BY <1>4, <2>2 DEF Fits, Open, Recorded
    <2>4. s = doc => Advances(doc, new, kind) /\ Heard(new, confirmed, replies)
        <3>1. ~Condemned(s, kind) /\ s.status \notin Recorded \cup Terminal
            BY <1>4, <1>7 DEF Condemned, Failing, Recorded, Terminal
        <3>2. s = doc => Heard(new, confirmed, replies)
            BY <1>4, <2>2, NothingSaid
        <3> QED BY <3>1, <3>2 DEF Advances
    <2>5. PICK x : x = [runs[r] EXCEPT !.at = "judge", !.snap = new]
        OBVIOUS
    <2>6. x.at = "judge" /\ x.snap = new /\ x.event = runs[r].event
        BY <1>2, <2>5 DEF Doing
    <2>7. Placed(x, kind)
        BY <1>3, <1>4, <2>2, <2>3, <2>6
           DEF Placed, Checking, Remedying, Submitting, Finishing, Answering
    <2>8. Agreed(x, new, kind, confirmed, replies)
        BY <2>2, <2>6 DEF Agreed, Condemned, Answering
    <2> QED BY <1>1, <1>3, <1>5, <1>7, <2>1, <2>2, <2>3, <2>4, <2>5, <2>7, <2>8, StoresKept
<1> QED BY <1>1, <1>6, <1>7 DEF Verify

LEMMA JudgeKept ==
    ASSUME GuardianInv, NEW r \in Run, Judge(r)
    PROVE  GuardianInv'
<1> USE GuardianAssumption
<1>1. PICK s : s = runs[r].snap
    OBVIOUS
<1>2. runs[r] \in Doing /\ s \in Doc
    BY <1>1 DEF GuardianInv, GuardianTypes, Doing
<1>3. runs[r].at = "judge" /\ UNCHANGED <<kind, moved, replies, confirmed, ledger, issues, unknown>>
    BY DEF Judge
<1>4. /\ Placed(runs[r], kind) /\ Agreed(runs[r], doc, kind, confirmed, replies)
      /\ Fits(s, kind) /\ s.status = "verifying"
    BY <1>1, <1>3 DEF GuardianInv, Placed, Checking
<1>5. Failing(s, kind) <=>
          s.result = "failed" \/ (s.result = "passed" /\ kind[s.pending] = "report" /\ s.asks >= 1)
    BY <1>4 DEF Failing
<1>6. \/ Failing(s, kind) /\ Go(r, "remedy") /\ UNCHANGED doc
      \/ ~Failing(s, kind) /\ Go(r, "recheck") /\ UNCHANGED doc
      \/ ~Failing(s, kind) /\ Stores(r, [s EXCEPT !.status = "confirmation-recorded"], "finish")
      \/ Stores(r, [s EXCEPT !.status = "deferred-recorded"], "finish")
    <2>1. CASE Failing(s, kind)
        BY <1>1, <1>5, <2>1 DEF Judge
    <2>2. CASE ~Failing(s, kind) /\ s.result = "passed" /\ kind[s.pending] \in {"failure", "report"}
        BY <1>1, <1>5, <2>2 DEF Judge
    <2>3. CASE ~Failing(s, kind) /\ s.result = "passed" /\ kind[s.pending] \notin {"failure", "report"}
        BY <1>1, <1>5, <2>3 DEF Judge
    <2>4. CASE ~Failing(s, kind) /\ s.result # "passed"
        BY <1>1, <1>5, <2>4 DEF Judge
    <2> QED BY <2>1, <2>2, <2>3, <2>4
<1>7. ASSUME NEW next \in {"remedy", "recheck"}, Go(r, next), UNCHANGED doc,
             Failing(s, kind) <=> next = "remedy"
      PROVE  GuardianInv'
    <2>1. PICK x : x = [runs[r] EXCEPT !.at = next]
        OBVIOUS
    <2>2. x.at = next /\ x.snap = s /\ x.event = runs[r].event
        BY <1>1, <1>2, <2>1 DEF Doing
    <2>3. Placed(x, kind)
        BY <1>1, <1>3, <1>4, <1>7, <2>2
           DEF Placed, Checking, Remedying, Submitting, Finishing, Answering
    <2>4. Agreed(x, doc, kind, confirmed, replies)
        BY <1>1, <1>4, <1>7, <2>2 DEF Agreed, Answering
    <2>5. next \in Place \ Submitting
        BY <1>7 DEF Place, Submitting
    <2> QED BY <1>3, <1>7, <2>1, <2>3, <2>4, <2>5, GoesOn
<1>8. ASSUME NEW status \in {"confirmation-recorded", "deferred-recorded"},
             Failing(s, kind) => status # "confirmation-recorded",
             Stores(r, [s EXCEPT !.status = status], "finish")
      PROVE  GuardianInv'
    <2>1. PICK new : new = [s EXCEPT !.status = status]
        OBVIOUS
    <2> QED BY <1>1, <1>3, <1>4, <1>8, <2>1, SettlesKept DEF Recorded
<1> QED BY <1>6, <1>7, <1>8

LEMMA ClosedDoc ==
    ASSUME NEW s \in Doc, s.pending \in Event, NEW status \in Status, NEW c, c = Closed(s, status)
    PROVE  c \in Doc /\ c.status = status /\ c.pending = 0 /\ c.mark = s.pending /\ c.asks = s.asks
<1> USE GuardianAssumption
<1>1. s.seen \cup {s.pending} \in SUBSET Event /\ s.pending \in 0 .. Events /\ 0 \in 0 .. Events
    BY DEF Doc, Event
<1>2. PICK a : a = [[s EXCEPT !.status = status] EXCEPT !.pending = 0, !.mark = s.pending]
    OBVIOUS
<1>3. a \in Doc /\ a.status = status /\ a.pending = 0 /\ a.mark = s.pending /\ a.asks = s.asks
    BY <1>1, <1>2 DEF Doc
<1>4. c = [a EXCEPT !.seen = s.seen \cup {s.pending}, !.result = "none"]
    BY <1>2 DEF Closed, Doc
<1> QED BY <1>1, <1>3, <1>4 DEF Doc

LEMMA RecheckedKept ==
    ASSUME GuardianInv, NEW r \in Run, Rechecked(r)
    PROVE  GuardianInv'
<1> USE GuardianAssumption
<1>1. PICK s : s = runs[r].snap
    OBVIOUS
<1>2. PICK e : e = runs[r].event
    OBVIOUS
<1>3. runs[r] \in Doing /\ s \in Doc
    BY <1>1 DEF GuardianInv, GuardianTypes, Doing
<1>4. runs[r].at = "recheck" /\ UNCHANGED <<kind, moved, replies, confirmed, ledger, issues, unknown>>
    BY DEF Rechecked
<1>5. Fits(s, kind) /\ s.status = "verifying" /\ ~Failing(s, kind) /\ Begun(e, kind)
    BY <1>1, <1>2, <1>4 DEF GuardianInv, Placed, Checking
<1>6. /\ s.pending \in Event /\ s.pending \in 0 .. Events /\ s.mark = s.pending /\ s.asks < 2 * s.mark
      /\ s.asks \in Nat /\ s.seen \subseteq Event /\ e \in Nat
    BY <1>3, <1>5 DEF Doc, Fits, Begun, Event
<1>7. PICK new : new = [Closed(s, "discussing") EXCEPT !.asks = s.asks + 1]
    OBVIOUS
<1>8. /\ new \in Doc /\ new.status = "discussing" /\ new.pending = 0 /\ new.mark = s.pending
      /\ new.asks = s.asks + 1
    <2>1. s.asks + 1 \in 0 .. 2 * Events /\ s.seen \cup {s.pending} \in SUBSET Event
        BY <1>6
    <2>2. PICK c : c = Closed(s, "discussing")
        OBVIOUS
    <2>3. c \in Doc /\ c.status = "discussing" /\ c.pending = 0 /\ c.mark = s.pending /\ c.asks = s.asks
        BY <1>3, <1>6, <2>2, ClosedDoc DEF Status
    <2>4. new = [c EXCEPT !.asks = s.asks + 1]
        BY <1>7, <2>2
    <2> QED BY <2>1, <2>3, <2>4 DEF Doc
<1>9. PICK next : next = IF e > s.pending THEN "fresh" ELSE "idle"
    OBVIOUS
<1>10. Stores(r, new, next)
    <2>1. new = [Closed(s, "discussing") EXCEPT !.asks = @ + 1]
        BY <1>3, <1>7 DEF Closed, Doc
    <2> QED BY <1>1, <1>2, <1>9, <2>1 DEF Rechecked
<1>11. Fits(new, kind)
    BY <1>6, <1>8 DEF Fits, Recorded
<1>12. s = doc => Advances(doc, new, kind) /\ Heard(new, confirmed, replies)
    <2>1. ~Condemned(s, kind) /\ s.status \notin Recorded \cup Terminal
        BY <1>5 DEF Condemned, Recorded, Terminal
    <2>2. s = doc => Heard(new, confirmed, replies)
        BY <1>5, <1>8, NothingSaid DEF Open
    <2> QED BY <2>1, <2>2 DEF Advances
<1>13. PICK x : x = [runs[r] EXCEPT !.at = next, !.snap = new]
    OBVIOUS
<1>14. x.at = next /\ x.snap = new /\ x.event = e
    BY <1>2, <1>3, <1>13 DEF Doing
<1>15. next # "idle" => Placed(x, kind)
    BY <1>5, <1>8, <1>9, <1>11, <1>14
       DEF Placed, Checking, Remedying, Submitting, Finishing, Answering, Open
<1>16. next # "idle" => Agreed(x, new, kind, confirmed, replies)
    BY <1>9, <1>14 DEF Agreed, Condemned, Answering
<1>17. next \in Place /\ next \notin Submitting
    BY <1>9 DEF Place, Submitting
<1> QED BY <1>1, <1>4, <1>8, <1>10, <1>11, <1>12, <1>13, <1>15, <1>16, <1>17, StoresKept

(* A run that gives up and files nothing.                                  *)
LEMMA GivesUp ==
    ASSUME GuardianInv, NEW r \in Run, EndsRun(r),
           UNCHANGED <<doc, kind, moved, replies, confirmed, ledger, issues, unknown>>
    PROVE  GuardianInv'
<1>1. Filed'
    <2>1. runs' = [runs EXCEPT ![r] = NoRun] /\ NoRun.at \notin Submitting
        BY AtRest DEF EndsRun, Submitting
    <2> QED BY <2>1, AtRest, FiledKept
<1> QED BY <1>1, EndsKept DEF GuardianInv, GuardianTypes

(* A run on its way through the remedy is as it was, one place further.    *)
LEMMA Further ==
    ASSUME GuardianInv, NEW r \in Run, runs[r].at \in Remedying, NEW next \in Remedying,
           NEW x, x = [runs[r] EXCEPT !.at = next]
    PROVE  /\ Placed(x, kind) /\ Agreed(x, doc, kind, confirmed, replies) /\ Condemned(doc, kind)
           /\ next \in Place /\ x \in Doing /\ x.at = next
<1>1. runs[r] \in Doing
    BY DEF GuardianInv, GuardianTypes
<1>2. x.at = next /\ x.snap = runs[r].snap /\ x.event = runs[r].event
    BY <1>1 DEF Doing
<1>3. Placed(runs[r], kind) /\ Agreed(runs[r], doc, kind, confirmed, replies)
    BY DEF GuardianInv
<1>4. next \in Place
    BY DEF Remedying, Submitting, Place
<1>5. Placed(x, kind)
    BY <1>2, <1>3 DEF Placed, Checking, Remedying, Submitting, Finishing, Answering
<1>6. Agreed(x, doc, kind, confirmed, replies)
    BY <1>2, <1>3 DEF Agreed, Remedying, Submitting, Answering
<1>7. Condemned(doc, kind)
    BY <1>3 DEF Placed, Agreed
<1> QED BY <1>1, <1>2, <1>4, <1>5, <1>6, <1>7 DEF Doing

LEMMA UpsertKept ==
    ASSUME GuardianInv, NEW r \in Run, Upsert(r)
    PROVE  GuardianInv'
<1> USE GuardianAssumption
<1>1. runs[r].at = "remedy" /\ UNCHANGED <<doc, kind, moved, replies, confirmed, issues, unknown>>
    BY DEF Upsert
<1>2. runs[r].at \in Remedying /\ runs[r].at \notin Submitting
    BY <1>1 DEF Remedying, Submitting
<1>6. issues \in Nat
    BY DEF GuardianInv, GuardianTypes
<1>3. ASSUME NEW next \in {"remedied", "receipt"}, Go(r, next), UNCHANGED ledger
      PROVE  GuardianInv'
    <2>1. PICK x : x = [runs[r] EXCEPT !.at = next]
        OBVIOUS
    <2>2. next \in Remedying /\ next \notin Submitting
        BY <1>3 DEF Remedying, Submitting
    <2>3. Placed(x, kind) /\ Agreed(x, doc, kind, confirmed, replies) /\ next \in Place
        BY <1>2, <2>1, <2>2, Further
    <2> QED BY <1>1, <1>3, <2>1, <2>2, <2>3, GoesOn
<1>4. CASE EndsRun(r) /\ UNCHANGED ledger
    BY <1>1, <1>4, GivesUp
<1>5. ASSUME NEW n \in 1 .. Attempts \ ledger.drops, \A m \in 1 .. Attempts \ ledger.drops : n <= m,
             ~Claimed(n), ledger' = [ledger EXCEPT !.intents = @ \cup {n}], Go(r, "submit")
      PROVE  GuardianInv'
    <2>1. PICK x : x = [runs[r] EXCEPT !.at = "submit"]
        OBVIOUS
    <2>2. "submit" \in Remedying
        BY DEF Remedying, Submitting
    <2>3. /\ Placed(x, kind) /\ Agreed(x, doc, kind, confirmed, replies) /\ "submit" \in Place
          /\ x \in Doing /\ x.at = "submit"
        BY <1>2, <2>1, <2>2, Further
    <2>4. ledger \in Ledger
        BY DEF GuardianInv, GuardianTypes
    <2>5. /\ ledger' \in Ledger /\ ledger'.drops = ledger.drops /\ n \in ledger'.intents
        BY <1>5, <2>4 DEF Ledger
    <2>6. runs' = [runs EXCEPT ![r] = x]
        BY <1>5, <2>1 DEF Go
    <2>7. (\A q \in Run : runs[q].at \notin Submitting) /\ ~(issues > 0)
        <3>1. SUFFICES ASSUME (\E q \in Run : runs[q].at \in Submitting) \/ issues > 0 PROVE FALSE
            OBVIOUS
        <3>2. PICK m \in ledger.intents \ ledger.drops : \A l \in 1 .. Attempts \ ledger.drops : m <= l
            BY <3>1 DEF GuardianInv, Filed
        <3>3. m \in 1 .. Attempts
            BY <2>4, <3>2 DEF Ledger
        <3>4. m = n
            BY <1>5, <3>2, <3>3
        <3> QED BY <1>5, <3>2, <3>4 DEF Claimed
    <2>8. \A q \in Run : runs'[q].at \in Submitting <=> q = r
        BY <2>3, <2>6, <2>7 DEF GuardianInv, GuardianTypes, Submitting
    <2>9. Filed'
        <3>1. \A p, q \in Run : runs'[p].at \in Submitting /\ runs'[q].at \in Submitting => p = q
            BY <2>8
        <3>2. n \in ledger'.intents \ ledger'.drops /\ \A m \in 1 .. Attempts \ ledger'.drops : n <= m
            BY <1>5, <2>5
        <3>3. issues' = 0
            BY <1>1, <1>6, <2>7
        <3> QED BY <3>1, <3>2, <3>3 DEF Filed
    <2>10. Heard(doc, confirmed, replies)
        BY DEF GuardianInv
    <2> QED BY <1>1, <1>5, <2>1, <2>3, <2>5, <2>9, <2>10, GoKept DEF GuardianInv, GuardianTypes
<1> QED BY <1>1, <1>3, <1>4, <1>5 DEF Upsert

LEMMA SubmitKept ==
    ASSUME GuardianInv, NEW r \in Run, Submit(r)
    PROVE  GuardianInv'
<1> USE GuardianAssumption
<1>1. runs[r].at = "submit" /\ UNCHANGED <<doc, kind, moved, replies, confirmed, ledger>>
    BY DEF Submit
<1>2. runs[r].at \in Remedying /\ runs[r].at \in Submitting
    BY <1>1 DEF Remedying, Submitting
<1>3. /\ issues = 0 /\ \A q \in Run : runs[q].at \in Submitting => q = r
      /\ \E n \in ledger.intents \ ledger.drops : \A m \in 1 .. Attempts \ ledger.drops : n <= m
    BY <1>2 DEF GuardianInv, Filed
<1>4. 1 \in 0 .. Attempts /\ 0 \in 0 .. Attempts
    <2>1. PICK n \in ledger.intents \ ledger.drops : TRUE
        BY <1>3
    <2>2. n \in 1 .. Attempts
        BY <2>1 DEF GuardianInv, GuardianTypes, Ledger
    <2> QED BY <2>2
<1>5. PICK x : x = [runs[r] EXCEPT !.at = "receipt"]
    OBVIOUS
<1>6. /\ Placed(x, kind) /\ Agreed(x, doc, kind, confirmed, replies) /\ Condemned(doc, kind)
      /\ "receipt" \in Place /\ x \in Doing /\ x.at = "receipt"
    <2>1. "receipt" \in Remedying
        BY DEF Remedying
    <2> QED BY <1>2, <1>5, <2>1, Further
<1>7. Heard(doc, confirmed, replies) /\ ledger \in Ledger
    BY DEF GuardianInv, GuardianTypes
<1>8. CASE issues' = issues + 1 /\ Go(r, "receipt") /\ UNCHANGED unknown
    <2>1. \A q \in Run : runs'[q].at \notin Submitting
        BY <1>3, <1>5, <1>6, <1>8 DEF Go, GuardianInv, GuardianTypes, Submitting
    <2>2. Filed'
        BY <1>1, <1>3, <1>6, <1>8, <2>1 DEF Filed
    <2> QED BY <1>1, <1>3, <1>4, <1>5, <1>6, <1>7, <1>8, <2>2, GoKept DEF GuardianInv, GuardianTypes
<1>9. CASE Go(r, "dropped") /\ UNCHANGED <<issues, unknown>>
    <2>1. PICK y : y = [runs[r] EXCEPT !.at = "dropped"]
        OBVIOUS
    <2>2. "dropped" \in Remedying
        BY DEF Remedying, Submitting
    <2>3. /\ Placed(y, kind) /\ Agreed(y, doc, kind, confirmed, replies)
          /\ "dropped" \in Place /\ y \in Doing /\ y.at = "dropped"
        BY <1>2, <2>1, <2>2, Further
    <2>4. \A q \in Run : runs'[q].at \in Submitting => q = r
        BY <1>3, <1>9, <2>1, <2>3 DEF Go, GuardianInv, GuardianTypes
    <2>5. Filed'
        BY <1>1, <1>3, <1>6, <1>9, <2>4 DEF Filed
    <2> QED BY <1>1, <1>3, <1>4, <1>7, <1>9, <2>1, <2>3, <2>5, GoKept DEF GuardianInv, GuardianTypes
<1>10. CASE unknown < MaxUnknown /\ unknown' = unknown + 1 /\ issues' \in {issues, issues + 1} /\ EndsRun(r)
    <2>1. \A q \in Run : runs'[q].at \notin Submitting
        BY <1>3, <1>10, AtRest DEF EndsRun, GuardianInv, GuardianTypes, Submitting
    <2>2. issues' \in {0, 1}
        BY <1>3, <1>10
    <2>3. Filed'
        BY <1>1, <1>3, <1>6, <2>1, <2>2 DEF Filed
    <2>4. unknown' \in 0 .. MaxUnknown
        BY <1>10 DEF GuardianInv, GuardianTypes
    <2> QED BY <1>1, <1>4, <1>7, <1>10, <2>2, <2>3, <2>4, EndsKept
<1> QED BY <1>8, <1>9, <1>10 DEF Submit

(* A file that is dropped frees the next one: the run that submitted was   *)
(* the only one, and knows that no issue was created.                      *)
LEMMA DroppedKept ==
    ASSUME GuardianInv, NEW r \in Run, Dropped(r)
    PROVE  GuardianInv'
<1>1. runs[r].at \in Submitting /\ EndsRun(r) /\ UNCHANGED <<doc, kind, moved, replies, confirmed, issues, unknown>>
    BY DEF Dropped, Submitting
<1>2. issues = 0 /\ \A q \in Run : runs[q].at \in Submitting => q = r
    BY <1>1 DEF GuardianInv, Filed
<1>3. \A q \in Run : runs'[q].at \notin Submitting
    BY <1>1, <1>2, AtRest DEF EndsRun, GuardianInv, GuardianTypes, Submitting
<1>4. Filed'
    BY <1>1, <1>2, <1>3 DEF Filed
<1>5. ledger' \in Ledger
    BY DEF Dropped, GuardianInv, GuardianTypes, Ledger
<1> QED BY <1>1, <1>4, <1>5, EndsKept DEF GuardianInv, GuardianTypes

LEMMA ReceiptKept ==
    ASSUME GuardianInv, NEW r \in Run, Receipt(r)
    PROVE  GuardianInv'
<1>1. /\ runs[r].at = "receipt" /\ Go(r, "remedied")
      /\ UNCHANGED <<doc, kind, moved, replies, confirmed, issues, unknown>>
    BY DEF Receipt
<1>2. PICK x : x = [runs[r] EXCEPT !.at = "remedied"]
    OBVIOUS
<1>3. /\ Placed(x, kind) /\ Agreed(x, doc, kind, confirmed, replies)
      /\ "remedied" \in Place /\ x \in Doing /\ x.at = "remedied"
    <2>1. runs[r].at \in Remedying /\ "remedied" \in Remedying
        BY <1>1 DEF Remedying
    <2> QED BY <1>2, <2>1, Further
<1>4. ledger' \in Ledger /\ ledger'.intents = ledger.intents /\ ledger'.drops = ledger.drops
    BY DEF Receipt, GuardianInv, GuardianTypes, Ledger
<1>5. \A q \in Run : runs'[q].at \in Submitting => runs[q].at \in Submitting
    BY <1>1, <1>2, <1>3 DEF Go, GuardianInv, GuardianTypes, Submitting
<1>6. Filed'
    BY <1>1, <1>4, <1>5 DEF GuardianInv, Filed
<1> QED BY <1>1, <1>2, <1>3, <1>4, <1>6, GoKept DEF GuardianInv, GuardianTypes

LEMMA RemediedKept ==
    ASSUME GuardianInv, NEW r \in Run, Remedied(r)
    PROVE  GuardianInv'
<1>1. PICK s : s = runs[r].snap
    OBVIOUS
<1>2. runs[r].at = "remedied" /\ UNCHANGED <<kind, moved, replies, confirmed, ledger, issues, unknown>>
    BY DEF Remedied
<1>3. s.status = "verifying"
    BY <1>1, <1>2 DEF GuardianInv, Placed, Checking, Remedying
<1>4. PICK new : new = [s EXCEPT !.status = "remediation-recorded"]
    OBVIOUS
<1>5. Stores(r, new, "finish")
    BY <1>1, <1>4 DEF Remedied
<1> QED BY <1>1, <1>2, <1>3, <1>4, <1>5, SettlesKept DEF Recorded

LEMMA FinishKept ==
    ASSUME GuardianInv, NEW r \in Run, Finish(r)
    PROVE  GuardianInv'
<1>1. PICK s : s = runs[r].snap
    OBVIOUS
<1>2. PICK next : next = IF s.status = "confirmation-recorded" /\ ~s.path THEN "path" ELSE "say"
    OBVIOUS
<1>3. /\ runs[r].at = "finish" /\ Go(r, next)
      /\ confirmed' = (confirmed \/ s.status = "confirmation-recorded")
      /\ UNCHANGED <<doc, kind, moved, replies, ledger, issues, unknown>>
    BY <1>1, <1>2 DEF Finish
<1>4. runs[r] \in Doing /\ confirmed \in BOOLEAN
    BY DEF GuardianInv, GuardianTypes
<1>5. Placed(runs[r], kind) /\ Agreed(runs[r], doc, kind, confirmed, replies)
    BY DEF GuardianInv
<1>6. PICK x : x = [runs[r] EXCEPT !.at = next]
    OBVIOUS
<1>7. x.at = next /\ x.snap = s /\ x.event = runs[r].event
    BY <1>1, <1>4, <1>6 DEF Doing
<1>8. s.status \in Recorded /\ next \in {"path", "say"}
    BY <1>1, <1>2, <1>3, <1>5 DEF Placed, Finishing
<1>9. next \in Place /\ next \notin Submitting
    BY <1>8 DEF Place, Submitting
<1>10. confirmed' \in BOOLEAN /\ (confirmed => confirmed')
    BY <1>3, <1>4
<1>11. Placed(x, kind)
    BY <1>1, <1>3, <1>5, <1>7, <1>8 DEF Placed, Checking, Remedying, Submitting, Finishing, Answering
<1>12. s.status = "confirmation-recorded" => confirmed'
    BY <1>3
<1>13. Agreed(x, doc, kind, confirmed', replies)
    BY <1>1, <1>5, <1>7, <1>8, <1>12 DEF Agreed
<1>14. Filed'
    <2>1. x \in Doing /\ runs' = [runs EXCEPT ![r] = x]
        BY <1>3, <1>4, <1>6, <1>9 DEF Go, Doing
    <2> QED BY <1>3, <1>7, <1>9, <2>1, FiledKept
<1>15. Heard(doc, confirmed', replies)
    BY <1>10 DEF GuardianInv, Heard
<1> QED BY <1>3, <1>6, <1>9, <1>10, <1>11, <1>13, <1>14, <1>15, GoKept DEF GuardianInv, GuardianTypes

LEMMA SavesPathKept ==
    ASSUME GuardianInv, NEW r \in Run, SavesPath(r)
    PROVE  GuardianInv'
<1>1. PICK s : s = runs[r].snap
    OBVIOUS
<1>2. PICK new : new = [s EXCEPT !.path = TRUE]
    OBVIOUS
<1>3. /\ runs[r].at = "path" /\ Stores(r, new, "say")
      /\ UNCHANGED <<kind, moved, replies, confirmed, ledger, issues, unknown>>
    BY <1>1, <1>2 DEF SavesPath
<1>4. runs[r] \in Doing /\ s \in Doc
    BY <1>1 DEF GuardianInv, GuardianTypes, Doing
<1>5. Placed(runs[r], kind) /\ Agreed(runs[r], doc, kind, confirmed, replies)
    BY DEF GuardianInv
<1>6. /\ new \in Doc /\ new.status = s.status /\ new.pending = s.pending /\ new.mark = s.mark
      /\ new.asks = s.asks /\ new.result = s.result
    BY <1>2, <1>4 DEF Doc
<1>7. Fits(s, kind) /\ s.status \in Recorded
    BY <1>1, <1>3, <1>5 DEF Placed, Finishing, Answering
<1>8. Fits(new, kind) /\ (Failing(new, kind) <=> Failing(s, kind))
    BY <1>6, <1>7 DEF Fits, Failing
<1>9. s = doc => Advances(doc, new, kind) /\ Heard(new, confirmed, replies)
    <2>1. s.status \notin Terminal
        BY <1>7 DEF Recorded, Terminal
    <2>2. s = doc => Advances(doc, new, kind)
        BY <1>6, <1>8, <2>1 DEF Advances, Condemned
    <2>3. s = doc => Heard(new, confirmed, replies)
        BY <1>6 DEF GuardianInv, Heard
    <2> QED BY <2>2, <2>3
<1>10. PICK x : x = [runs[r] EXCEPT !.at = "say", !.snap = new]
    OBVIOUS
<1>11. x.at = "say" /\ x.snap = new /\ x.event = runs[r].event
    BY <1>4, <1>10 DEF Doing
<1>12. Placed(x, kind)
    BY <1>3, <1>5, <1>6, <1>7, <1>8, <1>11
       DEF Placed, Checking, Remedying, Submitting, Finishing, Answering
<1>13. Agreed(x, new, kind, confirmed, replies)
    <2>1. s.status = "confirmation-recorded" => confirmed
        BY <1>1, <1>3, <1>5 DEF Agreed, Answering
    <2> QED BY <1>6, <1>11, <2>1 DEF Agreed, Condemned
<1>14. "say" \in Place /\ "say" \notin Submitting
    BY DEF Place, Submitting
<1> QED BY <1>1, <1>3, <1>6, <1>8, <1>9, <1>10, <1>12, <1>13, <1>14, StoresKept

(* What a run says is the outcome of the record, whatever snapshot it has. *)
LEMMA SaysKept ==
    ASSUME GuardianInv, NEW r \in Run, Says(r)
    PROVE  GuardianInv'
<1>1. PICK s : s = runs[r].snap
    OBVIOUS
<1>2. PICK o : o = OutcomeOf(s.status)
    OBVIOUS
<1>3. /\ runs[r].at = "say" /\ Go(r, "close") /\ replies' = replies \cup {o}
      /\ UNCHANGED <<doc, kind, moved, confirmed, ledger, issues, unknown>>
    BY <1>1, <1>2 DEF Says
<1>4. runs[r] \in Doing /\ replies \subseteq Terminal
    BY DEF GuardianInv, GuardianTypes
<1>5. Placed(runs[r], kind) /\ Agreed(runs[r], doc, kind, confirmed, replies)
    BY DEF GuardianInv
<1>6. s.status \in Recorded
    BY <1>1, <1>3, <1>5 DEF Placed, Finishing, Answering
<1>7. /\ doc.status \in {s.status, o}
      /\ s.status = "confirmation-recorded" => confirmed
    BY <1>1, <1>2, <1>3, <1>5, <1>6 DEF Agreed, Answering
<1>8. o \in Terminal /\ (o = "confirmed" => s.status = "confirmation-recorded")
    BY <1>2, <1>6 DEF OutcomeOf, Terminal, Recorded
<1>9. replies' \subseteq Terminal /\ replies \subseteq replies'
    BY <1>3, <1>4, <1>8
<1>10. Heard(doc, confirmed, replies')
    <2>1. Heard(doc, confirmed, replies)
        BY DEF GuardianInv
    <2>2. CASE doc.status = s.status
        <3>1. doc.status \notin Open \cup {"verifying"} \cup Terminal
            BY <1>6, <2>2 DEF Open, Recorded, Terminal
        <3>2. replies \subseteq {o}
            BY <1>2, <1>6, <2>1, <2>2 DEF Heard
        <3> QED BY <1>2, <1>3, <1>7, <1>8, <2>2, <3>1, <3>2 DEF Heard
    <2>3. CASE doc.status = o
        <3>1. replies = {o}
            BY <1>8, <2>1, <2>3 DEF Heard
        <3>2. replies' = replies
            BY <1>3, <3>1
        <3> QED BY <2>1, <3>2
    <2> QED BY <1>7, <2>2, <2>3
<1>11. PICK x : x = [runs[r] EXCEPT !.at = "close"]
    OBVIOUS
<1>12. x.at = "close" /\ x.snap = s /\ x.event = runs[r].event
    BY <1>1, <1>4, <1>11 DEF Doing
<1>13. Placed(x, kind)
    BY <1>1, <1>3, <1>5, <1>6, <1>12
       DEF Placed, Checking, Remedying, Submitting, Finishing, Answering
<1>14. Agreed(x, doc, kind, confirmed, replies')
    BY <1>1, <1>2, <1>3, <1>5, <1>7, <1>12 DEF Agreed
<1>15. "close" \in Place /\ "close" \notin Submitting
    BY DEF Place, Submitting
<1>16. Filed'
    <2>1. x \in Doing /\ runs' = [runs EXCEPT ![r] = x]
        BY <1>3, <1>4, <1>11, <1>15 DEF Go, Doing
    <2> QED BY <1>3, <1>12, <1>15, <2>1, FiledKept
<1> QED BY <1>3, <1>9, <1>10, <1>11, <1>13, <1>14, <1>15, <1>16, GoKept DEF GuardianInv, GuardianTypes

LEMMA ClosesKept ==
    ASSUME GuardianInv, NEW r \in Run, Closes(r)
    PROVE  GuardianInv'
<1> USE GuardianAssumption
<1>1. PICK s : s = runs[r].snap
    OBVIOUS
<1>2. PICK o : o = OutcomeOf(s.status)
    OBVIOUS
<1>3. PICK new : new = Closed(s, o)
    OBVIOUS
<1>4. /\ runs[r].at = "close" /\ Stores(r, new, "idle")
      /\ UNCHANGED <<kind, moved, replies, confirmed, ledger, issues, unknown>>
    BY <1>1, <1>2, <1>3 DEF Closes
<1>5. s \in Doc /\ runs[r] \in Doing
    BY <1>1 DEF GuardianInv, GuardianTypes, Doing
<1>6. Placed(runs[r], kind) /\ Agreed(runs[r], doc, kind, confirmed, replies)
    BY DEF GuardianInv
<1>7. s.status \in Recorded /\ Fits(s, kind) /\ o \in replies
    BY <1>1, <1>2, <1>4, <1>6 DEF Placed, Agreed, Finishing, Answering
<1>8. /\ o \in Terminal /\ o \in Status
      /\ s.status \in {"deferred-recorded", "remediation-recorded"} => o \in {"deferred", "remediation-open"}
    BY <1>2, <1>7 DEF OutcomeOf, Terminal, Recorded, Status
<1>9. s.pending \in Event /\ s.pending \in Nat /\ s.mark = s.pending /\ s.asks \in Nat /\ s.asks < 2 * s.mark
    BY <1>5, <1>7 DEF Fits, Begun, Event, Doc
<1>10. /\ new \in Doc /\ new.status = o /\ new.pending = 0 /\ new.mark = s.pending
       /\ new.asks = s.asks
    BY <1>3, <1>5, <1>8, <1>9, ClosedDoc
<1>11. Fits(new, kind)
    BY <1>8, <1>9, <1>10 DEF Fits, Open, Recorded, Terminal
<1>12. s = doc => Advances(doc, new, kind) /\ Heard(new, confirmed, replies)
    <2>1. s.status \notin Terminal
        BY <1>7 DEF Recorded, Terminal
    <2>2. Condemned(s, kind) => Condemned(new, kind)
        BY <1>7, <1>8, <1>10 DEF Condemned, Failing, Recorded
    <2>3. s = doc => Advances(doc, new, kind)
        BY <1>2, <1>10, <2>1, <2>2 DEF Advances
    <2>4. s = doc => replies = {o}
        BY <1>2, <1>7 DEF GuardianInv, Heard
    <2>5. o \notin Open \cup {"verifying"} \cup Recorded
        BY <1>8 DEF Open, Recorded, Terminal
    <2>6. s = doc => Heard(new, confirmed, replies)
        BY <1>10, <2>4, <2>5 DEF GuardianInv, Heard
    <2> QED BY <2>3, <2>6
<1>13. "idle" \in Place /\ "idle" \notin Submitting
    BY DEF Place, Submitting
<1> QED BY <1>1, <1>4, <1>10, <1>11, <1>12, <1>13, StoresKept

-----------------------------------------------------------------------------
LEMMA GuardianStarts == GuardianInit => GuardianInv
<1> SUFFICES ASSUME GuardianInit PROVE GuardianInv
    OBVIOUS
<1> USE GuardianAssumption
<1>1. \A r \in Run : runs[r] = NoRun
    BY DEF GuardianInit
<1>2. GuardianTypes
    <2>1. doc \in Doc /\ runs \in [Run -> Doing]
        BY AtRest DEF GuardianInit
    <2>2. kind \in [Event -> Kind \cup {"none"}] /\ moved \in BOOLEAN /\ confirmed \in BOOLEAN
        BY DEF GuardianInit
    <2>3. ledger \in Ledger
        BY DEF GuardianInit, Ledger
    <2>4. replies \subseteq Terminal /\ issues \in 0 .. Attempts /\ unknown \in 0 .. MaxUnknown
        BY DEF GuardianInit
    <2> QED BY <2>1, <2>2, <2>3, <2>4 DEF GuardianTypes
<1>3. \A r \in Run : Placed(runs[r], kind) /\ Agreed(runs[r], doc, kind, confirmed, replies)
    BY <1>1, AtRest DEF Placed, Agreed, Checking, Remedying, Submitting, Finishing, Answering
<1>4. Heard(doc, confirmed, replies)
    BY DEF GuardianInit, Asked, Heard, Recorded, Terminal
<1>5. Filed
    BY <1>1, AtRest DEF GuardianInit, Filed, Submitting
<1> QED BY <1>2, <1>3, <1>4, <1>5, AtRest DEF GuardianInv, GuardianInit

LEMMA GuardianMoves == GuardianInv /\ [GuardianNext]_guardianVars => GuardianInv'
<1> SUFFICES ASSUME GuardianInv, [GuardianNext]_guardianVars PROVE GuardianInv'
    OBVIOUS
<1>1. CASE Moves
    BY <1>1 DEF Moves, GuardianInv, GuardianTypes, Filed
<1>2. CASE UNCHANGED guardianVars
    BY <1>2 DEF guardianVars, GuardianInv, GuardianTypes, Filed
<1>3. ASSUME NEW r \in Run, NEW e \in Event, Deliver(r, e) PROVE GuardianInv'
    BY <1>3, DeliverKept
<1>4. ASSUME NEW r \in Run, Decide(r) \/ Clarified(r) \/ Resume(r) \/ Verify(r) \/ Judge(r) \/ Rechecked(r)
      PROVE  GuardianInv'
    BY <1>4, DecideKept, ClarifiedKept, ResumeKept, VerifyKept, JudgeKept, RecheckedKept
<1>5. ASSUME NEW r \in Run, Upsert(r) \/ Submit(r) \/ Dropped(r) \/ Receipt(r) \/ Remedied(r)
      PROVE  GuardianInv'
    BY <1>5, UpsertKept, SubmitKept, DroppedKept, ReceiptKept, RemediedKept
<1>6. ASSUME NEW r \in Run, Finish(r) \/ SavesPath(r) \/ Says(r) \/ Closes(r)
      PROVE  GuardianInv'
    BY <1>6, FinishKept, SavesPathKept, SaysKept, ClosesKept
<1>7. ASSUME NEW r \in Run, Stops(r) PROVE GuardianInv'
    BY <1>7, GivesUp DEF Stops
<1> QED BY <1>1, <1>2, <1>3, <1>4, <1>5, <1>6, <1>7 DEF GuardianNext

(* Whatever the invariant allows is one outcome and one issue: nothing is  *)
(* confirmed beside an issue, for an issue condemns the record.            *)
LEMMA InvReports == GuardianInv => ReportedOnce
<1> SUFFICES ASSUME GuardianInv PROVE ReportedOnce
    OBVIOUS
<1>1. doc.status \in Open \cup {"verifying"} \cup Recorded \cup Terminal /\ issues \in Nat
    BY DEF GuardianInv, GuardianTypes, Doc, Status, Open
<1>2. Heard(doc, confirmed, replies) /\ Filed
    BY DEF GuardianInv
<1>3. replies = {} \/ \E o \in Terminal : replies = {o}
    <2>1. CASE doc.status \in Recorded
        <3>1. OutcomeOf(doc.status) \in Terminal
            BY <2>1 DEF OutcomeOf, Terminal, Recorded
        <3> QED BY <1>2, <2>1, <3>1 DEF Heard
    <2>2. CASE doc.status \notin Recorded
        BY <1>1, <1>2, <2>2 DEF Heard
    <2> QED BY <2>1, <2>2
<1>4. Cardinality(replies) <= 1
    <2>1. Cardinality({}) = 0 /\ \A o \in Terminal : Cardinality({o}) = 1
        BY FS_EmptySet, FS_Singleton
    <2> QED BY <1>3, <2>1
<1>5. "confirmed" \in replies => confirmed /\ issues = 0
    <2>1. "confirmed" \in replies => doc.status \in {"confirmation-recorded", "confirmed"}
        BY <1>1, <1>2 DEF Heard, OutcomeOf, Recorded
    <2>2. "confirmed" \in replies => ~Condemned(doc, kind)
        BY <2>1 DEF Condemned, Failing
    <2> QED BY <1>1, <1>2, <2>2 DEF Heard, Filed
<1> QED BY <1>1, <1>2, <1>4, <1>5 DEF ReportedOnce, OneOutcome, OneIssue, Heard, Filed

(* The record, the runs and the ledger keep their types: no counter of a   *)
(* conversation outgrows its bound, however runs overlap.                  *)
THEOREM GuardianTyped == GuardianSpec => []GuardianTypes
<1>1. GuardianInv => GuardianTypes
    BY DEF GuardianInv
<1> QED BY <1>1, GuardianStarts, GuardianMoves, PTL DEF GuardianSpec

(* The thread hears one outcome, that of the record, whatever runs overlap *)
(* or stop, and never a confirmation beside an issue; and a defect is      *)
(* submitted once, when nobody knows what became of the first submission,  *)
(* too.                                                                    *)
THEOREM ReportsOnce == GuardianSpec => []ReportedOnce
<1>1. GuardianSpec => []GuardianInv
    BY GuardianStarts, GuardianMoves, PTL DEF GuardianSpec
<1> QED BY <1>1, InvReports, PTL

-----------------------------------------------------------------------------
(***************************************************************************)
(* Orphans.  The worker of an issue is that of its row, and only a sweep   *)
(* deletes the row: when it does, no worker is online, and nobody who has  *)
(* the run may start one.                                                  *)
(***************************************************************************)

RunnerStage == {"none", "attempt", "spawn", "mark", "run", "running", "exiting", "release",
                "complete"}
Runner == [at : RunnerStage, run : 0..MaxOrphanRuns, epoch : Nat]
SweepStage == {"idle", "context", "status", "pull", "adopt", "row", "roster", "fence", "release",
               "clear", "ready", "attempts"}
SweepPass == [at : SweepStage, by : Peer \cup {NoPeer}, roster : SUBSET (0..MaxOrphanRuns),
              row : RunRow, read : SUBSET {"roster", "rows"},
              status : {"ready", "progress", "review"}, epoch : Nat]

\* An old version's worker is there before any dispatch, and every sweep that
\* has read the roster knows of it.
OldAlone ==
    0 \in online =>
        /\ runRow.run = 0 /\ sweep.row.run = 0 /\ surface = "progress" /\ stale = "progress"
        /\ \A p \in Peer : runner[p].at = "none"
        /\ sweep.at \in {"idle", "context", "status", "pull", "adopt"}
        /\ sweep.at \in {"status", "pull", "adopt"} \/ "roster" \in sweep.read
             => 0 \in sweep.roster

\* The worker is that of the row.
OneRun == online \subseteq {runRow.run}

\* A row is that of a run that was dispatched, and else there is none.
RowSound(r) ==
    /\ r.run <= dispatched
    /\ r.run = 0 => r = NoRow
    /\ r.run # 0 => r.epoch # 0 /\ r.phase # "none"

RowsSound == RowSound(runRow) /\ RowSound(sweep.row)

\* Nobody works under an epoch that the row has not reached, and nobody owns a
\* row that has ended.
RunnersBehind ==
    \A p \in Peer :
        /\ runner[p].run <= dispatched
        /\ runRow.run # 0 /\ runner[p].run = runRow.run => runner[p].epoch <= runRow.epoch
        /\ runRow.phase \in EndedPhases => ~Fenced(p)

\* What the sweep knows of the row holds until it has deleted the row: only the
\* sweep deletes it.
RowKnown ==
    sweep.row.run # 0 /\ sweep.at \notin {"ready", "attempts"} =>
        /\ runRow.run = sweep.row.run
        /\ sweep.row.phase \in EndedPhases => runRow.phase \in EndedPhases
        /\ sweep.at # "context" /\ sweep.row.phase \notin EndedPhases =>
             runner[sweep.by].at \notin {"attempt", "spawn"}

SweepStands ==
    /\ sweep.at = "idle" => sweep = NoSweep
    /\ sweep.at # "idle" => sweep.by \in Peer
    /\ sweep.at \in {"row", "roster", "fence", "release", "clear"} => sweep.row.run # 0
    /\ sweep.at \notin {"release", "clear", "ready", "attempts"} => sweep.epoch = 0
    /\ sweep.at = "fence" => sweep.row.phase \notin EndedPhases
    /\ sweep.at \in {"release", "clear"} =>
         (sweep.epoch = 0 <=> sweep.row.phase \in EndedPhases)

\* When the row is about to be deleted, nobody can start a worker on it.
Cleared ==
    sweep.at = "clear" =>
        online = {} /\ (sweep.epoch # 0 => Held \/ runRow.phase \in EndedPhases)

OrphanInv == OrphanTypes /\ OldAlone /\ OneRun /\ RowsSound /\ RunnersBehind /\ RowKnown
               /\ SweepStands /\ Cleared

-----------------------------------------------------------------------------
(* Lemmas about the fields *)

LEMMA OrphanTyping ==
  OrphanTypes <=>
    /\ surface \in {"ready", "progress", "review"} /\ stale \in {"ready", "progress", "review"}
    /\ pull \in {"none", "open", "foreign"} /\ runRow \in RunRow
    /\ online \subseteq 0..MaxOrphanRuns
    /\ runner \in [Peer -> Runner]
    /\ attempts \in {"idle", "inFlight", "terminal"}
    /\ sweep \in SweepPass
    /\ dispatched \in 0..MaxOrphanRuns /\ exits \in 0..MaxOrphanExits
    /\ pulls \in 0..MaxOrphanPulls /\ orphanFaults \in 0..MaxOrphanFaults
  BY DEF OrphanTypes, Runner, RunnerStage, SweepPass, SweepStage

LEMMA RunnerFields ==
  ASSUME NEW r \in Runner
  PROVE  r.at \in RunnerStage /\ r.run \in 0..MaxOrphanRuns /\ r.epoch \in Nat
  BY DEF Runner

LEMMA RunnerAt ==
  ASSUME NEW r \in Runner, NEW s \in RunnerStage
  PROVE  LET q == [r EXCEPT !.at = s] IN
         q \in Runner /\ q.at = s /\ q.run = r.run /\ q.epoch = r.epoch
  BY DEF Runner

\* Who goes on keeps its run and its epoch.
MovedTo(p, s) ==
    /\ runner' \in [Peer -> Runner]
    /\ \A q \in Peer : /\ runner'[q].run = runner[q].run
                       /\ runner'[q].epoch = runner[q].epoch
                       /\ runner'[q].at = IF q = p THEN s ELSE runner[q].at

LEMMA RunnerMoves ==
  ASSUME NEW p \in Peer, NEW s \in RunnerStage, OrphanTypes, MovesOn(p, s)
  PROVE  MovedTo(p, s)
<1>1. runner \in [Peer -> Runner] /\ runner[p] \in Runner
  BY OrphanTyping
<1>2. runner' = [runner EXCEPT ![p] = [runner[p] EXCEPT !.at = s]]
  BY <1>1 DEF MovesOn
<1> QED  BY <1>1, <1>2, RunnerAt DEF MovedTo

\* Who leaves has no run any more.
FreeNow(p) ==
    /\ runner' \in [Peer -> Runner]
    /\ \A q \in Peer : q # p => runner'[q] = runner[q]
    /\ runner'[p].run = 0 /\ runner'[p].at = "none" /\ runner'[p].epoch = 0

LEMMA RunnerLeaves ==
  ASSUME NEW p \in Peer, OrphanTypes, Leaves(p)
  PROVE  FreeNow(p)
<1>1. runner \in [Peer -> Runner] /\ NoWork \in Runner
  BY OrphanTyping, OrphanAssumption DEF NoWork, Runner, RunnerStage
<1> QED  BY <1>1 DEF Leaves, NoWork, FreeNow

LEMMA RunRowFields ==
  ASSUME NEW r \in RunRow
  PROVE  r.run \in 0..MaxOrphanRuns /\ r.epoch \in Nat /\ r.valid \in BOOLEAN
  BY DEF RunRow

LEMMA RowEnds ==
  ASSUME OrphanTypes, NEW f \in EndedPhases
  PROVE  /\ Ended(f) \in RunRow /\ Ended(f).run = runRow.run /\ Ended(f).epoch = runRow.epoch
         /\ Ended(f).owner = runRow.owner /\ Ended(f).phase = f /\ Ended(f).valid = FALSE
  BY DEF OrphanTypes, RunRow, Ended

LEMMA RowTaken ==
  ASSUME OrphanTypes, NEW p \in Peer
  PROVE  /\ Taken(p) \in RunRow /\ Taken(p).run = runRow.run
         /\ Taken(p).epoch = NextEpoch(p) /\ Taken(p).owner = p
         /\ Taken(p).phase = runRow.phase /\ Taken(p).valid = TRUE
         /\ NextEpoch(p) \in Nat /\ NextEpoch(p) >= runRow.epoch
<1>1. runRow \in RunRow /\ NextEpoch(p) \in Nat /\ NextEpoch(p) >= runRow.epoch
  BY DEF OrphanTypes, RunRow, NextEpoch
<1> QED  BY <1>1 DEF RunRow, Taken

LEMMA RowLapses ==
  ASSUME OrphanTypes
  PROVE  /\ Lapsed \in RunRow /\ Lapsed.run = runRow.run /\ Lapsed.epoch = runRow.epoch
         /\ Lapsed.owner = runRow.owner /\ Lapsed.phase = runRow.phase
         /\ Lapsed.valid = FALSE
  BY DEF OrphanTypes, RunRow, Lapsed

LEMMA OrphanFields ==
  ASSUME OrphanInv
  PROVE  /\ runRow \in RunRow /\ runner \in [Peer -> Runner] /\ sweep \in SweepPass
         /\ sweep.row \in RunRow /\ sweep.at \in SweepStage /\ sweep.epoch \in Nat
         /\ online \subseteq 0..MaxOrphanRuns /\ dispatched \in 0..MaxOrphanRuns
         /\ runRow.run \in 0..MaxOrphanRuns /\ runRow.epoch \in Nat
         /\ \A q \in Peer : runner[q].run \in 0..MaxOrphanRuns /\ runner[q].epoch \in Nat
<1>1. /\ runRow \in RunRow /\ runner \in [Peer -> Runner] /\ sweep \in SweepPass
      /\ dispatched \in 0..MaxOrphanRuns /\ online \subseteq 0..MaxOrphanRuns
  BY OrphanTyping DEF OrphanInv
<1>2. sweep.row \in RunRow /\ sweep.at \in SweepStage /\ sweep.epoch \in Nat
  BY <1>1 DEF SweepPass
<1> QED  BY <1>1, <1>2, RunRowFields, RunnerFields

\* A sweep that goes on keeps what it knows.
WentOn(s) ==
    /\ sweep' \in SweepPass /\ sweep'.at = s /\ sweep'.by = sweep.by
    /\ sweep'.roster = sweep.roster /\ sweep'.row = sweep.row /\ sweep'.read = sweep.read
    /\ sweep'.epoch = sweep.epoch

LEMMA SweepGoes ==
  ASSUME OrphanTypes, NEW s \in SweepStage, Continue(s)
  PROVE  WentOn(s)
<1>1. sweep \in SweepPass  BY OrphanTyping
<1> QED  BY <1>1 DEF Continue, SweepPass, WentOn

LEMMA NoSweepStands ==
  /\ NoSweep \in SweepPass /\ NoSweep.at = "idle" /\ NoSweep.row = NoRow /\ NoSweep.roster = {}
  /\ NoSweep.read = {} /\ NoSweep.epoch = 0 /\ NoRow \in RunRow /\ NoRow.run = 0
  /\ NoRow.epoch = 0 /\ NoRow.valid = FALSE /\ NoRow.phase = "none"
  BY OrphanAssumption DEF NoSweep, SweepPass, SweepStage, NoRow, RunRow

-----------------------------------------------------------------------------
(* The invariant of the recovery is inductive, one action at a time *)

LEMMA DispatchKeeps ==
  ASSUME NEW p \in Peer, OrphanInv, Dispatch(p)
  PROVE  OrphanInv'
<1>1. OrphanTypes'
  BY OrphanAssumption DEF OrphanInv, OrphanTypes, RunRow, Dispatch, Issue
<1>2. OldAlone' /\ OneRun' /\ RowsSound' /\ RunnersBehind' /\ RowKnown' /\ SweepStands' /\ Cleared'
  BY DEF OrphanInv, OldAlone, OneRun, RowsSound, RunnersBehind, RowKnown, SweepStands, Cleared,
         RowSound, Dispatch, NoRow, RunRow, OrphanTypes, EndedPhases
<1> QED  BY <1>1, <1>2 DEF OrphanInv

LEMMA MarkIssueKeeps ==
  ASSUME NEW p \in Peer, OrphanInv, MarkIssue(p)
  PROVE  OrphanInv'
<1>1. OrphanTypes'
  BY DEF OrphanInv, OrphanTypes, MarkIssue, MovesOn, Becomes, Budgets
<1>2. OldAlone' /\ OneRun' /\ RowsSound' /\ RunnersBehind' /\ RowKnown' /\ SweepStands' /\ Cleared'
  BY DEF OrphanInv, OldAlone, OneRun, RowsSound, RunnersBehind, RowKnown, SweepStands, Cleared,
         RowSound, MarkIssue, IsAt, MovesOn, Budgets, Fenced, Held
<1> QED  BY <1>1, <1>2 DEF OrphanInv

LEMMA ProceedKeeps ==
  ASSUME NEW p \in Peer, OrphanInv, Proceed(p)
  PROVE  OrphanInv'
<1>1. OrphanTypes'
  BY OrphanAssumption
     DEF OrphanInv, OrphanTypes, RunRow, Proceed, MovesOn, Leaves, Issue, Budgets, NoWork
<1>2. OldAlone' /\ OneRun' /\ RowsSound' /\ RunnersBehind' /\ RowKnown' /\ SweepStands' /\ Cleared'
  BY DEF OrphanInv, OldAlone, OneRun, RowsSound, RunnersBehind, RowKnown, SweepStands, Cleared,
         RowSound, Proceed, IsAt, Fenced, MovesOn, Leaves, Budgets, NoWork, NoRow, RunRow,
         OrphanTypes, EndedPhases, NoSweep, Held
<1> QED  BY <1>1, <1>2 DEF OrphanInv

LEMMA ExitNoticedKeeps ==
  ASSUME NEW p \in Peer, OrphanInv, ExitNoticed(p)
  PROVE  OrphanInv'
<1>1. OrphanTypes'
  BY DEF OrphanInv, OrphanTypes, ExitNoticed, MovesOn, Issue, Budgets
<1>2. OldAlone' /\ OneRun' /\ RowsSound' /\ RunnersBehind' /\ RowKnown' /\ SweepStands' /\ Cleared'
  BY DEF OrphanInv, OldAlone, OneRun, RowsSound, RunnersBehind, RowKnown, SweepStands, Cleared,
         RowSound, ExitNoticed, IsAt, MovesOn, Budgets, Fenced, Held
<1> QED  BY <1>1, <1>2 DEF OrphanInv

LEMMA CompleteKeeps ==
  ASSUME NEW p \in Peer, OrphanInv, Complete(p)
  PROVE  OrphanInv'
<1>1. OrphanTypes'
  BY DEF OrphanInv, OrphanTypes, Complete, Becomes, MovesOn, Budgets
<1>2. OldAlone' /\ OneRun' /\ RowsSound' /\ RunnersBehind' /\ RowKnown' /\ SweepStands' /\ Cleared'
  BY DEF OrphanInv, OldAlone, OneRun, RowsSound, RunnersBehind, RowKnown, SweepStands, Cleared,
         RowSound, Complete, IsAt, MovesOn, Budgets, Held
<1> QED  BY <1>1, <1>2 DEF OrphanInv

LEMMA BeginKeeps ==
  ASSUME NEW p \in Peer, OrphanInv, Begin(p)
  PROVE  OrphanInv'
<1>1. OrphanTypes'
  BY DEF OrphanInv, OrphanTypes, Begin, Sweeps, Dispatches, Issue, Budgets, SweepStands
<1>2. OldAlone' /\ OneRun' /\ RowsSound' /\ RunnersBehind' /\ RowKnown' /\ SweepStands' /\ Cleared'
  BY DEF OrphanInv, OldAlone, OneRun, RowsSound, RunnersBehind, RowKnown, SweepStands, Cleared,
         RowSound, Begin, Sweeps, Dispatches, Issue, Budgets, Fenced
<1> QED  BY <1>1, <1>2 DEF OrphanInv

LEMMA CrashKeeps ==
  ASSUME NEW p \in Peer, OrphanInv, Crash(p)
  PROVE  OrphanInv'
<1>1. OrphanTypes'
  BY OrphanAssumption
     DEF OrphanInv, OrphanTypes, RunRow, Crash, NoWork, Fault, Leaves, NoSweep, Issue, NoRow
<1>2. OldAlone' /\ OneRun' /\ RowsSound' /\ RunnersBehind' /\ RowKnown' /\ SweepStands' /\ Cleared'
  BY DEF OrphanInv, OldAlone, OneRun, RowsSound, RunnersBehind, RowKnown, SweepStands, Cleared,
         RowSound, Crash, NoWork, Fault, Leaves, NoSweep, Issue, NoRow, OrphanTypes, Fenced, Held
<1> QED  BY <1>1, <1>2 DEF OrphanInv

LEMMA ExitsKeeps ==
  ASSUME NEW r \in 0..MaxOrphanRuns, OrphanInv, Exits(r)
  PROVE  OrphanInv'
<1>1. OrphanTypes'
  BY OrphanAssumption DEF OrphanInv, OrphanTypes, Exits, Issue
<1>2. OldAlone' /\ OneRun' /\ RowsSound' /\ RunnersBehind' /\ RowKnown' /\ SweepStands' /\ Cleared'
  BY DEF OrphanInv, OldAlone, OneRun, RowsSound, RunnersBehind, RowKnown, SweepStands, Cleared,
         RowSound, Exits, NoRow, Fenced, NoSweep
<1> QED  BY <1>1, <1>2 DEF OrphanInv

LEMMA PullClosesKeeps ==
  ASSUME OrphanInv, PullCloses
  PROVE  OrphanInv'
<1>1. OrphanTypes'
  BY DEF OrphanInv, OrphanTypes, PullCloses, Budgets
<1>2. OldAlone' /\ OneRun' /\ RowsSound' /\ RunnersBehind' /\ RowKnown' /\ SweepStands' /\ Cleared'
  BY DEF OrphanInv, OldAlone, OneRun, RowsSound, RunnersBehind, RowKnown, SweepStands, Cleared,
         RowSound, PullCloses, Budgets, Fenced, Held
<1> QED  BY <1>1, <1>2 DEF OrphanInv

LEMMA LegacyEndsKeeps ==
  ASSUME OrphanInv, LegacyEnds
  PROVE  OrphanInv'
<1>1. OrphanTypes'
  BY DEF OrphanInv, OrphanTypes, LegacyEnds, Issue, Budgets
<1>2. OldAlone' /\ OneRun' /\ RowsSound' /\ RunnersBehind' /\ RowKnown' /\ SweepStands' /\ Cleared'
  BY DEF OrphanInv, OldAlone, OneRun, RowsSound, RunnersBehind, RowKnown, SweepStands, Cleared,
         RowSound, LegacyEnds, Budgets, NoRow, EndedPhases
<1> QED  BY <1>1, <1>2 DEF OrphanInv

LEMMA MountSyncsKeeps ==
  ASSUME OrphanInv, MountSyncs
  PROVE  OrphanInv'
<1>1. OrphanTypes'
  BY DEF OrphanInv, OrphanTypes, MountSyncs, Budgets
<1>2. OldAlone' /\ OneRun' /\ RowsSound' /\ RunnersBehind' /\ RowKnown' /\ SweepStands' /\ Cleared'
  BY DEF OrphanInv, OldAlone, OneRun, RowsSound, RunnersBehind, RowKnown, SweepStands, Cleared,
         RowSound, MountSyncs, Budgets, Fenced, Held
<1> QED  BY <1>1, <1>2 DEF OrphanInv

LEMMA ReadyKeeps ==
  ASSUME OrphanInv, Ready
  PROVE  OrphanInv'
<1>1. OrphanTypes'
  BY DEF OrphanInv, OrphanTypes, Ready, Continue, Becomes, Dispatches, Budgets
<1>2. OldAlone' /\ OneRun' /\ RowsSound' /\ RunnersBehind' /\ RowKnown' /\ SweepStands' /\ Cleared'
  BY DEF OrphanInv, OldAlone, OneRun, RowsSound, RunnersBehind, RowKnown, SweepStands, Cleared,
         RowSound, Ready, Sweeps, Continue, Dispatches, Budgets, Fenced
<1> QED  BY <1>1, <1>2 DEF OrphanInv

LEMMA ForgetAttemptsKeeps ==
  ASSUME OrphanInv, ForgetAttempts
  PROVE  OrphanInv'
<1>1. OrphanTypes'
  BY OrphanAssumption
     DEF OrphanInv, OrphanTypes, RunRow, ForgetAttempts, Preserve, Dispatches, Issue,
         Budgets, NoSweep, NoRow
<1>2. OldAlone' /\ OneRun' /\ RowsSound' /\ RunnersBehind' /\ RowKnown' /\ SweepStands' /\ Cleared'
  BY DEF OrphanInv, OldAlone, OneRun, RowsSound, RunnersBehind, RowKnown, SweepStands, Cleared,
         RowSound, ForgetAttempts, Sweeps, Preserve, Dispatches, Budgets, NoSweep, NoRow,
         OrphanTypes, Fenced
<1> QED  BY <1>1, <1>2 DEF OrphanInv

LEMMA ClearKeeps ==
  ASSUME OrphanInv, Clear
  PROVE  OrphanInv'
<1>1. OrphanTypes'
  BY OrphanAssumption
     DEF OrphanInv, OrphanTypes, RunRow, Clear, Sweeps, Continue, NoRow, NoWork, Issue,
         Budgets, SweepStands
<1>2. OldAlone' /\ OneRun' /\ RowsSound' /\ RunnersBehind' /\ RowKnown' /\ SweepStands' /\ Cleared'
  BY DEF OrphanInv, OldAlone, OneRun, RowsSound, RunnersBehind, RowKnown, SweepStands, Cleared,
         RowSound, Clear, Sweeps, Continue, NoRow, NoWork, Budgets, OrphanTypes, EndedPhases
<1> QED  BY <1>1, <1>2 DEF OrphanInv

LEMMA PublishesKeeps ==
  ASSUME NEW r \in 0..MaxOrphanRuns, OrphanInv, Publishes(r)
  PROVE  OrphanInv'
<1>1. OrphanTypes'
  BY OrphanAssumption DEF OrphanInv, OrphanTypes, Publishes
<1>2. OldAlone' /\ OneRun' /\ RowsSound' /\ RunnersBehind' /\ RowKnown' /\ SweepStands' /\ Cleared'
  BY DEF OrphanInv, OldAlone, OneRun, RowsSound, RunnersBehind, RowKnown, SweepStands, Cleared,
         RowSound, Publishes, Fenced
<1> QED  BY <1>1, <1>2 DEF OrphanInv

LEMMA RecordAttemptKeeps ==
  ASSUME NEW p \in Peer, OrphanInv, RecordAttempt(p)
  PROVE  OrphanInv'
<1>1. OrphanTypes'
  BY DEF OrphanInv, OrphanTypes, RecordAttempt, MovesOn, Issue, Budgets
<1>2. OldAlone' /\ OneRun' /\ RowsSound' /\ RunnersBehind' /\ RowKnown' /\ SweepStands' /\ Cleared'
  BY DEF OrphanInv, OldAlone, OneRun, RowsSound, RunnersBehind, RowKnown, SweepStands, Cleared,
         RowSound, RecordAttempt, IsAt, MovesOn, Budgets, Fenced, Held
<1> QED  BY <1>1, <1>2 DEF OrphanInv

LEMMA SpawnKeeps ==
  ASSUME NEW p \in Peer, OrphanInv, Spawn(p)
  PROVE  OrphanInv'
<1>1. ASSUME MovesOn(p, "mark") /\ UNCHANGED <<runRow, sweep, surface, stale, dispatched>>
             /\ Fenced(p)
             /\ online' = online \cup {runner[p].run} /\ "ready" \in {surface, stale}
             /\ IsAt(p, "spawn")
     PROVE  OrphanInv'
<2>1. MovedTo(p, "mark")
  BY <1>1, RunnerMoves DEF OrphanInv, RunnerStage
<2>2. online' \subseteq 0..MaxOrphanRuns /\ runRow' \in RunRow
  BY OrphanFields, <1>1
<2>3. runner' \in [Peer -> Runner] /\ sweep' \in SweepPass
  BY OrphanFields, <1>1, <2>1 DEF MovedTo
<2>4. OrphanTypes'
  BY <2>2, <2>3 DEF OrphanInv, OrphanTypes, Spawn, Budgets, Issue, Runner, RunnerStage
<2>5. OldAlone' /\ OneRun' /\ RowsSound' /\ RunnersBehind' /\ RowKnown' /\ SweepStands' /\ Cleared'
  BY NoSweepStands, <1>1, <2>1
     DEF OrphanInv, OldAlone, OneRun, RowsSound, RunnersBehind, RowKnown, SweepStands,
         Cleared, RowSound, Fenced, IsAt, MovedTo, Held
<2> QED  BY <2>4, <2>5 DEF OrphanInv
<1>2. ASSUME Leaves(p) /\ Fenced(p) /\ UNCHANGED <<online, sweep, surface, stale, dispatched>>
             /\ IsAt(p, "spawn")
             /\ runRow' = Ended("abandoned")
     PROVE  OrphanInv'
<2>1. FreeNow(p)
  BY <1>2, RunnerLeaves DEF OrphanInv
<2>2. /\ runRow' \in RunRow /\ runRow'.run = runRow.run /\ runRow'.epoch = runRow.epoch
      /\ runRow'.owner = runRow.owner /\ runRow'.phase = "abandoned" /\ runRow'.valid = FALSE
  BY <1>2, RowEnds DEF OrphanInv, EndedPhases
<2>3. online' \subseteq 0..MaxOrphanRuns /\ runRow' \in RunRow
  BY OrphanFields, <1>2, <2>2
<2>4. runner' \in [Peer -> Runner] /\ sweep' \in SweepPass
  BY OrphanFields, <1>2, <2>1 DEF FreeNow
<2>5. OrphanTypes'
  BY <2>3, <2>4 DEF OrphanInv, OrphanTypes, Spawn, Budgets, Issue, Runner, RunnerStage
<2>6. OldAlone' /\ OneRun' /\ RowsSound' /\ RunnersBehind' /\ RowKnown' /\ SweepStands' /\ Cleared'
  BY OrphanFields, NoSweepStands, <1>2, <2>1, <2>2
     DEF OrphanInv, OldAlone, OneRun, RowsSound, RunnersBehind, RowKnown, SweepStands,
         Cleared, RowSound, Fenced, FreeNow, EndedPhases
<2> QED  BY <2>5, <2>6 DEF OrphanInv
<1>3. ASSUME Leaves(p) /\ UNCHANGED <<runRow, online, sweep, surface, stale, dispatched>>
     PROVE  OrphanInv'
<2>1. FreeNow(p)
  BY <1>3, RunnerLeaves DEF OrphanInv
<2>2. online' \subseteq 0..MaxOrphanRuns /\ runRow' \in RunRow
  BY OrphanFields, <1>3
<2>3. runner' \in [Peer -> Runner] /\ sweep' \in SweepPass
  BY OrphanFields, <1>3, <2>1 DEF FreeNow
<2>4. OrphanTypes'
  BY <2>2, <2>3 DEF OrphanInv, OrphanTypes, Spawn, Budgets, Issue, Runner, RunnerStage
<2>5. OldAlone' /\ OneRun' /\ RowsSound' /\ RunnersBehind' /\ RowKnown' /\ SweepStands' /\ Cleared'
  BY OrphanFields, NoSweepStands, <1>3, <2>1
     DEF OrphanInv, OldAlone, OneRun, RowsSound, RunnersBehind, RowKnown, SweepStands,
         Cleared, RowSound, FreeNow, Fenced, Held
<2> QED  BY <2>4, <2>5 DEF OrphanInv
<1> QED
  BY <1>1, <1>2, <1>3 DEF Spawn, Budgets, Issue

LEMMA RecoverKeeps ==
  ASSUME NEW p \in Peer, ~RecoveryRaces, OrphanInv, Recover(p)
  PROVE  OrphanInv'
<1>1. ASSUME MovesOn(p, "running") /\ UNCHANGED <<runRow, sweep, surface, stale, dispatched>>
             /\ Fenced(p)
             /\ online' = online \cup {runner[p].run} /\ sweep.by # p /\ IsAt(p, "exiting")
     PROVE  OrphanInv'
<2>1. MovedTo(p, "running")
  BY <1>1, RunnerMoves DEF OrphanInv, RunnerStage
<2>2. online' \subseteq 0..MaxOrphanRuns /\ runRow' \in RunRow
  BY OrphanFields, <1>1
<2>3. runner' \in [Peer -> Runner] /\ sweep' \in SweepPass
  BY OrphanFields, <1>1, <2>1 DEF MovedTo
<2>4. OrphanTypes'
  BY <2>2, <2>3 DEF OrphanInv, OrphanTypes, Recover, Budgets, Issue, Runner, RunnerStage
<2>5. OldAlone' /\ OneRun' /\ RowsSound' /\ RunnersBehind' /\ RowKnown' /\ SweepStands' /\ Cleared'
  BY NoSweepStands, <1>1, <2>1
     DEF OrphanInv, OldAlone, OneRun, RowsSound, RunnersBehind, RowKnown, SweepStands,
         Cleared, RowSound, Fenced, MovedTo, Held
<2> QED  BY <2>4, <2>5 DEF OrphanInv
<1>2. ASSUME Leaves(p) /\ Fenced(p) /\ UNCHANGED <<online, sweep, surface, stale, dispatched>>
             /\ IsAt(p, "exiting")
             /\ runRow' = Ended("abandoned")
     PROVE  OrphanInv'
<2>1. FreeNow(p)
  BY <1>2, RunnerLeaves DEF OrphanInv
<2>2. /\ runRow' \in RunRow /\ runRow'.run = runRow.run /\ runRow'.epoch = runRow.epoch
      /\ runRow'.owner = runRow.owner /\ runRow'.phase = "abandoned" /\ runRow'.valid = FALSE
  BY <1>2, RowEnds DEF OrphanInv, EndedPhases
<2>3. online' \subseteq 0..MaxOrphanRuns /\ runRow' \in RunRow
  BY OrphanFields, <1>2, <2>2
<2>4. runner' \in [Peer -> Runner] /\ sweep' \in SweepPass
  BY OrphanFields, <1>2, <2>1 DEF FreeNow
<2>5. OrphanTypes'
  BY <2>3, <2>4 DEF OrphanInv, OrphanTypes, Recover, Budgets, Issue, Runner, RunnerStage
<2>6. OldAlone' /\ OneRun' /\ RowsSound' /\ RunnersBehind' /\ RowKnown' /\ SweepStands' /\ Cleared'
  BY OrphanFields, NoSweepStands, <1>2, <2>1, <2>2
     DEF OrphanInv, OldAlone, OneRun, RowsSound, RunnersBehind, RowKnown, SweepStands,
         Cleared, RowSound, Fenced, FreeNow, EndedPhases
<2> QED  BY <2>5, <2>6 DEF OrphanInv
<1>3. ASSUME Leaves(p) /\ UNCHANGED <<runRow, online, sweep, surface, stale, dispatched>>
     PROVE  OrphanInv'
<2>1. FreeNow(p)
  BY <1>3, RunnerLeaves DEF OrphanInv
<2>2. online' \subseteq 0..MaxOrphanRuns /\ runRow' \in RunRow
  BY OrphanFields, <1>3
<2>3. runner' \in [Peer -> Runner] /\ sweep' \in SweepPass
  BY OrphanFields, <1>3, <2>1 DEF FreeNow
<2>4. OrphanTypes'
  BY <2>2, <2>3 DEF OrphanInv, OrphanTypes, Recover, Budgets, Issue, Runner, RunnerStage
<2>5. OldAlone' /\ OneRun' /\ RowsSound' /\ RunnersBehind' /\ RowKnown' /\ SweepStands' /\ Cleared'
  BY OrphanFields, NoSweepStands, <1>3, <2>1
     DEF OrphanInv, OldAlone, OneRun, RowsSound, RunnersBehind, RowKnown, SweepStands,
         Cleared, RowSound, FreeNow, Fenced, Held
<2> QED  BY <2>4, <2>5 DEF OrphanInv
<1> QED
  BY <1>1, <1>2, <1>3 DEF Recover, Budgets, Issue

LEMMA ReleaseKeeps ==
  ASSUME NEW p \in Peer, OrphanInv, Release(p)
  PROVE  OrphanInv'
<1>1. ASSUME MovesOn(p, "complete") /\ UNCHANGED <<runRow, sweep, surface, stale, dispatched>>
             /\ online' = online \ {runner[p].run} /\ IsAt(p, "release")
     PROVE  OrphanInv'
<2>1. MovedTo(p, "complete")
  BY <1>1, RunnerMoves DEF OrphanInv, RunnerStage
<2>2. online' \subseteq 0..MaxOrphanRuns /\ runRow' \in RunRow
  BY OrphanFields, <1>1
<2>3. runner' \in [Peer -> Runner] /\ sweep' \in SweepPass
  BY OrphanFields, <1>1, <2>1 DEF MovedTo
<2>4. OrphanTypes'
  BY <2>2, <2>3 DEF OrphanInv, OrphanTypes, Release, Budgets, Issue, Runner, RunnerStage
<2>5. OldAlone' /\ OneRun' /\ RowsSound' /\ RunnersBehind' /\ RowKnown' /\ SweepStands' /\ Cleared'
  BY NoSweepStands, <1>1, <2>1
     DEF OrphanInv, OldAlone, OneRun, RowsSound, RunnersBehind, RowKnown, SweepStands,
         Cleared, RowSound, IsAt, MovedTo, Fenced, Held
<2> QED  BY <2>4, <2>5 DEF OrphanInv
<1>2. ASSUME Leaves(p) /\ Fenced(p) /\ UNCHANGED <<online, sweep, surface, stale, dispatched>>
             /\ IsAt(p, "complete")
             /\ runRow' = Ended("complete")
     PROVE  OrphanInv'
<2>1. FreeNow(p)
  BY <1>2, RunnerLeaves DEF OrphanInv
<2>2. /\ runRow' \in RunRow /\ runRow'.run = runRow.run /\ runRow'.epoch = runRow.epoch
      /\ runRow'.owner = runRow.owner /\ runRow'.phase = "complete" /\ runRow'.valid = FALSE
  BY <1>2, RowEnds DEF OrphanInv, EndedPhases
<2>3. online' \subseteq 0..MaxOrphanRuns /\ runRow' \in RunRow
  BY OrphanFields, <1>2, <2>2
<2>4. runner' \in [Peer -> Runner] /\ sweep' \in SweepPass
  BY OrphanFields, <1>2, <2>1 DEF FreeNow
<2>5. OrphanTypes'
  BY <2>3, <2>4 DEF OrphanInv, OrphanTypes, Release, Budgets, Issue, Runner, RunnerStage
<2>6. OldAlone' /\ OneRun' /\ RowsSound' /\ RunnersBehind' /\ RowKnown' /\ SweepStands' /\ Cleared'
  BY OrphanFields, NoSweepStands, <1>2, <2>1, <2>2
     DEF OrphanInv, OldAlone, OneRun, RowsSound, RunnersBehind, RowKnown, SweepStands,
         Cleared, RowSound, Fenced, FreeNow, EndedPhases
<2> QED  BY <2>5, <2>6 DEF OrphanInv
<1>3. ASSUME Leaves(p) /\ UNCHANGED <<runRow, online, sweep, surface, stale, dispatched>>
     PROVE  OrphanInv'
<2>1. FreeNow(p)
  BY <1>3, RunnerLeaves DEF OrphanInv
<2>2. online' \subseteq 0..MaxOrphanRuns /\ runRow' \in RunRow
  BY OrphanFields, <1>3
<2>3. runner' \in [Peer -> Runner] /\ sweep' \in SweepPass
  BY OrphanFields, <1>3, <2>1 DEF FreeNow
<2>4. OrphanTypes'
  BY <2>2, <2>3 DEF OrphanInv, OrphanTypes, Release, Budgets, Issue, Runner, RunnerStage
<2>5. OldAlone' /\ OneRun' /\ RowsSound' /\ RunnersBehind' /\ RowKnown' /\ SweepStands' /\ Cleared'
  BY OrphanFields, NoSweepStands, <1>3, <2>1
     DEF OrphanInv, OldAlone, OneRun, RowsSound, RunnersBehind, RowKnown, SweepStands,
         Cleared, RowSound, FreeNow, Fenced, Held
<2> QED  BY <2>4, <2>5 DEF OrphanInv
<1> QED
  BY <1>1, <1>2, <1>3 DEF Release, Budgets, Issue

LEMMA TakesRunKeeps ==
  ASSUME NEW p \in Peer, OrphanInv, TakesRun(p)
  PROVE  OrphanInv'
<1>1. /\ runRow' \in RunRow /\ runRow'.run = runRow.run /\ runRow'.epoch = NextEpoch(p)
      /\ NextEpoch(p) \in Nat /\ NextEpoch(p) >= runRow.epoch /\ runRow'.owner = p
      /\ runRow'.phase = runRow.phase /\ runRow'.valid = TRUE
  BY RowTaken DEF OrphanInv, TakesRun
<1>2. OrphanTypes'
  BY OrphanFields, <1>1 DEF OrphanInv, OrphanTypes, TakesRun, Budgets, Issue
<1>3. OldAlone' /\ OneRun' /\ RowsSound' /\ RunnersBehind' /\ RowKnown' /\ SweepStands' /\ Cleared'
  BY OrphanFields, NoSweepStands, <1>1
     DEF OrphanInv, OldAlone, OneRun, RowsSound, RunnersBehind, RowKnown, SweepStands,
         Cleared, RowSound, TakesRun, Budgets, EndedPhases, Held
<1> QED  BY <1>2, <1>3 DEF OrphanInv

LEMMA JudgeOrphanKeeps ==
  ASSUME OrphanInv, JudgeOrphan
  PROVE  OrphanInv'
<1>1. ASSUME sweep' = NoSweep /\ UNCHANGED <<runRow, online, runner, surface, stale, dispatched>>
     PROVE  OrphanInv'
<2>1. runner' \in [Peer -> Runner] /\ sweep' \in SweepPass
  BY OrphanFields, NoSweepStands, <1>1
<2>2. OrphanTypes'
  BY <2>1, <1>1 DEF OrphanInv, OrphanTypes, JudgeOrphan, Budgets, Issue, SweepPass, SweepStage
<2>3. OldAlone' /\ OneRun' /\ RowsSound' /\ RunnersBehind' /\ RowKnown' /\ SweepStands' /\ Cleared'
  BY OrphanFields, NoSweepStands, <1>1
     DEF OrphanInv, OldAlone, OneRun, RowsSound, RunnersBehind, RowKnown, SweepStands,
         Cleared, RowSound, Fenced
<2> QED  BY <2>2, <2>3 DEF OrphanInv
<1>2. ASSUME Continue("status") /\ ~Active
             /\ UNCHANGED <<runRow, online, runner, surface, stale, dispatched>>
             /\ Sweeps("context") /\ sweep.read = {"roster", "rows"}
     PROVE  OrphanInv'
<2>1. WentOn("status")
  BY <1>2, SweepGoes DEF OrphanInv, SweepStage
<2>2. runRow.phase \in {"none", "dispatching", "running"} \cup EndedPhases
      /\ sweep.row.phase \in {"none", "dispatching", "running"} \cup EndedPhases
      /\ sweep.row \in RunRow
  BY OrphanFields DEF RunRow
<2>3. sweep.row.run # 0
      /\ sweep.row.phase \notin EndedPhases => runner[sweep.by].at \in {"none", "running"}
  BY <1>2, <2>2 DEF OrphanInv, Active, Busy, RowsSound, RowSound
<2>4. runner' \in [Peer -> Runner] /\ sweep' \in SweepPass
  BY OrphanFields, <1>2, <2>1 DEF WentOn
<2>5. OrphanTypes'
  BY <2>4, <1>2 DEF OrphanInv, OrphanTypes, JudgeOrphan, Budgets, Issue, SweepPass, SweepStage
<2>6. OldAlone' /\ OneRun' /\ RowsSound' /\ RunnersBehind' /\ RowKnown' /\ SweepStands' /\ Cleared'
  BY <1>2, <2>1, <2>3
     DEF OrphanInv, OldAlone, OneRun, RowsSound, RunnersBehind, RowKnown, SweepStands,
         Cleared, RowSound, Sweeps, WentOn, Fenced
<2> QED  BY <2>5, <2>6 DEF OrphanInv
<1> QED
  BY <1>1, <1>2 DEF JudgeOrphan, Budgets, Issue, Dispatches, Preserve

LEMMA ReadStatusKeeps ==
  ASSUME OrphanInv, ReadStatus
  PROVE  OrphanInv'
<1>1. ASSUME sweep' = NoSweep /\ UNCHANGED <<runRow, online, runner, surface, stale, dispatched>>
     PROVE  OrphanInv'
<2>1. runner' \in [Peer -> Runner] /\ sweep' \in SweepPass
  BY OrphanFields, NoSweepStands, <1>1
<2>2. OrphanTypes'
  BY <2>1, <1>1 DEF OrphanInv, OrphanTypes, ReadStatus, Budgets, Issue, SweepPass, SweepStage
<2>3. OldAlone' /\ OneRun' /\ RowsSound' /\ RunnersBehind' /\ RowKnown' /\ SweepStands' /\ Cleared'
  BY OrphanFields, NoSweepStands, <1>1
     DEF OrphanInv, OldAlone, OneRun, RowsSound, RunnersBehind, RowKnown, SweepStands,
         Cleared, RowSound, Fenced
<2> QED  BY <2>2, <2>3 DEF OrphanInv
<1>2. ASSUME Sweeps("status") /\ UNCHANGED <<runRow, online, runner, surface, stale, dispatched>>
             /\ sweep' = [sweep EXCEPT !.at = "pull", !.status = surface]
     PROVE  OrphanInv'
<2>1. WentOn("pull")
  BY <1>2, OrphanTyping DEF OrphanInv, SweepPass, SweepStage, WentOn
<2>2. runner' \in [Peer -> Runner] /\ sweep' \in SweepPass
  BY OrphanFields, <1>2, <2>1 DEF WentOn
<2>3. OrphanTypes'
  BY <2>2, <1>2 DEF OrphanInv, OrphanTypes, ReadStatus, Budgets, Issue, SweepPass, SweepStage
<2>4. OldAlone' /\ OneRun' /\ RowsSound' /\ RunnersBehind' /\ RowKnown' /\ SweepStands' /\ Cleared'
  BY <1>2
     DEF OrphanInv, OldAlone, OneRun, RowsSound, RunnersBehind, RowKnown, SweepStands,
         Cleared, RowSound, Sweeps, Fenced
<2> QED  BY <2>3, <2>4 DEF OrphanInv
<1> QED
  BY <1>1, <1>2 DEF ReadStatus, Budgets, Issue, Dispatches, Preserve

LEMMA ProbeKeeps ==
  ASSUME OrphanInv, Probe
  PROVE  OrphanInv'
<1>1. ASSUME sweep' = NoSweep /\ UNCHANGED <<runRow, online, runner, surface, stale, dispatched>>
     PROVE  OrphanInv'
<2>1. runner' \in [Peer -> Runner] /\ sweep' \in SweepPass
  BY OrphanFields, NoSweepStands, <1>1
<2>2. OrphanTypes'
  BY <2>1, <1>1 DEF OrphanInv, OrphanTypes, Probe, Budgets, Issue, SweepPass, SweepStage
<2>3. OldAlone' /\ OneRun' /\ RowsSound' /\ RunnersBehind' /\ RowKnown' /\ SweepStands' /\ Cleared'
  BY OrphanFields, NoSweepStands, <1>1
     DEF OrphanInv, OldAlone, OneRun, RowsSound, RunnersBehind, RowKnown, SweepStands,
         Cleared, RowSound, Fenced
<2> QED  BY <2>2, <2>3 DEF OrphanInv
<1>2. ASSUME Sweeps("pull") /\ Continue("ready") /\ ~(0 \in sweep.roster /\ sweep.row.run = 0)
             /\ sweep.row.run = 0
             /\ UNCHANGED <<runRow, online, runner, surface, stale, dispatched>>
     PROVE  OrphanInv'
<2>1. WentOn("ready")
  BY <1>2, SweepGoes DEF OrphanInv, SweepStage
<2>2. runner' \in [Peer -> Runner] /\ sweep' \in SweepPass
  BY OrphanFields, <1>2, <2>1 DEF WentOn
<2>3. OrphanTypes'
  BY <2>2, <1>2 DEF OrphanInv, OrphanTypes, Probe, Budgets, Issue, SweepPass, SweepStage
<2>4. OldAlone' /\ OneRun' /\ RowsSound' /\ RunnersBehind' /\ RowKnown' /\ SweepStands' /\ Cleared'
  BY <1>2, <2>1
     DEF OrphanInv, OldAlone, OneRun, RowsSound, RunnersBehind, RowKnown, SweepStands,
         Cleared, RowSound, Sweeps, WentOn, Fenced
<2> QED  BY <2>3, <2>4 DEF OrphanInv
<1>3. ASSUME Sweeps("pull") /\ Continue("row") /\ ~(0 \in sweep.roster /\ sweep.row.run = 0)
             /\ sweep.row.run # 0
             /\ UNCHANGED <<runRow, online, runner, surface, stale, dispatched>>
     PROVE  OrphanInv'
<2>1. WentOn("row")
  BY <1>3, SweepGoes DEF OrphanInv, SweepStage
<2>2. runner' \in [Peer -> Runner] /\ sweep' \in SweepPass
  BY OrphanFields, <1>3, <2>1 DEF WentOn
<2>3. OrphanTypes'
  BY <2>2, <1>3 DEF OrphanInv, OrphanTypes, Probe, Budgets, Issue, SweepPass, SweepStage
<2>4. OldAlone' /\ OneRun' /\ RowsSound' /\ RunnersBehind' /\ RowKnown' /\ SweepStands' /\ Cleared'
  BY <1>3, <2>1
     DEF OrphanInv, OldAlone, OneRun, RowsSound, RunnersBehind, RowKnown, SweepStands,
         Cleared, RowSound, Sweeps, WentOn, Fenced
<2> QED  BY <2>3, <2>4 DEF OrphanInv
<1>4. ASSUME Sweeps("pull") /\ Continue("adopt")
             /\ UNCHANGED <<runRow, online, runner, surface, stale, dispatched>>
     PROVE  OrphanInv'
<2>1. WentOn("adopt")
  BY <1>4, SweepGoes DEF OrphanInv, SweepStage
<2>2. runner' \in [Peer -> Runner] /\ sweep' \in SweepPass
  BY OrphanFields, <1>4, <2>1 DEF WentOn
<2>3. OrphanTypes'
  BY <2>2, <1>4 DEF OrphanInv, OrphanTypes, Probe, Budgets, Issue, SweepPass, SweepStage
<2>4. OldAlone' /\ OneRun' /\ RowsSound' /\ RunnersBehind' /\ RowKnown' /\ SweepStands' /\ Cleared'
  BY <1>4, <2>1
     DEF OrphanInv, OldAlone, OneRun, RowsSound, RunnersBehind, RowKnown, SweepStands,
         Cleared, RowSound, Sweeps, WentOn, Fenced
<2> QED  BY <2>3, <2>4 DEF OrphanInv
<1>5. pull \in {"none", "open", "foreign"} /\ (sweep.row.run = 0 <=> sweep.row = NoRow)
      /\ (runRow.run = 0 <=> runRow = NoRow)
  BY OrphanTyping, NoSweepStands DEF OrphanInv, RowsSound, RowSound
<1> QED
  BY <1>1, <1>2, <1>3, <1>4, <1>5 DEF Probe, Budgets, Issue, Dispatches, Preserve, LegacyTeam

LEMMA GetRowKeeps ==
  ASSUME OrphanInv, GetRow
  PROVE  OrphanInv'
<1>1. ASSUME sweep' = NoSweep /\ UNCHANGED <<runRow, online, runner, surface, stale, dispatched>>
     PROVE  OrphanInv'
<2>1. runner' \in [Peer -> Runner] /\ sweep' \in SweepPass
  BY OrphanFields, NoSweepStands, <1>1
<2>2. OrphanTypes'
  BY <2>1, <1>1 DEF OrphanInv, OrphanTypes, GetRow, Budgets, Issue, SweepPass, SweepStage
<2>3. OldAlone' /\ OneRun' /\ RowsSound' /\ RunnersBehind' /\ RowKnown' /\ SweepStands' /\ Cleared'
  BY OrphanFields, NoSweepStands, <1>1
     DEF OrphanInv, OldAlone, OneRun, RowsSound, RunnersBehind, RowKnown, SweepStands,
         Cleared, RowSound, Fenced
<2> QED  BY <2>2, <2>3 DEF OrphanInv
<1>2. ASSUME Sweeps("row") /\ runRow.run = 0 /\ Continue("ready")
             /\ UNCHANGED <<runRow, online, runner, surface, stale, dispatched>>
     PROVE  OrphanInv'
<2>1. WentOn("ready")
  BY <1>2, SweepGoes DEF OrphanInv, SweepStage
<2>2. runner' \in [Peer -> Runner] /\ sweep' \in SweepPass
  BY OrphanFields, <1>2, <2>1 DEF WentOn
<2>3. OrphanTypes'
  BY <2>2, <1>2 DEF OrphanInv, OrphanTypes, GetRow, Budgets, Issue, SweepPass, SweepStage
<2>4. OldAlone' /\ OneRun' /\ RowsSound' /\ RunnersBehind' /\ RowKnown' /\ SweepStands' /\ Cleared'
  BY <1>2 DEF OrphanInv, RowKnown, SweepStands, Sweeps
<2> QED  BY <2>3, <2>4 DEF OrphanInv
<1>3. ASSUME Sweeps("row") /\ runRow.run = sweep.row.run
             /\ sweep' = [sweep EXCEPT !.at = "roster", !.row = runRow]
             /\ UNCHANGED <<runRow, online, runner, surface, stale, dispatched>>
     PROVE  OrphanInv'
<2>1. sweep' \in SweepPass /\ sweep'.at = "roster" /\ sweep'.by = sweep.by /\ sweep'.row = runRow
      /\ sweep'.epoch = sweep.epoch /\ sweep'.roster = sweep.roster /\ sweep'.read = sweep.read
  BY OrphanFields, <1>3 DEF SweepPass, SweepStage
<2>2. runner' \in [Peer -> Runner] /\ sweep' \in SweepPass
  BY OrphanFields, <1>3, <2>1
<2>3. OrphanTypes'
  BY <2>2, <1>3 DEF OrphanInv, OrphanTypes, GetRow, Budgets, Issue, SweepPass, SweepStage
<2>4. OldAlone' /\ OneRun' /\ RowsSound' /\ RunnersBehind' /\ RowKnown' /\ SweepStands' /\ Cleared'
  BY <1>3
     DEF OrphanInv, OldAlone, OneRun, RowsSound, RunnersBehind, RowKnown, SweepStands,
         Cleared, RowSound, Sweeps, Fenced
<2> QED  BY <2>3, <2>4 DEF OrphanInv
<1>4. pull \in {"none", "open", "foreign"} /\ (sweep.row.run = 0 <=> sweep.row = NoRow)
      /\ (runRow.run = 0 <=> runRow = NoRow)
  BY OrphanTyping, NoSweepStands DEF OrphanInv, RowsSound, RowSound
<1> QED
  BY <1>3, <1>4 DEF OrphanInv, SweepStands, RowKnown, GetRow, Budgets, Issue, Sweeps, Dispatches

LEMMA SecondRosterKeeps ==
  ASSUME OrphanInv, SecondRoster
  PROVE  OrphanInv'
<1>1. ASSUME sweep' = NoSweep /\ UNCHANGED <<runRow, online, runner, surface, stale, dispatched>>
     PROVE  OrphanInv'
<2>1. runner' \in [Peer -> Runner] /\ sweep' \in SweepPass
  BY OrphanFields, NoSweepStands, <1>1
<2>2. OrphanTypes'
  BY <2>1, <1>1 DEF OrphanInv, OrphanTypes, SecondRoster, Budgets, Issue, SweepPass, SweepStage
<2>3. OldAlone' /\ OneRun' /\ RowsSound' /\ RunnersBehind' /\ RowKnown' /\ SweepStands' /\ Cleared'
  BY OrphanFields, NoSweepStands, <1>1
     DEF OrphanInv, OldAlone, OneRun, RowsSound, RunnersBehind, RowKnown, SweepStands,
         Cleared, RowSound, Fenced
<2> QED  BY <2>2, <2>3 DEF OrphanInv
<1>2. ASSUME Sweeps("roster") /\ online = {} /\ Continue("release")
             /\ sweep.row.phase \in EndedPhases
             /\ UNCHANGED <<runRow, online, runner, surface, stale, dispatched>>
     PROVE  OrphanInv'
<2>1. WentOn("release")
  BY <1>2, SweepGoes DEF OrphanInv, SweepStage
<2>2. runner' \in [Peer -> Runner] /\ sweep' \in SweepPass
  BY OrphanFields, <1>2, <2>1 DEF WentOn
<2>3. OrphanTypes'
  BY <2>2, <1>2 DEF OrphanInv, OrphanTypes, SecondRoster, Budgets, Issue, SweepPass, SweepStage
<2>4. OldAlone' /\ OneRun' /\ RowsSound' /\ RunnersBehind' /\ RowKnown' /\ SweepStands' /\ Cleared'
  BY <1>2, <2>1
     DEF OrphanInv, OldAlone, OneRun, RowsSound, RunnersBehind, RowKnown, SweepStands,
         Cleared, RowSound, Sweeps, WentOn, Fenced
<2> QED  BY <2>3, <2>4 DEF OrphanInv
<1>3. ASSUME Sweeps("roster") /\ online = {} /\ Continue("fence")
             /\ sweep.row.phase \notin EndedPhases
             /\ UNCHANGED <<runRow, online, runner, surface, stale, dispatched>>
     PROVE  OrphanInv'
<2>1. WentOn("fence")
  BY <1>3, SweepGoes DEF OrphanInv, SweepStage
<2>2. runner' \in [Peer -> Runner] /\ sweep' \in SweepPass
  BY OrphanFields, <1>3, <2>1 DEF WentOn
<2>3. OrphanTypes'
  BY <2>2, <1>3 DEF OrphanInv, OrphanTypes, SecondRoster, Budgets, Issue, SweepPass, SweepStage
<2>4. OldAlone' /\ OneRun' /\ RowsSound' /\ RunnersBehind' /\ RowKnown' /\ SweepStands' /\ Cleared'
  BY <1>3, <2>1
     DEF OrphanInv, OldAlone, OneRun, RowsSound, RunnersBehind, RowKnown, SweepStands,
         Cleared, RowSound, Sweeps, WentOn, Fenced
<2> QED  BY <2>3, <2>4 DEF OrphanInv
<1> QED
  BY <1>1, <1>2, <1>3 DEF SecondRoster, Budgets, Issue, Dispatches, Preserve

LEMMA FenceKeeps ==
  ASSUME OrphanInv, Fence
  PROVE  OrphanInv'
<1>1. ASSUME sweep' = NoSweep /\ UNCHANGED <<runRow, online, runner, surface, stale, dispatched>>
     PROVE  OrphanInv'
<2>1. runner' \in [Peer -> Runner] /\ sweep' \in SweepPass
  BY OrphanFields, NoSweepStands, <1>1
<2>2. OrphanTypes'
  BY <2>1, <1>1 DEF OrphanInv, OrphanTypes, Fence, Budgets, Issue, SweepPass, SweepStage
<2>3. OldAlone' /\ OneRun' /\ RowsSound' /\ RunnersBehind' /\ RowKnown' /\ SweepStands' /\ Cleared'
  BY OrphanFields, NoSweepStands, <1>1
     DEF OrphanInv, OldAlone, OneRun, RowsSound, RunnersBehind, RowKnown, SweepStands,
         Cleared, RowSound, Fenced
<2> QED  BY <2>2, <2>3 DEF OrphanInv
<1>2. ASSUME Sweeps("fence") /\ Fenced(sweep.by) /\ UNCHANGED runRow
             /\ UNCHANGED <<online, runner, surface, stale, dispatched>>
             /\ sweep' = [sweep EXCEPT !.at = "release", !.epoch = runRow.epoch]
     PROVE  OrphanInv'
<2>1. sweep' \in SweepPass /\ sweep'.at = "release" /\ sweep'.by = sweep.by
      /\ sweep'.row = sweep.row
      /\ sweep'.epoch = runRow.epoch /\ sweep'.roster = sweep.roster /\ sweep'.read = sweep.read
  BY OrphanFields, <1>2 DEF SweepPass, SweepStage
<2>2. runner' \in [Peer -> Runner] /\ sweep' \in SweepPass
  BY OrphanFields, <1>2, <2>1
<2>3. OrphanTypes'
  BY <2>2, <1>2 DEF OrphanInv, OrphanTypes, Fence, Budgets, Issue, SweepPass, SweepStage
<2>4. OldAlone' /\ OneRun' /\ RowsSound' /\ RunnersBehind' /\ RowKnown' /\ SweepStands' /\ Cleared'
  BY <1>2
     DEF OrphanInv, OldAlone, OneRun, RowsSound, RunnersBehind, RowKnown, SweepStands,
         Cleared, RowSound, Sweeps
<2> QED  BY <2>3, <2>4 DEF OrphanInv
<1>3. ASSUME Sweeps("fence") /\ runRow' = Taken(sweep.by)
             /\ UNCHANGED <<online, runner, surface, stale, dispatched>>
             /\ runRow.run = sweep.row.run /\ runRow.phase \notin EndedPhases
             /\ sweep' = [sweep EXCEPT !.at = "release", !.epoch = NextEpoch(sweep.by)]
     PROVE  OrphanInv'
<2>1. /\ runRow' \in RunRow /\ runRow'.run = runRow.run /\ runRow'.epoch = NextEpoch(sweep.by)
      /\ NextEpoch(sweep.by) \in Nat /\ NextEpoch(sweep.by) >= runRow.epoch
      /\ runRow'.owner = sweep.by /\ runRow'.phase = runRow.phase /\ runRow'.valid = TRUE
  BY <1>3, RowTaken DEF OrphanInv, Sweeps, SweepStands
<2>2. sweep' \in SweepPass /\ sweep'.at = "release" /\ sweep'.by = sweep.by
      /\ sweep'.row = sweep.row
      /\ sweep'.epoch = NextEpoch(sweep.by) /\ sweep'.roster = sweep.roster
      /\ sweep'.read = sweep.read
  BY OrphanFields, <1>3, <2>1 DEF SweepPass, SweepStage
<2>3. online' \subseteq 0..MaxOrphanRuns /\ runRow' \in RunRow
  BY OrphanFields, <1>3, <2>1
<2>4. runner' \in [Peer -> Runner] /\ sweep' \in SweepPass
  BY OrphanFields, <1>3, <2>2
<2>5. OrphanTypes'
  BY <2>3, <2>4, <1>3 DEF OrphanInv, OrphanTypes, Fence, Budgets, Issue, SweepPass, SweepStage
<2>6. OldAlone' /\ OneRun' /\ RowsSound' /\ RunnersBehind' /\ RowKnown' /\ SweepStands' /\ Cleared'
  BY OrphanFields, <1>3, <2>1
     DEF OrphanInv, OldAlone, OneRun, RowsSound, RunnersBehind, RowKnown, SweepStands,
         Cleared, RowSound, Sweeps
<2> QED  BY <2>5, <2>6 DEF OrphanInv
<1> QED
  BY <1>1, <1>2, <1>3 DEF Fence, Budgets, Issue, Dispatches, Preserve

LEMMA ReleaseAgentsKeeps ==
  ASSUME OrphanInv, ReleaseAgents
  PROVE  OrphanInv'
<1>1. ASSUME sweep' = NoSweep /\ UNCHANGED <<runRow, runner, surface, stale, dispatched>>
             /\ online' = online \ {sweep.row.run}
     PROVE  OrphanInv'
<2>1. online' \subseteq 0..MaxOrphanRuns /\ runRow' \in RunRow
  BY OrphanFields, <1>1
<2>2. runner' \in [Peer -> Runner] /\ sweep' \in SweepPass
  BY OrphanFields, NoSweepStands, <1>1
<2>3. OrphanTypes'
  BY <2>1, <2>2 DEF OrphanInv, OrphanTypes, ReleaseAgents, Budgets, Issue, SweepPass, SweepStage
<2>4. OldAlone' /\ OneRun' /\ RowsSound' /\ RunnersBehind' /\ RowKnown' /\ SweepStands' /\ Cleared'
  BY OrphanFields, NoSweepStands, <1>1
     DEF OrphanInv, OldAlone, OneRun, RowsSound, RunnersBehind, RowKnown, SweepStands,
         Cleared, RowSound, Fenced
<2> QED  BY <2>3, <2>4 DEF OrphanInv
<1>2. ASSUME Sweeps("release") /\ Continue("clear") /\ (sweep.epoch # 0 => Held)
             /\ UNCHANGED <<runRow, runner, surface, stale, dispatched>>
             /\ online' = online \ {sweep.row.run}
     PROVE  OrphanInv'
<2>1. WentOn("clear")
  BY <1>2, SweepGoes DEF OrphanInv, SweepStage
<2>2. online' \subseteq 0..MaxOrphanRuns /\ runRow' \in RunRow
  BY OrphanFields, <1>2
<2>3. runner' \in [Peer -> Runner] /\ sweep' \in SweepPass
  BY OrphanFields, <1>2, <2>1 DEF WentOn
<2>4. OrphanTypes'
  BY <2>2, <2>3 DEF OrphanInv, OrphanTypes, ReleaseAgents, Budgets, Issue, SweepPass, SweepStage
<2>5. OldAlone' /\ OneRun' /\ RowsSound' /\ RunnersBehind' /\ RowKnown' /\ SweepStands' /\ Cleared'
  BY <1>2, <2>1
     DEF OrphanInv, OldAlone, OneRun, RowsSound, RunnersBehind, RowKnown, SweepStands,
         Cleared, RowSound, Sweeps, Held, WentOn, Fenced
<2> QED  BY <2>4, <2>5 DEF OrphanInv
<1> QED
  BY <1>1, <1>2 DEF ReleaseAgents, Budgets, Issue, Preserve

LEMMA SweepFailsKeeps ==
  ASSUME OrphanInv, SweepFails
  PROVE  OrphanInv'
<1>1. ASSUME sweep' = NoSweep /\ UNCHANGED <<online, surface, stale, dispatched>>
             /\ sweep.at # "idle" /\ UNCHANGED runRow /\ UNCHANGED runner
     PROVE  OrphanInv'
<2>1. runner' \in [Peer -> Runner] /\ sweep' \in SweepPass
  BY OrphanFields, NoSweepStands, <1>1
<2>2. OrphanTypes'
  BY OrphanAssumption, <2>1, <1>1
     DEF OrphanInv, OrphanTypes, SweepFails, Issue, Fault, SweepPass, SweepStage
<2>3. OldAlone' /\ OneRun' /\ RowsSound' /\ RunnersBehind' /\ RowKnown' /\ SweepStands' /\ Cleared'
  BY OrphanFields, NoSweepStands, <1>1
     DEF OrphanInv, OldAlone, OneRun, RowsSound, RunnersBehind, RowKnown, SweepStands,
         Cleared, RowSound, Fenced
<2> QED  BY <2>2, <2>3 DEF OrphanInv
<1>2. ASSUME sweep' = NoSweep /\ UNCHANGED <<online, surface, stale, dispatched>>
             /\ sweep.at # "idle" /\ UNCHANGED runRow /\ Leaves(sweep.by)
     PROVE  OrphanInv'
<2>1. sweep.by \in Peer /\ FreeNow(sweep.by)
  BY <1>2, RunnerLeaves DEF OrphanInv, SweepStands
<2>2. online' \subseteq 0..MaxOrphanRuns /\ runRow' \in RunRow
  BY OrphanFields, <1>2
<2>3. runner' \in [Peer -> Runner] /\ sweep' \in SweepPass
  BY NoSweepStands, <1>2, <2>1 DEF FreeNow
<2>4. OrphanTypes'
  BY OrphanAssumption, <2>2, <2>3
     DEF OrphanInv, OrphanTypes, SweepFails, Issue, Fault, SweepPass, SweepStage, Runner,
         RunnerStage
<2>5. OldAlone' /\ OneRun' /\ RowsSound' /\ RunnersBehind' /\ RowKnown' /\ SweepStands' /\ Cleared'
  BY OrphanFields, NoSweepStands, <1>2, <2>1
     DEF OrphanInv, OldAlone, OneRun, RowsSound, RunnersBehind, RowKnown, SweepStands,
         Cleared, RowSound, FreeNow, Fenced
<2> QED  BY <2>4, <2>5 DEF OrphanInv
<1>3. ASSUME sweep' = NoSweep /\ UNCHANGED <<online, surface, stale, dispatched>>
             /\ sweep.at # "idle" /\ runRow.run # 0 /\ runRow' = Lapsed /\ UNCHANGED runner
     PROVE  OrphanInv'
<2>1. /\ runRow' \in RunRow /\ runRow'.run = runRow.run /\ runRow'.epoch = runRow.epoch
      /\ runRow'.owner = runRow.owner /\ runRow'.phase = runRow.phase /\ runRow'.valid = FALSE
  BY <1>3, RowLapses DEF OrphanInv
<2>2. online' \subseteq 0..MaxOrphanRuns /\ runRow' \in RunRow
  BY OrphanFields, <1>3, <2>1
<2>3. runner' \in [Peer -> Runner] /\ sweep' \in SweepPass
  BY OrphanFields, NoSweepStands, <1>3
<2>4. OrphanTypes'
  BY OrphanAssumption, <2>2, <2>3, <1>3
     DEF OrphanInv, OrphanTypes, SweepFails, Issue, Fault, SweepPass, SweepStage
<2>5. OldAlone' /\ OneRun' /\ RowsSound' /\ RunnersBehind' /\ RowKnown' /\ SweepStands' /\ Cleared'
  BY OrphanFields, NoSweepStands, <1>3, <2>1
     DEF OrphanInv, OldAlone, OneRun, RowsSound, RunnersBehind, RowKnown, SweepStands,
         Cleared, RowSound, Fenced
<2> QED  BY <2>4, <2>5 DEF OrphanInv
<1>4. ASSUME sweep' = NoSweep /\ UNCHANGED <<online, surface, stale, dispatched>>
             /\ sweep.at # "idle" /\ runRow.run # 0 /\ runRow' = Lapsed /\ Leaves(sweep.by)
     PROVE  OrphanInv'
<2>1. /\ runRow' \in RunRow /\ runRow'.run = runRow.run /\ runRow'.epoch = runRow.epoch
      /\ runRow'.owner = runRow.owner /\ runRow'.phase = runRow.phase /\ runRow'.valid = FALSE
  BY <1>4, RowLapses DEF OrphanInv
<2>2. sweep.by \in Peer /\ FreeNow(sweep.by)
  BY <1>4, RunnerLeaves DEF OrphanInv, SweepStands
<2>3. online' \subseteq 0..MaxOrphanRuns /\ runRow' \in RunRow
  BY OrphanFields, <1>4, <2>1
<2>4. runner' \in [Peer -> Runner] /\ sweep' \in SweepPass
  BY NoSweepStands, <1>4, <2>2 DEF FreeNow
<2>5. OrphanTypes'
  BY OrphanAssumption, <2>3, <2>4
     DEF OrphanInv, OrphanTypes, SweepFails, Issue, Fault, SweepPass, SweepStage, Runner,
         RunnerStage
<2>6. OldAlone' /\ OneRun' /\ RowsSound' /\ RunnersBehind' /\ RowKnown' /\ SweepStands' /\ Cleared'
  BY OrphanFields, NoSweepStands, <1>4, <2>1, <2>2
     DEF OrphanInv, OldAlone, OneRun, RowsSound, RunnersBehind, RowKnown, SweepStands,
         Cleared, RowSound, FreeNow, Fenced
<2> QED  BY <2>5, <2>6 DEF OrphanInv
<1>5. pull \in {"none", "open", "foreign"} /\ (sweep.row.run = 0 <=> sweep.row = NoRow)
      /\ (runRow.run = 0 <=> runRow = NoRow)
  BY OrphanTyping, NoSweepStands DEF OrphanInv, RowsSound, RowSound
<1> QED
  BY <1>1, <1>2, <1>3, <1>4, <1>5, NoSweepStands DEF SweepFails, Issue, Fault, Preserve, Leaves

LEMMA ReadRosterKeeps ==
  ASSUME OrphanInv, ReadRoster
  PROVE  OrphanInv'
<1>1. sweep' \in SweepPass /\ sweep'.at = "context" /\ sweep'.by = sweep.by
      /\ sweep'.row = sweep.row
      /\ sweep'.epoch = sweep.epoch /\ sweep'.roster = online
      /\ sweep'.read = sweep.read \cup {"roster"}
  BY OrphanFields DEF ReadRoster, Sweeps, SweepPass
<1>2. runner' \in [Peer -> Runner] /\ sweep' \in SweepPass
  BY OrphanFields, <1>1 DEF Dispatches, ReadRoster
<1>3. OrphanTypes'
  BY <1>2 DEF OrphanInv, OrphanTypes, ReadRoster, Budgets, Issue, Dispatches, SweepPass, SweepStage
<1>4. OldAlone' /\ OneRun' /\ RowsSound' /\ RunnersBehind' /\ RowKnown' /\ SweepStands' /\ Cleared'
  BY <1>1
     DEF OrphanInv, OldAlone, OneRun, RowsSound, RunnersBehind, RowKnown, SweepStands,
         Cleared, RowSound, ReadRoster, Dispatches, Issue, Budgets, Fenced
<1> QED  BY <1>3, <1>4 DEF OrphanInv

LEMMA ReadRowsKeeps ==
  ASSUME OrphanInv, ReadRows
  PROVE  OrphanInv'
<1>1. sweep' \in SweepPass /\ sweep'.at = "context" /\ sweep'.by = sweep.by /\ sweep'.row = runRow
      /\ sweep'.epoch = sweep.epoch /\ sweep'.roster = sweep.roster
      /\ sweep'.read = sweep.read \cup {"rows"}
  BY OrphanFields DEF ReadRows, Sweeps, SweepPass
<1>2. runner' \in [Peer -> Runner] /\ sweep' \in SweepPass
  BY OrphanFields, <1>1 DEF Dispatches, ReadRows
<1>3. OrphanTypes'
  BY <1>2 DEF OrphanInv, OrphanTypes, ReadRows, Budgets, Issue, Dispatches, SweepPass, SweepStage
<1>4. OldAlone' /\ OneRun' /\ RowsSound' /\ RunnersBehind' /\ RowKnown' /\ SweepStands' /\ Cleared'
  BY <1>1
     DEF OrphanInv, OldAlone, OneRun, RowsSound, RunnersBehind, RowKnown, SweepStands,
         Cleared, RowSound, ReadRows, Dispatches, Issue, Budgets, Fenced
<1> QED  BY <1>3, <1>4 DEF OrphanInv

LEMMA LapseKeeps ==
  ASSUME OrphanInv, Lapse
  PROVE  OrphanInv'
<1>1. /\ runRow' \in RunRow /\ runRow'.run = runRow.run /\ runRow'.epoch = runRow.epoch
      /\ runRow'.owner = runRow.owner /\ runRow'.phase = runRow.phase /\ runRow'.valid = FALSE
  BY RowLapses DEF OrphanInv, Lapse
<1>2. online' \subseteq 0..MaxOrphanRuns /\ runRow' \in RunRow
  BY OrphanFields, <1>1 DEF Lapse
<1>3. OrphanTypes'
  BY <1>2 DEF OrphanInv, OrphanTypes, Lapse, Budgets, Issue
<1>4. OldAlone' /\ OneRun' /\ RowsSound' /\ RunnersBehind' /\ RowKnown' /\ SweepStands' /\ Cleared'
  BY NoSweepStands, <1>1
     DEF OrphanInv, OldAlone, OneRun, RowsSound, RunnersBehind, RowKnown, SweepStands,
         Cleared, RowSound, Lapse, Budgets, Fenced, Held
<1> QED  BY <1>3, <1>4 DEF OrphanInv

LEMMA StallKeeps ==
  ASSUME OrphanInv, Stall
  PROVE  OrphanInv'
<1>1. /\ runRow' \in RunRow /\ runRow'.run = runRow.run /\ runRow'.epoch = runRow.epoch
      /\ runRow'.owner = runRow.owner /\ runRow'.phase = runRow.phase /\ runRow'.valid = FALSE
  BY RowLapses DEF OrphanInv, Stall
<1>2. online' \subseteq 0..MaxOrphanRuns /\ runRow' \in RunRow
  BY OrphanFields, <1>1 DEF Stall
<1>3. OrphanTypes'
  BY OrphanAssumption, <1>2 DEF OrphanInv, OrphanTypes, Stall, Issue, Fault
<1>4. OldAlone' /\ OneRun' /\ RowsSound' /\ RunnersBehind' /\ RowKnown' /\ SweepStands' /\ Cleared'
  BY NoSweepStands, <1>1
     DEF OrphanInv, OldAlone, OneRun, RowsSound, RunnersBehind, RowKnown, SweepStands,
         Cleared, RowSound, Stall, Sweeps, Fault, Fenced
<1> QED  BY <1>3, <1>4 DEF OrphanInv

LEMMA AdoptPullKeeps ==
  ASSUME OrphanInv, AdoptPull
  PROVE  OrphanInv'
<1>1. ASSUME UNCHANGED <<dispatched, runRow, runner, online, surface, stale>> /\ sweep' = NoSweep
     PROVE  OrphanInv'
<2>1. runner' \in [Peer -> Runner] /\ sweep' \in SweepPass
  BY OrphanFields, NoSweepStands, <1>1
<2>2. OrphanTypes'
  BY <2>1, <1>1 DEF OrphanInv, OrphanTypes, AdoptPull, Issue, SweepPass, SweepStage
<2>3. OldAlone' /\ OneRun' /\ RowsSound' /\ RunnersBehind' /\ RowKnown' /\ SweepStands' /\ Cleared'
  BY OrphanFields, NoSweepStands, <1>1
     DEF OrphanInv, OldAlone, OneRun, RowsSound, RunnersBehind, RowKnown, SweepStands,
         Cleared, RowSound, Fenced
<2> QED  BY <2>2, <2>3 DEF OrphanInv
<1>2. ASSUME UNCHANGED <<surface, stale>> /\ sweep' = NoSweep /\ runRow.run = 0
             /\ sweep.by \in Peer /\ dispatched < MaxOrphanRuns
             /\ dispatched' = dispatched + 1 /\ IsAt(sweep.by, "none")
             /\ runRow' = [run |-> dispatched + 1, phase |-> "running", owner |-> sweep.by,
                         epoch |-> 1, valid |-> TRUE]
             /\ runner' = [runner EXCEPT ![sweep.by] =
                          [at |-> "running", run |-> dispatched + 1, epoch |-> 1]]
             /\ online' = (online \ {0}) \cup {dispatched + 1}
     PROVE  OrphanInv'
<2>1. online' \subseteq 0..MaxOrphanRuns /\ runRow' \in RunRow
  BY OrphanAssumption, OrphanFields, <1>2 DEF RunRow
<2>2. runner' \in [Peer -> Runner] /\ sweep' \in SweepPass
  BY OrphanAssumption, OrphanFields, NoSweepStands, <1>2 DEF Runner, RunnerStage
<2>3. OrphanTypes'
  BY <2>1, <2>2, <1>2 DEF OrphanInv, OrphanTypes, AdoptPull, Issue, SweepPass, SweepStage
<2>4. OldAlone' /\ OneRun' /\ RowsSound' /\ RunnersBehind' /\ RowKnown' /\ SweepStands' /\ Cleared'
  BY OrphanFields, NoSweepStands, <1>2
     DEF OrphanInv, OldAlone, OneRun, RowsSound, RunnersBehind, RowKnown, SweepStands,
         Cleared, RowSound, EndedPhases
<2> QED  BY <2>3, <2>4 DEF OrphanInv
<1>3. ASSUME UNCHANGED <<surface, stale, dispatched>> /\ sweep' = NoSweep /\ runRow.run # 0
             /\ sweep.by \in Peer
             /\ runRow.phase \notin EndedPhases /\ IsAt(sweep.by, "none")
             /\ runRow' = [run |-> runRow.run, phase |-> "running", owner |-> sweep.by,
                         epoch |-> NextEpoch(sweep.by), valid |-> TRUE]
             /\ runner' = [runner EXCEPT ![sweep.by] =
                          [at |-> "running", run |-> runRow.run, epoch |-> NextEpoch(sweep.by)]]
             /\ online' = (online \ {0}) \cup {runRow.run}
     PROVE  OrphanInv'
<2>1. NextEpoch(sweep.by) \in Nat /\ NextEpoch(sweep.by) >= runRow.epoch
      /\ "running" \in RunnerStage
  BY OrphanFields DEF RunnerStage, NextEpoch
<2>2. online' \subseteq 0..MaxOrphanRuns /\ runRow' \in RunRow
  BY OrphanFields, <1>3, <2>1 DEF RunRow
<2>3. runner' \in [Peer -> Runner] /\ sweep' \in SweepPass
  BY OrphanFields, NoSweepStands, <1>3, <2>1 DEF Runner
<2>4. OrphanTypes'
  BY <2>2, <2>3, OrphanFields, <2>1
     DEF OrphanInv, OrphanTypes, AdoptPull, Issue, SweepPass, SweepStage
<2>5. OldAlone' /\ OneRun' /\ RowsSound' /\ RunnersBehind' /\ RowKnown' /\ SweepStands' /\ Cleared'
  BY OrphanFields, NoSweepStands, <1>3, <2>1
     DEF OrphanInv, OldAlone, OneRun, RowsSound, RunnersBehind, RowKnown, SweepStands,
         Cleared, RowSound, EndedPhases
<2> QED  BY <2>4, <2>5 DEF OrphanInv
<1>4. pull \in {"none", "open", "foreign"} /\ (sweep.row.run = 0 <=> sweep.row = NoRow)
      /\ (runRow.run = 0 <=> runRow = NoRow)
  BY OrphanTyping, NoSweepStands DEF OrphanInv, RowsSound, RowSound
<1>5. runRow = NoRow /\ sweep.by \in Peer => NextEpoch(sweep.by) = 1
  BY OrphanAssumption DEF NextEpoch, NoRow
<1> QED
  BY <1>1, <1>2, <1>3, <1>5, <1>4 DEF OrphanInv, SweepStands, AdoptPull, Issue, Sweeps, Preserve

LEMMA OrphanStarts ==
  ASSUME OrphanInit
  PROVE  OrphanInv
<1>1. /\ \A p \in Peer : runner[p].at = "none" /\ runner[p].run = 0 /\ runner[p].epoch = 0
      /\ runner \in [Peer -> Runner]
  BY OrphanAssumption DEF OrphanInit, NoWork, Runner, RunnerStage
<1>2. sweep.at = "idle" /\ sweep.row.run = 0 /\ sweep.epoch = 0 /\ sweep \in SweepPass
      /\ sweep.row = NoRow /\ sweep.roster = {} /\ sweep.read = {}
  BY NoSweepStands DEF OrphanInit
<1>3. runRow.run = 0 /\ runRow.phase = "none" /\ runRow \in RunRow /\ runRow = NoRow
  BY NoSweepStands DEF OrphanInit
<1>4. OrphanTypes
  BY OrphanTyping, OrphanAssumption, <1>1, <1>2, <1>3 DEF OrphanInit
<1>5. OldAlone /\ OneRun
  BY <1>1, <1>2, <1>3 DEF OrphanInit, OldAlone, OneRun
<1>6. RowsSound /\ RunnersBehind
  BY <1>1, <1>2, <1>3, OrphanAssumption
     DEF OrphanInit, RowsSound, RowSound, RunnersBehind, EndedPhases
<1>7. RowKnown /\ SweepStands /\ Cleared
  BY <1>2 DEF OrphanInit, RowKnown, SweepStands, Cleared
<1> QED  BY <1>4, <1>5, <1>6, <1>7 DEF OrphanInv

LEMMA OrphanSteps ==
  ASSUME ~RecoveryRaces, OrphanInv, [OrphanNext]_orphanVars
  PROVE  OrphanInv'
<1>1. ASSUME NEW p \in Peer,
             Dispatch(p) \/ Running(p) \/ TakesRun(p) \/ Begin(p) \/ Crash(p)
      PROVE  OrphanInv'
  BY <1>1, DispatchKeeps, RecordAttemptKeeps, SpawnKeeps, MarkIssueKeeps, ProceedKeeps,
     RecoverKeeps, ExitNoticedKeeps, CompleteKeeps, ReleaseKeeps, TakesRunKeeps, BeginKeeps,
     CrashKeeps DEF Running
<1>2. ASSUME Sweep  PROVE OrphanInv'
  BY <1>2, ReadRosterKeeps, ReadRowsKeeps, JudgeOrphanKeeps, ReadStatusKeeps, ProbeKeeps,
     AdoptPullKeeps, GetRowKeeps, SecondRosterKeeps, FenceKeeps, ReleaseAgentsKeeps, ClearKeeps,
     ReadyKeeps, ForgetAttemptsKeeps DEF Sweep
<1>3. ASSUME SweepFails \/ PullCloses \/ LegacyEnds \/ Lapse \/ Stall \/ MountSyncs
      PROVE  OrphanInv'
  BY <1>3, SweepFailsKeeps, PullClosesKeeps, LegacyEndsKeeps, LapseKeeps, StallKeeps,
     MountSyncsKeeps
<1>4. ASSUME NEW r \in 0..MaxOrphanRuns, Exits(r) \/ Publishes(r)
      PROVE  OrphanInv'
  BY <1>4, ExitsKeeps, PublishesKeeps
<1>5. ASSUME UNCHANGED orphanVars  PROVE OrphanInv'
  BY <1>5 DEF orphanVars, OrphanInv, OrphanTypes, OldAlone, OneRun, RowsSound, RowSound,
     RunnersBehind, Fenced, RowKnown, SweepStands, Cleared, Held
<1> QED  BY <1>1, <1>2, <1>3, <1>4, <1>5 DEF OrphanNext

LEMMA OneRunOneWorker ==
  ASSUME OneRun, runRow \in RunRow
  PROVE  OneWorker
<1>1. IsFiniteSet({runRow.run}) /\ Cardinality({runRow.run}) = 1
  BY FS_Singleton
<1>2. Cardinality(online) <= Cardinality({runRow.run})
  BY <1>1, FS_Subset DEF OneRun
<1> QED  BY <1>1, <1>2 DEF OneWorker

LEMMA OrphanInvariant == ~RecoveryRaces => (OrphanSpec => []OrphanInv)
<1> SUFFICES ASSUME ~RecoveryRaces PROVE OrphanSpec => []OrphanInv
  OBVIOUS
<1>1. OrphanInit => OrphanInv
  BY OrphanStarts
<1>2. OrphanInv /\ [OrphanNext]_orphanVars => OrphanInv'
  BY OrphanSteps
<1> QED  BY <1>1, <1>2, PTL DEF OrphanSpec

(* The issue, its row, those who work on it and the sweep keep their types *)
(* (#reconcileOrphanedGithubInProgress, #releaseOrphanedGithubLifecycle).  *)
THEOREM OrphansTyped == ~RecoveryRaces => (OrphanSpec => []OrphanTypes)
<1>1. OrphanInv => OrphanTypes
  BY DEF OrphanInv
<1> QED  BY <1>1, OrphanInvariant, PTL

(* Nobody works on an issue beside a worker that the recovery took for     *)
(* dead, whoever dies, however late a lease runs out, and whatever calls   *)
(* fail, where a process does not start its worker again while it sweeps   *)
(* the issue (#reconcileOrphanedGithubInProgress, #handleAgentExit).       *)
THEOREM RecoveryKeepsOneWorker == ~RecoveryRaces => (OrphanSpec => []OneWorker)
<1>1. OrphanInv => OneWorker
  BY OneRunOneWorker, OrphanTyping DEF OrphanInv
<1> QED  BY <1>1, OrphanInvariant, PTL

=============================================================================
