------------------------ MODULE ClarificationProofs ------------------------
(***************************************************************************)
(* Theorems about Clarification, for every set of processes, every team    *)
(* and every bound.                                                        *)
(***************************************************************************)
EXTENDS Clarification, TLAPS

-----------------------------------------------------------------------------
(* The inductive invariant *)

(* A park that releases or confirms an agent, and a wake that starts one,  *)
(* stand at an agent of the team.                                          *)
Places ==
    /\ \A p \in Proc, t \in Thread :
          park[p][t].pc \in {"grace", "forced", "check"} => park[p][t].at <= Len(Team)
    /\ \A p \in Proc : wake[p].pc = "start" => wake[p].at <= Len(Team)

(* From the lookup that finds nobody, not only from the save of the gate,  *)
(* the roster holds agents that a wake has started.                        *)
Marking == \E p \in Proc, t \in Thread : park[p][t].pc = "mark"
GateInv == waiting.parked \/ Marking => online \subseteq briefed

(* A wake that starts an agent holds the lease; while it holds the lease,  *)
(* the roster has nobody but those it read and those it has come past; and *)
(* the agent it starts is not one of those it read.                        *)
Passed(p) == {Team[i] : i \in 1 .. wake[p].at - 1}
LeaseInv(p) ==
    /\ wake[p].pc = "start" => OwnsWake(p) /\ Team[wake[p].at] \notin wake[p].roster
    /\ wake[p].pc \in {"team", "start"} /\ OwnsWake(p) =>
          online \subseteq wake[p].roster \union Passed(p)

(* A call that was walked away from is fenced, and a wake waits for every  *)
(* such call it has seen that is still in flight.                          *)
FenceInv(p) == calls[p] \subseteq fence[p] /\ wake[p].seen \subseteq wake[p].awaited

ClarInv ==
    /\ TypeOK /\ Places /\ GateInv
    /\ \A p \in Proc : LeaseInv(p) /\ FenceInv(p)

-----------------------------------------------------------------------------
(* Lemmas about the operators *)

LEMMA TeamFacts ==
    /\ Len(Team) \in Nat /\ Len(Team) > 0 /\ DOMAIN Team = 1 .. Len(Team)
    /\ \A i \in 1 .. Len(Team) : Team[i] \in Agents
    /\ Asker \in Agents
<1>1. Team \in Seq(Agents) /\ Team # <<>>
  BY SizesAssumption
<1>2. Len(Team) \in Nat /\ Len(Team) > 0 /\ DOMAIN Team = 1 .. Len(Team)
  BY <1>1
<1>3. \A i \in 1 .. Len(Team) : Team[i] \in Agents
  BY <1>2 DEF Agents
<1> QED
  BY <1>2, <1>3 DEF Asker

Parks == [Proc -> [Thread -> Park]]

PC == {"idle", "save", "release", "grace", "forced", "check", "mark",
       "saved", "complete", "deliver", "posting"}

(* A step of one thread of one process leaves the parks of the others.     *)
LEMMA ParkMoves ==
    ASSUME park \in Parks, NEW p \in Proc, NEW t \in Thread, NEW e \in Park,
           park' = [park EXCEPT ![p][t] = e]
    PROVE  /\ park' \in Parks
           /\ park'[p][t] = e
           /\ \A q \in Proc, u \in Thread :
                 q # p \/ u # t => park'[q][u] = park[q][u]
BY DEF Parks

LEMMA ToMoves ==
    ASSUME park \in Parks, NEW p \in Proc, NEW t \in Thread, NEW pc \in PC, To(p, t, pc)
    PROVE  /\ park' \in Parks
           /\ park'[p][t].pc = pc
           /\ pc # "idle" => park'[p][t].at = park[p][t].at
           /\ \A q \in Proc, u \in Thread :
                 q # p \/ u # t => park'[q][u] = park[q][u]
<1>1. park[p][t] \in Park
  BY DEF Parks
<1>2. PICK e : e = IF pc = "idle" THEN Resting ELSE [park[p][t] EXCEPT !.pc = pc]
  OBVIOUS
<1>3. Resting \in Park
  BY TeamFacts DEF Resting, Park
<1>4. e \in Park /\ e.pc = pc /\ (pc # "idle" => e.at = park[p][t].at)
  BY <1>1, <1>2, <1>3 DEF PC, Park, Resting
<1>5. park' = [park EXCEPT ![p][t] = e]
  BY <1>2 DEF To, Parks
<1>6. /\ park' \in Parks
      /\ park'[p][t] = e
      /\ \A q \in Proc, u \in Thread : q # p \/ u # t => park'[q][u] = park[q][u]
  BY <1>4, <1>5, ParkMoves
<1> QED
  BY <1>4, <1>6

LEMMA ArmTypes ==
    ASSUME due \in [Proc -> SUBSET Due], NEW p \in Proc, NEW S \in SUBSET Due, Arm(p, S)
    PROVE  due' \in [Proc -> SUBSET Due]
BY DEF Arm

LEMMA ThrowsMoves ==
    ASSUME park \in Parks, due \in [Proc -> SUBSET Due], NEW p \in Proc, NEW t \in Thread,
           Throws(p, t)
    PROVE  /\ park' \in Parks /\ due' \in [Proc -> SUBSET Due]
           /\ park'[p][t].pc \in {"idle", "deliver"}
           /\ \A q \in Proc, u \in Thread :
                 q # p \/ u # t => park'[q][u] = park[q][u]
<1>1. PICK pc \in {"idle", "deliver"} : To(p, t, pc)
  BY DEF Throws
<1>2. PICK S \in SUBSET Due : Arm(p, S)
  BY DEF Throws, Due
<1> QED
  BY <1>1, <1>2, ToMoves, ArmTypes DEF PC

-----------------------------------------------------------------------------
(* Types *)

Typed == TypeOK /\ Places

LEMMA TypeInit == Init => Typed
<1> SUFFICES ASSUME Init PROVE Typed
  OBVIOUS
<1>1. NoRecord \in Waiting
  BY DEF NoRecord, Waiting, Holder
<1>2. Resting \in Park /\ Resting.pc = "idle"
  BY TeamFacts DEF Resting, Park
<1>3. Asleep \in Wake /\ Asleep.pc = "idle"
  BY TeamFacts DEF Asleep, Wake
<1>4. row \in Row /\ held \in [Proc -> Held]
  BY DEF Init, Row, Holder, Held
<1>5. park \in Parks /\ wake \in [Proc -> Wake]
  BY <1>2, <1>3 DEF Init, Parks
<1>6. busy \in [Proc -> BOOLEAN] /\ due \in [Proc -> SUBSET Due]
  BY DEF Init
<1>7. /\ calls \in [Proc -> SUBSET Call] /\ fence \in [Proc -> SUBSET Call]
      /\ recovering \in [Proc -> SUBSET Agents]
  BY DEF Init
<1>8. Places
  BY <1>2, <1>3 DEF Init, Places
<1>9. waiting \in Waiting /\ online \subseteq Agents /\ briefed \subseteq Agents
      /\ turnedAway \in BOOLEAN /\ faults = 0
  BY <1>1 DEF Init
<1>10. MaxFaults \in Nat
  BY SizesAssumption
<1> QED
  BY <1>4, <1>5, <1>6, <1>7, <1>8, <1>9, <1>10 DEF Typed, TypeOK, Parks

(* The park of one thread moves, and an agent is looked at only while the  *)
(* team has one.                                                           *)
LEMMA ParkTyped ==
    ASSUME Typed, NEW p \in Proc, NEW t \in Thread, park' \in Parks, UNCHANGED wake,
           \A q \in Proc, u \in Thread : q # p \/ u # t => park'[q][u] = park[q][u],
           park'[p][t].pc \in {"grace", "forced", "check"} => park'[p][t].at <= Len(Team)
    PROVE  Places' /\ park' \in [Proc -> [Thread -> Park]]
BY DEF Typed, Places, Parks

(* The wake of one process moves.                                          *)
LEMMA WakeTyped ==
    ASSUME Typed, NEW p \in Proc, UNCHANGED park, NEW e \in Wake,
           wake' = [wake EXCEPT ![p] = e],
           e.pc = "start" => e.at <= Len(Team)
    PROVE  Places' /\ wake' \in [Proc -> Wake]
BY DEF Typed, TypeOK, Places

LEMMA WakeEndsTyped ==
    ASSUME Typed, NEW p \in Proc, UNCHANGED park, WakeEnds(p)
    PROVE  Places' /\ wake' \in [Proc -> Wake]
<1>1. Asleep \in Wake /\ Asleep.pc = "idle"
  BY TeamFacts DEF Asleep, Wake
<1> QED
  BY <1>1, WakeTyped DEF WakeEnds

(* What is not a park, a wake or a timer.                                  *)
Books ==
    /\ waiting \in Waiting /\ row \in Row
    /\ online \in SUBSET Agents /\ briefed \in SUBSET Agents
    /\ held \in [Proc -> Held] /\ busy \in [Proc -> BOOLEAN]
    /\ calls \in [Proc -> SUBSET Call] /\ fence \in [Proc -> SUBSET Call]
    /\ recovering \in [Proc -> SUBSET Agents]
    /\ turnedAway \in BOOLEAN /\ faults \in 0 .. MaxFaults

LEMMA TypedParts ==
    Typed <=> Books /\ Places /\ park \in Parks /\ wake \in [Proc -> Wake]
              /\ due \in [Proc -> SUBSET Due]
BY DEF Typed, TypeOK, Books, Parks

LEMMA FaultTypes == faults \in 0 .. MaxFaults /\ Fault => faults' \in 0 .. MaxFaults
BY SizesAssumption DEF Fault

(* The saves of the record keep its type.                                  *)
LEMMA WaitingTypes ==
    ASSUME waiting \in Waiting, NEW p \in Proc
    PROVE  /\ NoRecord \in Waiting
           /\ \A b \in BOOLEAN : [NoRecord EXCEPT !.open = TRUE, !.posted = b] \in Waiting
           /\ [waiting EXCEPT !.reply = TRUE] \in Waiting
           /\ [waiting EXCEPT !.parked = TRUE] \in Waiting
           /\ \A h \in {p, None, Gone} :
                 /\ [waiting EXCEPT !.delivery = h] \in Waiting
                 /\ [waiting EXCEPT !.wake = h] \in Waiting
           /\ [waiting EXCEPT !.posted = TRUE, !.delivery = None] \in Waiting
           /\ \A a \in Agents : [waiting EXCEPT !.released = @ \union {a}] \in Waiting
           /\ WakeReleased(p) \in Waiting
           /\ [waiting EXCEPT !.delivery = Dying(p, @), !.wake = Dying(p, @)] \in Waiting
BY DEF NoRecord, Waiting, Holder, WakeReleased, Dying

LEMMA RowTypes ==
    ASSUME row \in Row, NEW p \in Proc
    PROVE  /\ \A ph \in {"running", "parking", "waiting", "dispatching"} :
                 /\ [row EXCEPT !.phase = ph] \in Row
                 /\ [phase |-> ph, owner |-> p] \in Row
           /\ \A h \in {p, None} : [row EXCEPT !.owner = h] \in Row
           /\ [row EXCEPT !.owner = Dying(p, @)] \in Row
BY DEF Row, Holder, Dying

(* A thread of a process moves: its park, its timers and the books change. *)
ParkAlone(p, t) ==
    /\ \A q \in Proc, u \in Thread : q # p \/ u # t => park'[q][u] = park[q][u]
    /\ park'[p][t].pc \in {"grace", "forced", "check"} => park'[p][t].at <= Len(Team)

LEMMA ParkStepTyped ==
    ASSUME Typed, NEW p \in Proc, NEW t \in Thread,
           park' \in Parks, ParkAlone(p, t), UNCHANGED wake, Books',
           due' \in [Proc -> SUBSET Due]
    PROVE  Typed'
<1>1. Places'
  BY DEF Typed, Places, ParkAlone
<1>2. wake' \in [Proc -> Wake]
  BY DEF Typed, TypeOK
<1> QED
  BY <1>1, <1>2 DEF Typed, TypeOK, Books, Parks

LEMMA ToTyped ==
    ASSUME Typed, NEW p \in Proc, NEW t \in Thread, NEW pc \in PC, To(p, t, pc),
           pc \in {"grace", "forced", "check"} => park[p][t].at <= Len(Team)
    PROVE  park' \in Parks /\ ParkAlone(p, t)
<1>1. park \in Parks
  BY TypedParts
<1> QED
  BY <1>1, ToMoves DEF ParkAlone

LEMMA EntryTyped ==
    ASSUME Typed, NEW p \in Proc, NEW t \in Thread, NEW e \in Park,
           park' = [park EXCEPT ![p][t] = e], e.pc \notin {"grace", "forced", "check"}
    PROVE  park' \in Parks /\ ParkAlone(p, t)
<1>1. park \in Parks
  BY TypedParts
<1>2. /\ park' \in Parks
      /\ park'[p][t] = e
      /\ \A q \in Proc, u \in Thread : q # p \/ u # t => park'[q][u] = park[q][u]
  BY <1>1 DEF Parks
<1> QED
  BY <1>2 DEF ParkAlone

LEMMA ThrowsTyped ==
    ASSUME Typed, NEW p \in Proc, NEW t \in Thread, Throws(p, t)
    PROVE  park' \in Parks /\ ParkAlone(p, t) /\ due' \in [Proc -> SUBSET Due]
<1>1. park \in Parks /\ due \in [Proc -> SUBSET Due]
  BY TypedParts
<1> QED
  BY <1>1, ThrowsMoves DEF ParkAlone

LEMMA QuietTyped ==
    ASSUME Typed, UNCHANGED <<park, wake>>, Books', due' \in [Proc -> SUBSET Due]
    PROVE  Typed'
<1>1. Places'
  BY DEF Typed, Places
<1> QED
  BY <1>1 DEF Typed, TypeOK, Books

LEMMA AskTyped == ASSUME Typed, NEW p \in Proc, Ask(p) PROVE Typed'
<1>1. waiting' \in Waiting
  <2>1. waiting \in Waiting
    BY TypedParts DEF Books
  <2> QED
    BY <2>1, WaitingTypes DEF Ask
<1>2. park' \in Parks /\ ParkAlone(p, "ask")
  BY ToTyped DEF Ask, PC, Thread
<1>3. Books' /\ due' \in [Proc -> SUBSET Due]
  BY <1>1, TypedParts DEF Ask, Books
<1> QED
  BY <1>2, <1>3, ParkStepTyped DEF Ask, Thread

LEMMA ReplyTyped == ASSUME Typed, NEW p \in Proc, Reply(p) PROVE Typed'
<1>1. waiting' \in Waiting
  BY TypedParts, WaitingTypes DEF Reply, Books
<1>2. due' \in [Proc -> SUBSET Due]
  BY TypedParts, ArmTypes DEF Reply, Due
<1>3. Books'
  BY <1>1, TypedParts DEF Reply, Books
<1> QED
  BY <1>2, <1>3, QuietTyped DEF Reply

LEMMA DeliverTyped == ASSUME Typed, NEW p \in Proc, NEW t \in Thread, Deliver(p, t) PROVE Typed'
<1>1. waiting' \in Waiting
  BY TypedParts, WaitingTypes DEF Deliver, Books
<1>2. due' \in [Proc -> SUBSET Due]
  <2>1. \A h \in Proc \union {None, Gone} : (IF h = p THEN {} ELSE {"sweep"}) \in SUBSET Due
    BY DEF Due
  <2> QED
    BY <2>1, TypedParts, ArmTypes DEF Deliver, Books, Waiting, Holder
<1>3. park' \in Parks /\ ParkAlone(p, t)
  <2>1. PICK pc \in {"idle", "posting"} : To(p, t, pc)
    BY DEF Deliver
  <2> QED
    BY <2>1, ToTyped DEF PC
<1> QED
  BY <1>1, <1>2, <1>3, TypedParts, ParkStepTyped DEF Deliver, Books

LEMMA DeliveredTyped ==
    ASSUME Typed, NEW p \in Proc, NEW t \in Thread, Delivered(p, t) \/ DeliveryFails(p, t)
    PROVE  Typed'
<1>1. waiting' \in Waiting
  BY TypedParts, WaitingTypes DEF Delivered, DeliveryFails, Books
<1>2. due' \in [Proc -> SUBSET Due]
  <2>1. PICK S \in SUBSET Due : Arm(p, S)
    BY DEF Delivered, DeliveryFails, Drain, Due
  <2> QED
    BY <2>1, TypedParts, ArmTypes
<1>3. park' \in Parks /\ ParkAlone(p, t)
  BY ToTyped DEF Delivered, DeliveryFails, PC
<1>4. faults' \in 0 .. MaxFaults
  BY TypedParts, FaultTypes DEF Delivered, DeliveryFails, Books
<1> QED
  BY <1>1, <1>2, <1>3, <1>4, TypedParts, ParkStepTyped DEF Delivered, DeliveryFails, Books

LEMMA SweepFiresTyped == ASSUME Typed, NEW p \in Proc, SweepFires(p) PROVE Typed'
<1>1. due' \in [Proc -> SUBSET Due]
  BY TypedParts DEF SweepFires
<1>2. park' \in Parks /\ ParkAlone(p, "sweep")
  <2>1. CASE UNCHANGED park
    BY <2>1, TypedParts DEF ParkAlone, Places, Thread
  <2>2. CASE \E pc \in {"deliver", "save"} : To(p, "sweep", pc)
    BY <2>2, ToTyped DEF PC, Thread
  <2> QED
    BY <2>1, <2>2 DEF SweepFires
<1>3. Books'
  BY TypedParts DEF SweepFires, Books
<1> QED
  BY <1>1, <1>2, <1>3, ParkStepTyped DEF SweepFires, Thread

LEMMA DriveFiresTyped == ASSUME Typed, NEW p \in Proc, DriveFires(p) PROVE Typed'
<1>1. due' \in [Proc -> SUBSET Due]
  BY TypedParts DEF DriveFires
<1>2. park' \in Parks /\ ParkAlone(p, "drive")
  <2>1. CASE UNCHANGED park
    BY <2>1, TypedParts DEF ParkAlone, Places, Thread
  <2>2. CASE To(p, "drive", "save")
    BY <2>2, ToTyped DEF PC, Thread
  <2> QED
    BY <2>1, <2>2 DEF DriveFires
<1>3. Books'
  BY TypedParts DEF DriveFires, Books
<1> QED
  BY <1>1, <1>2, <1>3, ParkStepTyped DEF DriveFires, Thread

LEMMA ParkSaveTyped ==
    ASSUME Typed, NEW p \in Proc, NEW t \in Thread, ParkSave(p, t) PROVE Typed'
<1>1. PICK e : e = [pc |-> "release", at |-> 1, live |-> held[p] # "none"]
  OBVIOUS
<1>2. e \in Park /\ e.pc = "release"
  BY <1>1, TeamFacts DEF Park
<1>3. park' = [park EXCEPT ![p][t] = e]
  BY <1>1 DEF ParkSave
<1>4. park' \in Parks /\ ParkAlone(p, t)
  BY <1>2, <1>3, EntryTyped
<1>5. row' \in Row
  BY TypedParts, RowTypes DEF ParkSave, Books
<1>6. held' \in [Proc -> Held]
  BY TypedParts DEF ParkSave, Books, Held
<1> QED
  BY <1>4, <1>5, <1>6, TypedParts, ParkStepTyped DEF ParkSave, Books

LEMMA ParkNextTyped ==
    ASSUME Typed, NEW p \in Proc, NEW t \in Thread, ParkNext(p, t) PROVE Typed'
<1>1. Books'
  BY TypedParts DEF ParkNext, Books
<1>2. due' \in [Proc -> SUBSET Due] /\ park' \in Parks /\ ParkAlone(p, t)
  <2>1. CASE Throws(p, t)
    BY <2>1, ThrowsTyped
  <2>2. CASE UNCHANGED due /\ park[p][t].at <= Len(Team)
             /\ park' = [park EXCEPT ![p][t].at = park[p][t].at + 1]
    <3>1. PICK e : e = [park[p][t] EXCEPT !.at = @ + 1]
      OBVIOUS
    <3>2. park[p][t] \in Park /\ park[p][t].pc = "release"
      BY TypedParts DEF Parks, ParkNext
    <3>3. e \in Park /\ e.pc = "release"
      BY <2>2, <3>1, <3>2, TeamFacts DEF Park
    <3>4. park' = [park EXCEPT ![p][t] = e]
      BY <2>2, <3>1, TypedParts DEF Parks
    <3> QED
      BY <2>2, <3>3, <3>4, TypedParts, EntryTyped
  <2>3. CASE UNCHANGED due /\ park[p][t].at <= Len(Team) /\ To(p, t, "grace")
    BY <2>3, TypedParts, ToTyped DEF PC
  <2>4. CASE UNCHANGED due /\ To(p, t, "mark")
    BY <2>4, TypedParts, ToTyped DEF PC
  <2> QED
    BY <2>1, <2>2, <2>3, <2>4 DEF ParkNext
<1> QED
  BY <1>1, <1>2, ParkStepTyped DEF ParkNext

LEMMA ReleaseTyped ==
    ASSUME Typed, NEW p \in Proc, NEW t \in Thread,
           ReleaseLands(p, t) \/ ReleaseFails(p, t)
    PROVE  Typed'
<1>1. park[p][t].at <= Len(Team)
  BY TypedParts DEF Places, ReleaseLands, ReleaseFails
<1>2. park' \in Parks /\ ParkAlone(p, t)
  <2>1. PICK pc \in {"forced", "check"} : To(p, t, pc)
    BY DEF ReleaseLands, ReleaseFails, AfterCall
  <2> QED
    BY <1>1, <2>1, ToTyped DEF PC
<1>3. faults' \in 0 .. MaxFaults
  BY TypedParts, FaultTypes DEF ReleaseLands, ReleaseFails, Books
<1>4. Books'
  BY <1>3, TypedParts DEF ReleaseLands, ReleaseFails, Books
<1>5. UNCHANGED <<wake, due>>
  BY DEF ReleaseLands, ReleaseFails
<1> QED
  BY <1>2, <1>4, <1>5, TypedParts, ParkStepTyped

LEMMA GraceExpiresTyped ==
    ASSUME Typed, NEW p \in Proc, NEW t \in Thread, GraceExpires(p, t) PROVE Typed'
<1>1. park[p][t].at <= Len(Team)
  BY TypedParts DEF Places, GraceExpires
<1>2. park' \in Parks /\ ParkAlone(p, t)
  <2>1. PICK pc \in {"forced", "check"} : To(p, t, pc)
    BY DEF GraceExpires, AfterCall
  <2> QED
    BY <1>1, <2>1, ToTyped DEF PC
<1>3. faults' \in 0 .. MaxFaults
  BY TypedParts, FaultTypes DEF GraceExpires, Books
<1>4. PICK c : c = [agent |-> Team[park[p][t].at], thread |-> t, kind |-> park[p][t].pc]
  OBVIOUS
<1>5. c \in Call
  <2>1. park[p][t] \in Park
    BY TypedParts DEF Parks
  <2>2. park[p][t].at \in 1 .. Len(Team)
    BY <1>1, <2>1 DEF Park
  <2> QED
    BY <1>4, <2>2, TeamFacts DEF Call, GraceExpires
<1>6. /\ calls' = [calls EXCEPT ![p] = @ \union {c}]
      /\ fence' = [fence EXCEPT ![p] = @ \union {c}]
  BY <1>4 DEF GraceExpires, Fenced
<1>7. calls' \in [Proc -> SUBSET Call] /\ fence' \in [Proc -> SUBSET Call]
  BY <1>5, <1>6, TypedParts DEF Books
<1> QED
  BY <1>2, <1>3, <1>7, TypedParts, ParkStepTyped DEF GraceExpires, Books

LEMMA ParkCheckTyped ==
    ASSUME Typed, NEW p \in Proc, NEW t \in Thread, ParkCheck(p, t) PROVE Typed'
<1>1. park[p][t] \in Park /\ park[p][t].pc = "check" /\ park[p][t].at <= Len(Team)
  BY TypedParts DEF Places, ParkCheck, Parks
<1>2. park[p][t].at \in 1 .. Len(Team)
  BY <1>1 DEF Park
<1>3. waiting' \in Waiting
  <2>1. Team[park[p][t].at] \in Agents
    BY <1>2, TeamFacts
  <2> QED
    BY <2>1, TypedParts, WaitingTypes DEF ParkCheck, Books
<1>4. due' \in [Proc -> SUBSET Due] /\ park' \in Parks /\ ParkAlone(p, t)
  <2>1. CASE Throws(p, t)
    BY <2>1, ThrowsTyped
  <2>2. CASE ~Throws(p, t)
    <3>1. PICK e : e = [park[p][t] EXCEPT !.pc = "release", !.at = @ + 1]
      OBVIOUS
    <3>2. e \in Park /\ e.pc = "release"
      <4>1. park[p][t].at + 1 \in 1 .. Len(Team) + 1
        BY <1>2, TeamFacts
      <4>2. e = [pc |-> "release", at |-> park[p][t].at + 1, live |-> park[p][t].live]
        BY <1>1, <3>1 DEF Park
      <4>3. park[p][t].live \in BOOLEAN
        BY <1>1 DEF Park
      <4> QED
        BY <4>1, <4>2, <4>3 DEF Park
    <3>3. park' = [park EXCEPT ![p][t].pc = "release", ![p][t].at = @ + 1] /\ UNCHANGED due
      BY <2>2 DEF ParkCheck
    <3>4. park' = [park EXCEPT ![p][t] = e]
      BY <3>1, <3>3, TypedParts DEF Parks
    <3> QED
      BY <3>2, <3>3, <3>4, TypedParts, EntryTyped
  <2> QED
    BY <2>1, <2>2
<1> QED
  BY <1>3, <1>4, TypedParts, ParkStepTyped DEF ParkCheck, Books

LEMMA ParkMarkTyped ==
    ASSUME Typed, NEW p \in Proc, NEW t \in Thread, ParkMark(p, t) PROVE Typed'
<1>1. waiting' \in Waiting
  BY TypedParts, WaitingTypes DEF ParkMark, Books
<1>2. held' \in [Proc -> Held]
  BY TypedParts DEF ParkMark, Books, Held
<1>3. due' \in [Proc -> SUBSET Due] /\ park' \in Parks /\ ParkAlone(p, t)
  <2>1. CASE Throws(p, t)
    BY <2>1, ThrowsTyped
  <2>2. CASE To(p, t, "saved") /\ UNCHANGED due
    BY <2>2, TypedParts, ToTyped DEF PC
  <2> QED
    BY <2>1, <2>2 DEF ParkMark
<1> QED
  BY <1>1, <1>2, <1>3, TypedParts, ParkStepTyped DEF ParkMark, Books

LEMMA ParkSavedTyped ==
    ASSUME Typed, NEW p \in Proc, NEW t \in Thread, ParkSaved(p, t) PROVE Typed'
<1>1. park' \in Parks /\ ParkAlone(p, t)
  BY ToTyped DEF ParkSaved, PC
<1>2. row' \in Row
  BY TypedParts, RowTypes DEF ParkSaved, Books
<1> QED
  BY <1>1, <1>2, TypedParts, ParkStepTyped DEF ParkSaved, Books

LEMMA ParkCompleteTyped ==
    ASSUME Typed, NEW p \in Proc, NEW t \in Thread, ParkComplete(p, t) PROVE Typed'
<1>1. park' \in Parks /\ ParkAlone(p, t)
  <2>1. PICK pc \in {"idle", "deliver"} : To(p, t, pc)
    BY DEF ParkComplete, After
  <2> QED
    BY <2>1, ToTyped DEF PC
<1>2. held' \in [Proc -> Held]
  BY TypedParts DEF ParkComplete, Books, Held
<1>3. due' \in [Proc -> SUBSET Due]
  <2>1. PICK S \in SUBSET Due : Arm(p, S)
    BY DEF ParkComplete, Drain, Due
  <2> QED
    BY <2>1, TypedParts, ArmTypes
<1> QED
  BY <1>1, <1>2, <1>3, TypedParts, ParkStepTyped DEF ParkComplete, Books

(* The work beside, the timers and the calls.                              *)
LEMMA BesideTyped ==
    ASSUME Typed, NEW p \in Proc, OtherStarts(p) \/ OtherEnds(p) \/ DrainFires(p)
    PROVE  Typed'
<1>1. busy' \in [Proc -> BOOLEAN]
  BY TypedParts DEF OtherStarts, OtherEnds, DrainFires, Books
<1>2. faults' \in 0 .. MaxFaults
  BY TypedParts, FaultTypes DEF OtherStarts, OtherEnds, DrainFires, Books
<1>3. due' \in [Proc -> SUBSET Due]
  BY TypedParts, ArmTypes DEF OtherStarts, OtherEnds, DrainFires, Due
<1>4. Books'
  BY <1>1, <1>2, TypedParts DEF OtherStarts, OtherEnds, DrainFires, Books
<1> QED
  BY <1>3, <1>4, QuietTyped DEF OtherStarts, OtherEnds, DrainFires

LEMMA WakeCallTyped ==
    ASSUME Typed, NEW p \in Proc, NEW s, WakeCall(p, s) PROVE Typed'
<1>1. due' \in [Proc -> SUBSET Due]
  BY TypedParts DEF WakeCall, Due
<1>2. Books'
  BY TypedParts DEF WakeCall, Books
<1> QED
  BY <1>1, <1>2, QuietTyped DEF WakeCall

-----------------------------------------------------------------------------
(* The types of a wake *)

(* A wake of a process moves: its wake, its timers and the books change.   *)
LEMMA WakeStepTyped ==
    ASSUME Typed, NEW p \in Proc, NEW e \in Wake, wake' = [wake EXCEPT ![p] = e],
           e.pc = "start" => e.at <= Len(Team),
           UNCHANGED park, Books', due' \in [Proc -> SUBSET Due]
    PROVE  Typed'
<1>1. Places' /\ wake' \in [Proc -> Wake]
  BY WakeTyped
<1>2. park' \in Parks
  BY TypedParts
<1> QED
  BY <1>1, <1>2 DEF Typed, TypeOK, Books, Parks

LEMMA WakeEndsStepTyped ==
    ASSUME Typed, NEW p \in Proc, WakeEnds(p),
           UNCHANGED park, Books', due' \in [Proc -> SUBSET Due]
    PROVE  Typed'
<1>1. Places' /\ wake' \in [Proc -> Wake]
  BY WakeEndsTyped
<1>2. park' \in Parks
  BY TypedParts
<1> QED
  BY <1>1, <1>2 DEF Typed, TypeOK, Books, Parks

LEMMA ClaimTyped ==
    ASSUME Typed, NEW p \in Proc, NEW q, NEW s, WakeClaim(p, s) \/ WakeTaken(p, q)
    PROVE  Typed'
<1>1. PICK e : e = [wake[p] EXCEPT !.pc = "claimed"]
  OBVIOUS
<1>2. wake \in [Proc -> Wake]
  BY TypedParts
<1>3. e \in Wake /\ e.pc = "claimed" /\ wake' = [wake EXCEPT ![p] = e]
  BY <1>1, <1>2 DEF WakeClaim, WakeTaken, Wake
<1>4. waiting' \in Waiting
  BY TypedParts, WaitingTypes DEF WakeClaim, WakeTaken, Books
<1>5. faults' \in 0 .. MaxFaults
  BY TypedParts, FaultTypes DEF WakeClaim, WakeTaken, Books
<1>6. Books'
  BY <1>4, <1>5, TypedParts DEF WakeClaim, WakeTaken, Books
<1>7. due' \in [Proc -> SUBSET Due] /\ UNCHANGED park
  BY TypedParts DEF WakeClaim, WakeTaken
<1> QED
  BY <1>3, <1>6, <1>7, WakeStepTyped

LEMMA WakeOverTyped ==
    ASSUME Typed, NEW p \in Proc, WakeCancelled(p) \/ WakeTurnedAway(p) \/ WakeDone(p)
    PROVE  Typed'
<1>1. waiting' \in Waiting
  BY TypedParts, WaitingTypes DEF WakeCancelled, WakeTurnedAway, WakeDone, Books
<1>2. row' \in Row
  BY TypedParts, RowTypes DEF WakeCancelled, WakeTurnedAway, WakeDone, Books
<1>3. Books'
  BY <1>1, <1>2, TypedParts DEF WakeCancelled, WakeTurnedAway, WakeDone, Books
<1> QED
  BY <1>3, TypedParts, WakeEndsStepTyped DEF WakeCancelled, WakeTurnedAway, WakeDone

LEMMA WakeRoomTyped ==
    ASSUME Typed, NEW p \in Proc, WakeFindsFull(p) \/ WakeFindsRoom(p)
    PROVE  Typed'
<1>1. wake \in [Proc -> Wake]
  BY TypedParts
<1>2. PICK pc \in {"full", "room"} : wake' = [wake EXCEPT ![p].pc = pc]
  BY DEF WakeFindsFull, WakeFindsRoom
<1>3. PICK e : e = [wake[p] EXCEPT !.pc = pc]
  OBVIOUS
<1>4. e \in Wake /\ e.pc = pc /\ wake' = [wake EXCEPT ![p] = e]
  BY <1>1, <1>2, <1>3 DEF Wake
<1>5. Books'
  BY TypedParts DEF WakeFindsFull, WakeFindsRoom, Books
<1> QED
  BY <1>2, <1>4, <1>5, TypedParts, WakeStepTyped DEF WakeFindsFull, WakeFindsRoom

LEMMA WakeRowTyped == ASSUME Typed, NEW p \in Proc, WakeRow(p) PROVE Typed'
<1>1. row' \in Row /\ waiting' \in Waiting
  BY TypedParts, RowTypes, WaitingTypes DEF WakeRow, Books
<1>2. held' \in [Proc -> Held]
  BY TypedParts DEF WakeRow, Books, Held
<1>3. due' \in [Proc -> SUBSET Due]
  BY TypedParts, ArmTypes DEF WakeRow, Due
<1>4. Books'
  BY <1>1, <1>2, TypedParts DEF WakeRow, Books
<1>5. UNCHANGED park
  BY DEF WakeRow
<1>6. CASE WakeEnds(p)
  BY <1>3, <1>4, <1>5, <1>6, WakeEndsStepTyped
<1>7. CASE wake' = [wake EXCEPT ![p].pc = "rowed"]
  <2>1. wake \in [Proc -> Wake]
    BY TypedParts
  <2>2. PICK e : e = [wake[p] EXCEPT !.pc = "rowed"]
    OBVIOUS
  <2>3. e \in Wake /\ e.pc = "rowed" /\ wake' = [wake EXCEPT ![p] = e]
    BY <1>7, <2>1, <2>2 DEF Wake
  <2> QED
    BY <1>3, <1>4, <1>5, <2>3, WakeStepTyped
<1> QED
  BY <1>6, <1>7 DEF WakeRow

(* The wakes that leave the books alone, but for the bound on faults.      *)
LEMMA WakeMovesTyped ==
    ASSUME Typed, NEW p \in Proc, NEW e \in Wake, wake' = [wake EXCEPT ![p] = e],
           e.pc = "start" => e.at <= Len(Team),
           UNCHANGED <<waiting, row, park, held, busy, calls, fence, due, recovering, turnedAway>>,
           online' \in SUBSET Agents, briefed' \in SUBSET Agents, faults' \in 0 .. MaxFaults
    PROVE  Typed'
<1>1. Books'
  BY TypedParts DEF Books
<1> QED
  BY <1>1, TypedParts, WakeStepTyped

LEMMA WakeRosterTyped == ASSUME Typed, NEW p \in Proc, WakeRoster(p) PROVE Typed'
<1>1. wake[p] \in Wake /\ online \in SUBSET Agents
  BY TypedParts DEF Books
<1>2. PICK e : e = [wake[p] EXCEPT !.pc = "team", !.roster = online]
  OBVIOUS
<1>3. e \in Wake /\ e.pc = "team"
  BY <1>1, <1>2 DEF Wake
<1>4. wake' = [wake EXCEPT ![p] = e]
  BY <1>2, TypedParts DEF WakeRoster
<1> QED
  BY <1>3, <1>4, TypedParts, WakeMovesTyped DEF WakeRoster, Books

LEMMA WakeAgentTyped == ASSUME Typed, NEW p \in Proc, WakeAgent(p) PROVE Typed'
<1>1. wake[p] \in Wake /\ wake \in [Proc -> Wake]
  BY TypedParts
<1>2. wake[p].at \in 1 .. Len(Team)
  <2>1. wake[p].at \in 1 .. Len(Team) + 1 /\ Len(Team) \in Nat
    BY <1>1, TeamFacts DEF Wake
  <2>2. wake[p].at <= Len(Team)
    BY DEF WakeAgent
  <2> QED
    BY <2>1, <2>2
<1>3. wake[p].at + 1 \in 1 .. Len(Team) + 1 /\ Team[wake[p].at] \in Agents
  BY <1>2, TeamFacts
<1>4. CASE wake' = [wake EXCEPT ![p].resumed = @ \union {Team[wake[p].at]}, ![p].at = @ + 1]
  <2>1. PICK e : e = [wake[p] EXCEPT !.resumed = @ \union {Team[wake[p].at]}, !.at = @ + 1]
    OBVIOUS
  <2>2. e = [pc |-> wake[p].pc, at |-> wake[p].at + 1, roster |-> wake[p].roster,
             resumed |-> wake[p].resumed \union {Team[wake[p].at]},
             awaited |-> wake[p].awaited, seen |-> wake[p].seen]
    BY <1>1, <2>1 DEF Wake
  <2>3. e \in Wake /\ e.pc = "team"
    BY <1>1, <1>3, <2>2 DEF Wake, WakeAgent
  <2>4. wake' = [wake EXCEPT ![p] = e]
    BY <1>1, <1>4, <2>1
  <2> QED
    BY <2>3, <2>4, TypedParts, WakeMovesTyped DEF WakeAgent, Books
<1>5. CASE wake' = [wake EXCEPT ![p].pc = "start",
                                ![p].awaited = {c \in fence[p] : c.agent = Team[wake[p].at]},
                                ![p].seen = {c \in calls[p] : c.agent = Team[wake[p].at]}]
  <2>1. PICK e : e = [wake[p] EXCEPT !.pc = "start",
                                     !.awaited = {c \in fence[p] : c.agent = Team[wake[p].at]},
                                     !.seen = {c \in calls[p] : c.agent = Team[wake[p].at]}]
    OBVIOUS
  <2>2. fence[p] \subseteq Call /\ calls[p] \subseteq Call
    BY TypedParts DEF Books
  <2>3. e \in Wake /\ e.at = wake[p].at
    BY <1>1, <2>1, <2>2 DEF Wake
  <2>4. wake' = [wake EXCEPT ![p] = e]
    BY <1>1, <1>5, <2>1
  <2> QED
    BY <1>2, <2>3, <2>4, TypedParts, WakeMovesTyped DEF WakeAgent, Books
<1> QED
  BY <1>4, <1>5 DEF WakeAgent

LEMMA WakeStartTyped == ASSUME Typed, NEW p \in Proc, WakeStart(p) PROVE Typed'
<1>1. wake[p] \in Wake /\ wake \in [Proc -> Wake] /\ wake[p].pc = "start"
  BY TypedParts DEF WakeStart
<1>2. wake[p].at \in 1 .. Len(Team)
  <2>1. wake[p].at \in 1 .. Len(Team) + 1 /\ Len(Team) \in Nat
    BY <1>1, TeamFacts DEF Wake
  <2>2. wake[p].at <= Len(Team)
    BY <1>1, TypedParts DEF Places
  <2> QED
    BY <2>1, <2>2
<1>3. wake[p].at + 1 \in 1 .. Len(Team) + 1 /\ Team[wake[p].at] \in Agents
  BY <1>2, TeamFacts
<1>4. PICK e : e = [wake[p] EXCEPT !.pc = "team", !.seen = {},
                                   !.resumed = @ \union {Team[wake[p].at]}, !.at = @ + 1]
  OBVIOUS
<1>5. e = [pc |-> "team", at |-> wake[p].at + 1, roster |-> wake[p].roster,
           resumed |-> wake[p].resumed \union {Team[wake[p].at]},
           awaited |-> wake[p].awaited, seen |-> {}]
  BY <1>1, <1>4 DEF Wake
<1>6. e \in Wake /\ e.pc = "team"
  BY <1>1, <1>3, <1>5 DEF Wake
<1>7. wake' = [wake EXCEPT ![p] = e]
  BY <1>1, <1>4 DEF WakeStart
<1>8. online' \in SUBSET Agents /\ briefed' \in SUBSET Agents
  BY <1>3, TypedParts DEF WakeStart, Books
<1> QED
  BY <1>6, <1>7, <1>8, TypedParts, WakeMovesTyped DEF WakeStart, Books

LEMMA WakeStartFailsTyped == ASSUME Typed, NEW p \in Proc, WakeStartFails(p) PROVE Typed'
<1>1. wake[p] \in Wake /\ wake \in [Proc -> Wake]
  BY TypedParts
<1>2. PICK e : e = [wake[p] EXCEPT !.pc = "undo", !.awaited = {}, !.seen = {}]
  OBVIOUS
<1>3. e \in Wake /\ e.pc = "undo"
  BY <1>1, <1>2 DEF Wake
<1>4. wake' = [wake EXCEPT ![p] = e]
  BY <1>1, <1>2 DEF WakeStartFails
<1>5. faults' \in 0 .. MaxFaults
  BY TypedParts, FaultTypes DEF WakeStartFails, Books
<1> QED
  BY <1>3, <1>4, <1>5, TypedParts, WakeMovesTyped DEF WakeStartFails, Books

LEMMA WakeGivenUpTyped ==
    ASSUME Typed, NEW p \in Proc, WakeUndo(p) \/ WakeLost(p)
    PROVE  Typed'
<1>1. waiting' \in Waiting
  BY TypedParts, WaitingTypes DEF WakeUndo, WakeLost, Books
<1>2. held' \in [Proc -> Held]
  BY TypedParts DEF WakeUndo, WakeLost, Books, Held
<1>3. due' \in [Proc -> SUBSET Due]
  BY TypedParts, ArmTypes DEF WakeUndo, WakeLost, Due
<1>4. online' \in SUBSET Agents
  BY TypedParts DEF WakeUndo, WakeLost, Books
<1>5. Books'
  BY <1>1, <1>2, <1>4, TypedParts DEF WakeUndo, WakeLost, Books
<1> QED
  BY <1>3, <1>5, WakeEndsStepTyped DEF WakeUndo, WakeLost

LEMMA LateReleaseTyped ==
    ASSUME Typed, NEW p \in Proc, NEW c, LateRelease(p, c) PROVE Typed'
<1>1. wake[p] \in Wake /\ wake \in [Proc -> Wake]
  BY TypedParts
<1>2. PICK e : e = [wake[p] EXCEPT !.awaited = @ \ {c}, !.seen = @ \ {c}]
  OBVIOUS
<1>3. e \in Wake /\ e.pc = wake[p].pc /\ e.at = wake[p].at
  BY <1>1, <1>2 DEF Wake
<1>4. wake' = [wake EXCEPT ![p] = e]
  BY <1>1, <1>2 DEF LateRelease
<1>5. /\ calls' \in [Proc -> SUBSET Call] /\ fence' \in [Proc -> SUBSET Call]
      /\ online' \in SUBSET Agents
  BY TypedParts DEF LateRelease, Books
<1>6. Books'
  BY <1>5, TypedParts DEF LateRelease, Books
<1>7. e.pc = "start" => e.at <= Len(Team)
  BY <1>3, TypedParts DEF Places
<1> QED
  BY <1>3, <1>4, <1>6, <1>7, TypedParts, WakeStepTyped DEF LateRelease

-----------------------------------------------------------------------------
(* The types after a crash, a lapse or a recovery *)

LEMMA CrashTyped == ASSUME Typed, NEW p \in Proc, Crash(p) PROVE Typed'
<1>1. PICK e : e = [t \in Thread |-> Resting]
  OBVIOUS
<1>2. e \in [Thread -> Park] /\ \A t \in Thread : e[t].pc = "idle"
  BY <1>1, TeamFacts DEF Resting, Park
<1>3. park' = [park EXCEPT ![p] = e]
  BY <1>1 DEF Crash
<1>4. /\ park' \in Parks
      /\ \A q \in Proc, t \in Thread :
            park'[q][t].pc \in {"grace", "forced", "check"} => park'[q][t] = park[q][t]
  BY <1>2, <1>3, TypedParts DEF Parks
<1>5. PICK w : w = Asleep
  OBVIOUS
<1>6. w \in Wake /\ w.pc = "idle" /\ wake' = [wake EXCEPT ![p] = w]
  BY <1>5, TeamFacts DEF Asleep, Wake, Crash, WakeEnds
<1>7. /\ wake' \in [Proc -> Wake]
      /\ \A q \in Proc : wake'[q].pc = "start" => wake'[q] = wake[q]
  BY <1>6, TypedParts
<1>8. Places'
  BY <1>4, <1>7, TypedParts DEF Places
<1>9. waiting' \in Waiting /\ row' \in Row
  BY TypedParts, WaitingTypes, RowTypes DEF Crash, Books
<1>10. online' \in SUBSET Agents /\ briefed' \in SUBSET Agents
  BY TypedParts DEF Crash, Books
<1>11. held' \in [Proc -> Held] /\ busy' \in [Proc -> BOOLEAN]
  BY TypedParts DEF Crash, Books, Held
<1>12. /\ calls' \in [Proc -> SUBSET Call] /\ fence' \in [Proc -> SUBSET Call]
       /\ recovering' \in [Proc -> SUBSET Agents] /\ due' \in [Proc -> SUBSET Due]
  BY TypedParts DEF Crash, Books, Due
<1>13. turnedAway' \in BOOLEAN /\ faults' \in 0 .. MaxFaults
  BY TypedParts, FaultTypes DEF Crash, Books
<1> QED
  BY <1>4, <1>7, <1>8, <1>9, <1>10, <1>11, <1>12, <1>13 DEF Typed, TypeOK, Parks

LEMMA LapseTyped == ASSUME Typed, Lapse PROVE Typed'
<1>1. waiting' \in Waiting
  BY TypedParts DEF Lapse, Books, Waiting, Holder
<1>2. row' \in Row
  BY TypedParts DEF Lapse, Books, Row, Holder
<1>3. Books'
  BY <1>1, <1>2, TypedParts DEF Lapse, Books
<1> QED
  BY <1>3, TypedParts, QuietTyped DEF Lapse

LEMMA RecoverTyped == ASSUME Typed, NEW p \in Proc, Recover(p) PROVE Typed'
<1>1. row' \in Row
  BY TypedParts, RowTypes DEF Recover, Books
<1>2. held' \in [Proc -> Held]
  BY TypedParts DEF Recover, Books, Held
<1>3. due' \in [Proc -> SUBSET Due]
  BY TypedParts, ArmTypes DEF Recover, Due
<1>4. Books'
  BY <1>1, <1>2, TypedParts DEF Recover, Books
<1> QED
  BY <1>3, <1>4, QuietTyped DEF Recover

-----------------------------------------------------------------------------
(* Every step, under names by which its effects are told apart *)

ParkSteps(p, t) ==
    \/ ParkSave(p, t) \/ ParkNext(p, t) \/ ReleaseLands(p, t) \/ ReleaseFails(p, t)
    \/ ParkCheck(p, t) \/ ParkMark(p, t) \/ ParkSaved(p, t) \/ ParkComplete(p, t)
    \/ Deliver(p, t) \/ Delivered(p, t) \/ DeliveryFails(p, t)

QuietSteps(p) ==
    \/ Reply(p) \/ SweepFires(p) \/ DriveFires(p)
    \/ OtherStarts(p) \/ OtherEnds(p) \/ DrainFires(p) \/ Recover(p)
    \/ \E s \in {"answer", "retry"} : WakeCall(p, s)

LeaseSteps(p) ==
    \/ \E s \in {"answer", "retry"} : WakeClaim(p, s)
    \/ \E q \in Proc : WakeTaken(p, q)

EndSteps(p) ==
    WakeCancelled(p) \/ WakeTurnedAway(p) \/ WakeUndo(p) \/ WakeDone(p) \/ WakeLost(p)

RoomSteps(p) == WakeFindsFull(p) \/ WakeFindsRoom(p)

LEMMA NextSteps ==
    ASSUME Next
    PROVE  \/ Lapse
           \/ \E p \in Proc :
                 \/ Ask(p) \/ QuietSteps(p) \/ LeaseSteps(p) \/ EndSteps(p) \/ RoomSteps(p)
                 \/ WakeRow(p) \/ WakeRoster(p) \/ WakeAgent(p) \/ WakeStart(p)
                 \/ WakeStartFails(p) \/ Crash(p)
                 \/ \E t \in Thread : ParkSteps(p, t) \/ GraceExpires(p, t)
                 \/ \E c \in calls[p] : LateRelease(p, c)
BY DEF Next, ParkStep, ParkFault, WakeStep, ParkSteps, QuietSteps, LeaseSteps, EndSteps,
       RoomSteps

LEMMA TypeStep == ASSUME Typed, [Next]_vars PROVE Typed'
<1>1. CASE UNCHANGED vars
  BY <1>1 DEF vars, Typed, TypeOK, Places
<1>2. ASSUME NEW p \in Proc, NEW t \in Thread, ParkSteps(p, t) \/ GraceExpires(p, t)
      PROVE  Typed'
  BY <1>2, ParkSaveTyped, ParkNextTyped, ReleaseTyped, GraceExpiresTyped, ParkCheckTyped,
     ParkMarkTyped, ParkSavedTyped, ParkCompleteTyped, DeliverTyped, DeliveredTyped
     DEF ParkSteps
<1>3. ASSUME NEW p \in Proc, Ask(p) \/ QuietSteps(p) \/ Crash(p) PROVE Typed'
  BY <1>3, AskTyped, ReplyTyped, SweepFiresTyped, DriveFiresTyped, BesideTyped, RecoverTyped,
     WakeCallTyped, CrashTyped DEF QuietSteps
<1>4. ASSUME NEW p \in Proc, LeaseSteps(p) PROVE Typed'
  BY <1>4, ClaimTyped DEF LeaseSteps
<1>5. ASSUME NEW p \in Proc, EndSteps(p) \/ RoomSteps(p) \/ WakeRow(p) PROVE Typed'
  BY <1>5, WakeOverTyped, WakeGivenUpTyped, WakeRoomTyped, WakeRowTyped
     DEF EndSteps, RoomSteps
<1>6. ASSUME NEW p \in Proc,
             WakeRoster(p) \/ WakeAgent(p) \/ WakeStart(p) \/ WakeStartFails(p)
      PROVE  Typed'
  BY <1>6, WakeRosterTyped, WakeAgentTyped, WakeStartTyped, WakeStartFailsTyped
<1>7. ASSUME NEW p \in Proc, NEW c, LateRelease(p, c) PROVE Typed'
  BY <1>7, LateReleaseTyped
<1>8. CASE Next
  BY <1>2, <1>3, <1>4, <1>5, <1>6, <1>7, <1>8, LapseTyped, NextSteps
<1> QED
  BY <1>1, <1>8

-----------------------------------------------------------------------------
(* The gate *)

(* No gate is set and no lookup finds nobody, and nobody comes online.     *)
GateHolds ==
    /\ waiting'.parked => waiting.parked \/ Marking
    /\ \A q \in Proc, u \in Thread :
          park'[q][u].pc = "mark" => park[q][u].pc = "mark" \/ online = {}
    /\ online' \subseteq online \union (briefed' \ briefed)
    /\ briefed \subseteq briefed'

LEMMA GateKept == ASSUME GateInv, GateHolds PROVE GateInv'
BY DEF GateInv, GateHolds, Marking

(* Of the steps of a park, ParkNext alone comes to the mark.               *)
LEMMA ParkMarks ==
    ASSUME Typed, NEW p \in Proc, NEW t \in Thread, ParkSteps(p, t) \/ GraceExpires(p, t)
    PROVE  /\ \A q \in Proc, u \in Thread : q # p \/ u # t => park'[q][u] = park[q][u]
           /\ park'[p][t].pc = "mark" => online = {}
<1>1. park \in Parks /\ due \in [Proc -> SUBSET Due]
  BY TypedParts
<1>2. ASSUME NEW pc \in PC, To(p, t, pc), pc # "mark"
      PROVE  /\ \A q \in Proc, u \in Thread : q # p \/ u # t => park'[q][u] = park[q][u]
             /\ park'[p][t].pc # "mark"
  BY <1>1, <1>2, ToMoves
<1>3. CASE Throws(p, t)
  BY <1>1, <1>3, ThrowsMoves
<1>4. ASSUME NEW at, park' = [park EXCEPT ![p][t].at = at], park[p][t].pc = "release"
      PROVE  /\ \A q \in Proc, u \in Thread : q # p \/ u # t => park'[q][u] = park[q][u]
             /\ park'[p][t].pc # "mark"
  BY <1>1, <1>4 DEF Parks, Park
<1>5. CASE ParkNext(p, t) /\ ~Throws(p, t)
  <2>1. CASE To(p, t, "mark") /\ online = {}
    BY <1>1, <2>1, ToMoves DEF PC
  <2> QED
    BY <1>2, <1>4, <1>5, <2>1 DEF ParkNext, PC
<1>6. CASE ParkCheck(p, t) /\ ~Throws(p, t)
  <2>1. park' = [park EXCEPT ![p][t].pc = "release", ![p][t].at = @ + 1]
    BY <1>6 DEF ParkCheck
  <2> QED
    BY <1>1, <2>1 DEF Parks, Park
<1>7. CASE ParkSave(p, t)
  BY <1>1, <1>7 DEF ParkSave, Parks
<1>8. CASE ParkMark(p, t) /\ ~Throws(p, t)
  BY <1>2, <1>8 DEF ParkMark, PC
<1>9. CASE ReleaseLands(p, t) \/ ReleaseFails(p, t) \/ GraceExpires(p, t)
  BY <1>2, <1>9 DEF ReleaseLands, ReleaseFails, GraceExpires, AfterCall, PC
<1>10. CASE ParkSaved(p, t) \/ ParkComplete(p, t)
  BY <1>2, <1>10 DEF ParkSaved, ParkComplete, After, PC
<1>11. CASE Deliver(p, t) \/ Delivered(p, t) \/ DeliveryFails(p, t)
  BY <1>2, <1>11 DEF Deliver, Delivered, DeliveryFails, PC
<1> QED
  BY <1>3, <1>5, <1>6, <1>7, <1>8, <1>9, <1>10, <1>11 DEF ParkSteps

LEMMA ParkGate ==
    ASSUME Typed, GateInv, NEW p \in Proc, NEW t \in Thread,
           ParkSteps(p, t) \/ GraceExpires(p, t)
    PROVE  GateInv'
<1>1. \A q \in Proc, u \in Thread :
         park'[q][u].pc = "mark" => park[q][u].pc = "mark" \/ online = {}
  BY ParkMarks
<1>2. online' \subseteq online /\ briefed' = briefed
  BY DEF ParkSteps, ParkSave, ParkNext, ReleaseLands, ReleaseFails, ParkCheck, ParkMark,
         ParkSaved, ParkComplete, Deliver, Delivered, DeliveryFails, GraceExpires
<1>3. waiting'.parked => waiting.parked \/ Marking
  <2>1. waiting \in Waiting
    BY TypedParts DEF Books
  <2>2. CASE ParkMark(p, t)
    BY <2>2 DEF ParkMark, Marking
  <2>3. CASE ~ParkMark(p, t)
    BY <2>1, <2>3 DEF ParkSteps, ParkSave, ParkNext, ReleaseLands, ReleaseFails, ParkCheck,
         ParkSaved, ParkComplete, Deliver, Delivered, DeliveryFails, GraceExpires, Waiting
  <2> QED
    BY <2>2, <2>3
<1> QED
  BY <1>1, <1>2, <1>3, GateKept DEF GateHolds

(* The timers of a process start parks, but none at the mark.              *)
LEMMA QuietMarks ==
    ASSUME Typed, NEW p \in Proc, QuietSteps(p)
    PROVE  \A q \in Proc, u \in Thread : park'[q][u].pc = "mark" => park[q][u].pc = "mark"
<1>1. park \in Parks
  BY TypedParts
<1>2. ASSUME NEW t \in Thread, NEW pc \in PC, To(p, t, pc), pc # "mark"
      PROVE  \A q \in Proc, u \in Thread : park'[q][u].pc = "mark" => park[q][u].pc = "mark"
  BY <1>1, <1>2, ToMoves
<1>3. CASE UNCHANGED park
  BY <1>3
<1>4. CASE SweepFires(p)
  BY <1>2, <1>3, <1>4 DEF SweepFires, PC, Thread
<1>5. CASE DriveFires(p)
  BY <1>2, <1>3, <1>5 DEF DriveFires, PC, Thread
<1> QED
  BY <1>3, <1>4, <1>5 DEF QuietSteps, Reply, OtherStarts, OtherEnds, DrainFires, Recover,
     WakeCall

(* A new question finds its asker online and nobody started, so no park of *)
(* an earlier question is about to set the gate.                           *)
LEMMA AskGate == ASSUME Typed, GateInv, NEW p \in Proc, Ask(p) PROVE GateInv'
<1>1. ~Marking
  BY DEF Ask, GateInv
<1>2. waiting'.parked = FALSE
  BY DEF Ask, NoRecord
<1>3. ~Marking'
  <2>1. park \in Parks
    BY TypedParts
  <2> QED
    BY <1>1, <2>1, ToMoves DEF Ask, Marking, PC, Thread
<1> QED
  BY <1>2, <1>3 DEF GateInv

LEMMA GateStep == ASSUME Typed, GateInv, [Next]_vars PROVE GateInv'
<1>1. CASE UNCHANGED vars
  BY <1>1 DEF vars, GateInv, Marking
<1>2. waiting \in Waiting
  BY TypedParts DEF Books
<1>3. CASE Lapse
  <2>1. GateHolds
    BY <1>2, <1>3 DEF Lapse, GateHolds, Waiting
  <2> QED
    BY <2>1, GateKept
<1>4. ASSUME NEW p \in Proc, QuietSteps(p) PROVE GateInv'
  <2>1. waiting'.parked = waiting.parked /\ UNCHANGED <<online, briefed>>
    BY <1>2, <1>4 DEF QuietSteps, Reply, SweepFires, DriveFires, OtherStarts, OtherEnds,
       DrainFires, Recover, WakeCall, Waiting
  <2> QED
    BY <1>4, <2>1, QuietMarks, GateKept DEF GateHolds
<1>5. ASSUME NEW p \in Proc, LeaseSteps(p) \/ EndSteps(p) \/ RoomSteps(p) PROVE GateInv'
  <2>1. UNCHANGED <<park, briefed>> /\ online' \subseteq online
    BY <1>5 DEF LeaseSteps, WakeClaim, WakeTaken, EndSteps, WakeCancelled, WakeTurnedAway,
       WakeUndo, WakeDone, WakeLost, RoomSteps, WakeFindsFull, WakeFindsRoom
  <2>2. waiting'.parked => waiting.parked
    BY <1>2, <1>5 DEF LeaseSteps, WakeClaim, WakeTaken, EndSteps, WakeCancelled,
       WakeTurnedAway, WakeUndo, WakeDone, WakeLost, RoomSteps, WakeFindsFull,
       WakeFindsRoom, WakeReleased, NoRecord, Waiting
  <2> QED
    BY <2>1, <2>2, GateKept DEF GateHolds
<1>6. ASSUME NEW p \in Proc, WakeRow(p) \/ WakeRoster(p) \/ WakeAgent(p) \/ WakeStartFails(p)
      PROVE  GateInv'
  <2>1. UNCHANGED <<park, briefed, online>>
    BY <1>6 DEF WakeRow, WakeRoster, WakeAgent, WakeStartFails
  <2>2. waiting'.parked => waiting.parked
    BY <1>2, <1>6 DEF WakeRow, WakeRoster, WakeAgent, WakeStartFails, WakeReleased, Waiting
  <2> QED
    BY <2>1, <2>2, GateKept DEF GateHolds
<1>7. ASSUME NEW p \in Proc, WakeStart(p) PROVE GateInv'
  BY <1>7 DEF WakeStart, GateInv, Marking
<1>8. ASSUME NEW p \in Proc, Crash(p) PROVE GateInv'
  <2>1. waiting'.parked = waiting.parked /\ online' \subseteq online /\ UNCHANGED briefed
    BY <1>2, <1>8 DEF Crash, Waiting
  <2>2. \A q \in Proc, u \in Thread : park'[q][u].pc = "mark" => park[q][u].pc = "mark"
    <3>1. PICK e : e = [t \in Thread |-> Resting]
      OBVIOUS
    <3>2. \A t \in Thread : e[t].pc = "idle"
      BY <3>1 DEF Resting
    <3>3. park' = [park EXCEPT ![p] = e]
      BY <1>8, <3>1 DEF Crash
    <3> QED
      BY <3>2, <3>3, TypedParts DEF Parks
  <2> QED
    BY <2>1, <2>2, GateKept DEF GateHolds
<1>9. ASSUME NEW p \in Proc, NEW c, LateRelease(p, c) PROVE GateInv'
  <2>1. UNCHANGED <<waiting, park, briefed>> /\ online' \subseteq online
    BY <1>9 DEF LateRelease
  <2> QED
    BY <2>1, GateKept DEF GateHolds
<1>10. CASE Next
  BY <1>3, <1>4, <1>5, <1>6, <1>7, <1>8, <1>9, <1>10, ParkGate, AskGate, NextSteps
<1> QED
  BY <1>1, <1>10

-----------------------------------------------------------------------------
(* The wake lease *)

(* The lease of another process can be taken, but not while it starts an   *)
(* agent, and a process that gets a lease begins its wake anew.            *)
LeaseHolds(q) ==
    /\ wake'[q] = wake[q]
    /\ OwnsWake(q)' => OwnsWake(q)
    /\ wake[q].pc = "start" /\ OwnsWake(q) => OwnsWake(q)'
    /\ OwnsWake(q)' => online' \subseteq online

LEMMA LeaseKept == ASSUME NEW q \in Proc, LeaseInv(q), LeaseHolds(q) PROVE LeaseInv(q)'
BY DEF LeaseInv, LeaseHolds, Passed

(* A wake that does not start agents claims nothing about the roster.      *)
LEMMA LeaseAway ==
    ASSUME NEW q \in Proc, wake'[q].pc \notin {"team", "start"} PROVE LeaseInv(q)'
BY DEF LeaseInv

LeaseAll == \A q \in Proc : LeaseInv(q)

(* Steps that no wake takes.                                               *)
LEMMA ParkLease ==
    ASSUME Typed, LeaseAll, NEW p \in Proc, NEW t \in Thread,
           ParkSteps(p, t) \/ GraceExpires(p, t)
    PROVE  LeaseAll'
<1>1. UNCHANGED wake /\ online' \subseteq online
  BY DEF ParkSteps, ParkSave, ParkNext, ReleaseLands, ReleaseFails, ParkCheck, ParkMark,
         ParkSaved, ParkComplete, Deliver, Delivered, DeliveryFails, GraceExpires
<1>2. waiting'.open = waiting.open /\ waiting'.wake = waiting.wake
  <2>1. waiting \in Waiting
    BY TypedParts DEF Books
  <2> QED
    BY <2>1 DEF ParkSteps, ParkSave, ParkNext, ReleaseLands, ReleaseFails, ParkCheck, ParkMark,
         ParkSaved, ParkComplete, Deliver, Delivered, DeliveryFails, GraceExpires, Waiting
<1> QED
  BY <1>1, <1>2, LeaseKept DEF LeaseAll, LeaseHolds, OwnsWake

LEMMA QuietLease ==
    ASSUME Typed, LeaseAll, NEW p \in Proc, QuietSteps(p) PROVE LeaseAll'
<1>1. UNCHANGED <<wake, online>>
  BY DEF QuietSteps, Reply, SweepFires, DriveFires, OtherStarts, OtherEnds,
     DrainFires, Recover, WakeCall
<1>2. waiting'.open = waiting.open /\ waiting'.wake = waiting.wake
  <2>1. waiting \in Waiting
    BY TypedParts DEF Books
  <2> QED
    BY <2>1 DEF QuietSteps, Reply, SweepFires, DriveFires, OtherStarts, OtherEnds,
     DrainFires, Recover, WakeCall, Waiting
<1> QED
  BY <1>1, <1>2, LeaseKept DEF LeaseAll, LeaseHolds, OwnsWake

LEMMA AskLease == ASSUME Typed, LeaseAll, NEW p \in Proc, Ask(p) PROVE LeaseAll'
<1>1. ASSUME NEW q \in Proc PROVE ~OwnsWake(q) /\ ~OwnsWake(q)'
  <2>1. waiting'.wake = None /\ ~waiting.open
    BY DEF Ask, NoRecord
  <2> QED
    BY <2>1, SizesAssumption DEF OwnsWake
<1>2. UNCHANGED wake
  BY DEF Ask
<1> QED
  BY <1>1, <1>2, LeaseKept DEF LeaseAll, LeaseHolds

(* Steps of the wake of p, seen by another process: p's own lease moves.   *)
LEMMA OthersLease ==
    ASSUME Typed, LeaseAll, NEW p \in Proc, NEW q \in Proc, q # p,
           \/ LeaseSteps(p) \/ EndSteps(p) \/ RoomSteps(p) \/ WakeRow(p)
           \/ WakeRoster(p) \/ WakeAgent(p) \/ WakeStart(p) \/ WakeStartFails(p)
           \/ Crash(p)
    PROVE  LeaseInv(q)'
<1>1. waiting \in Waiting /\ wake \in [Proc -> Wake] /\ p \notin {None, Gone}
      /\ q \notin {None, Gone}
  BY TypedParts, SizesAssumption DEF Books
<1>2. LeaseInv(q) /\ LeaseInv(p)
  BY DEF LeaseAll
<1>3. CASE LeaseSteps(p)
  <2>1. wake'[q] = wake[q] /\ ~OwnsWake(q)' /\ UNCHANGED online
    BY <1>1, <1>3 DEF LeaseSteps, WakeClaim, WakeTaken, OwnsWake, Waiting
  <2>2. wake[q].pc = "start" => ~OwnsWake(q)
    BY <1>1, <1>3 DEF LeaseSteps, WakeClaim, WakeTaken, OwnsWake, WakeClaimable
  <2> QED
    BY <1>2, <2>1, <2>2, LeaseKept DEF LeaseHolds
<1>4. CASE EndSteps(p)
  <2>1. wake'[q] = wake[q] /\ online' \subseteq online
    BY <1>1, <1>4 DEF EndSteps, WakeCancelled, WakeTurnedAway, WakeUndo, WakeDone, WakeLost,
       WakeEnds
  <2>2. waiting' = waiting \/ (OwnsWake(p) /\ waiting'.wake = None)
    BY <1>1, <1>4 DEF EndSteps, WakeCancelled, WakeTurnedAway, WakeUndo, WakeDone, WakeLost,
       WakeReleased, NoRecord, Waiting
  <2>3. OwnsWake(q)' <=> OwnsWake(q)
    BY <1>1, <2>2 DEF OwnsWake
  <2> QED
    BY <1>2, <2>1, <2>3, LeaseKept DEF LeaseHolds
<1>5. CASE WakeRow(p)
  <2>1. wake'[q] = wake[q] /\ UNCHANGED online
    BY <1>1, <1>5 DEF WakeRow, WakeEnds
  <2>2. waiting' = waiting \/ (OwnsWake(p) /\ waiting'.wake = None)
    BY <1>1, <1>5 DEF WakeRow, WakeReleased, Waiting
  <2>3. OwnsWake(q)' <=> OwnsWake(q)
    BY <1>1, <2>2 DEF OwnsWake
  <2> QED
    BY <1>2, <2>1, <2>3, LeaseKept DEF LeaseHolds
<1>6. CASE RoomSteps(p) \/ WakeRoster(p) \/ WakeAgent(p) \/ WakeStartFails(p)
  <2>1. wake'[q] = wake[q] /\ UNCHANGED <<online, waiting>>
    BY <1>1, <1>6 DEF RoomSteps, WakeFindsFull, WakeFindsRoom, WakeRoster, WakeAgent,
       WakeStartFails
  <2> QED
    BY <1>2, <2>1, LeaseKept DEF LeaseHolds, OwnsWake
<1>7. CASE WakeStart(p)
  <2>1. wake'[q] = wake[q] /\ UNCHANGED waiting
    BY <1>1, <1>7 DEF WakeStart
  <2>2. ~OwnsWake(q)
    BY <1>2, <1>7 DEF WakeStart, LeaseInv, OwnsWake
  <2> QED
    BY <1>2, <2>1, <2>2, LeaseKept DEF LeaseHolds, OwnsWake
<1>8. CASE Crash(p)
  <2>1. wake'[q] = wake[q] /\ online' \subseteq online
    BY <1>1, <1>8 DEF Crash, WakeEnds
  <2>2. OwnsWake(q)' <=> OwnsWake(q)
    BY <1>1, <1>8 DEF Crash, Dying, OwnsWake, Waiting
  <2> QED
    BY <1>2, <2>1, <2>2, LeaseKept DEF LeaseHolds
<1> QED
  BY <1>3, <1>4, <1>5, <1>6, <1>7, <1>8

(* The steps of its own wake, outside the starting of agents.              *)
LEMMA OwnLease ==
    ASSUME Typed, NEW p \in Proc,
           \/ LeaseSteps(p) \/ EndSteps(p) \/ RoomSteps(p) \/ WakeRow(p)
           \/ WakeStartFails(p) \/ Crash(p)
    PROVE  LeaseInv(p)'
<1>1. wake \in [Proc -> Wake] /\ wake[p] \in Wake
  BY TypedParts
<1>2. wake'[p].pc \notin {"team", "start"}
  BY <1>1 DEF LeaseSteps, WakeClaim, WakeTaken, EndSteps, WakeCancelled, WakeTurnedAway,
     WakeUndo, WakeDone, WakeLost, WakeEnds, Asleep, RoomSteps, WakeFindsFull, WakeFindsRoom,
     WakeRow, WakeStartFails, Crash, Wake
<1> QED
  BY <1>2, LeaseAway

LEMMA RosterLease == ASSUME Typed, NEW p \in Proc, WakeRoster(p) PROVE LeaseInv(p)'
<1>1. wake \in [Proc -> Wake]
  BY TypedParts
<1>2. wake'[p].pc = "team" /\ wake'[p].roster = online' 
  BY <1>1 DEF WakeRoster, Wake
<1> QED
  BY <1>2 DEF LeaseInv

(* A wake that comes past an agent.                                        *)
LEMMA PassedNext ==
    ASSUME NEW p \in Proc, wake[p].at \in 1 .. Len(Team), wake'[p].at = wake[p].at + 1
    PROVE  Passed(p)' = Passed(p) \union {Team[wake[p].at]}
<1>1. 1 .. wake'[p].at - 1 = (1 .. wake[p].at - 1) \union {wake[p].at}
  BY TeamFacts
<1> QED
  BY <1>1 DEF Passed

LEMMA AgentLease ==
    ASSUME Typed, LeaseAll, NEW p \in Proc, WakeAgent(p) PROVE LeaseInv(p)'
<1>1. wake \in [Proc -> Wake] /\ wake[p] \in Wake /\ LeaseInv(p)
  BY TypedParts DEF LeaseAll
<1>2. UNCHANGED <<online, waiting>> /\ OwnsWake(p) /\ OwnsWake(p)' /\ wake[p].pc = "team"
  BY DEF WakeAgent, OwnsWake
<1>3. online \subseteq wake[p].roster \union Passed(p)
  BY <1>1, <1>2 DEF LeaseInv
<1>4. CASE Team[wake[p].at] \in wake[p].roster
  <2>1. wake[p].at \in 1 .. Len(Team)
    <3>1. wake[p].at \in 1 .. Len(Team) + 1 /\ Len(Team) \in Nat /\ wake[p].at <= Len(Team)
      BY <1>1, TeamFacts DEF Wake, WakeAgent
    <3> QED
      BY <3>1
  <2>2. /\ wake'[p].pc = "team" /\ wake'[p].roster = wake[p].roster
        /\ wake'[p].at = wake[p].at + 1
    BY <1>1, <1>2, <1>4 DEF WakeAgent, Wake
  <2> QED
    BY <1>2, <1>3, <2>1, <2>2, PassedNext DEF LeaseInv
<1>5. CASE Team[wake[p].at] \notin wake[p].roster
  <2>1. /\ wake'[p].pc = "start" /\ wake'[p].roster = wake[p].roster
        /\ wake'[p].at = wake[p].at
    BY <1>1, <1>5 DEF WakeAgent, Wake
  <2> QED
    BY <1>2, <1>3, <1>5, <2>1 DEF LeaseInv, Passed
<1> QED
  BY <1>4, <1>5

LEMMA StartLease ==
    ASSUME Typed, LeaseAll, NEW p \in Proc, WakeStart(p) PROVE LeaseInv(p)'
<1>1. wake \in [Proc -> Wake] /\ wake[p] \in Wake /\ LeaseInv(p) /\ wake[p].pc = "start"
  BY TypedParts DEF LeaseAll, WakeStart
<1>2. wake[p].at \in 1 .. Len(Team)
  <2>1. wake[p].at \in 1 .. Len(Team) + 1 /\ Len(Team) \in Nat /\ wake[p].at <= Len(Team)
    BY <1>1, TeamFacts, TypedParts DEF Wake, Places
  <2> QED
    BY <2>1
<1>3. /\ wake'[p].pc = "team" /\ wake'[p].roster = wake[p].roster
      /\ wake'[p].at = wake[p].at + 1
  BY <1>1 DEF WakeStart, Wake
<1>4. online \subseteq wake[p].roster \union Passed(p)
  BY <1>1 DEF LeaseInv
<1>5. online' = online \union {Team[wake[p].at]}
  BY DEF WakeStart
<1>6. Passed(p)' = Passed(p) \union {Team[wake[p].at]}
  BY <1>2, <1>3, PassedNext
<1> QED
  BY <1>3, <1>4, <1>5, <1>6 DEF LeaseInv

LEMMA LateLease ==
    ASSUME Typed, LeaseAll, NEW p \in Proc, NEW c, LateRelease(p, c) PROVE LeaseAll'
<1>1. wake \in [Proc -> Wake]
  BY TypedParts
<1>2. UNCHANGED waiting /\ online' \subseteq online
  BY DEF LateRelease
<1>3. \A q \in Proc : /\ wake'[q].pc = wake[q].pc /\ wake'[q].at = wake[q].at
                      /\ wake'[q].roster = wake[q].roster
  BY <1>1 DEF LateRelease, Wake
<1>4. ASSUME NEW q \in Proc PROVE LeaseInv(q)'
  <2>1. LeaseInv(q)
    BY DEF LeaseAll
  <2> QED
    BY <1>2, <1>3, <2>1 DEF LeaseInv, Passed, OwnsWake
<1> QED
  BY <1>4 DEF LeaseAll

LEMMA LapseLease == ASSUME Typed, LeaseAll, Lapse PROVE LeaseAll'
<1>1. UNCHANGED <<wake, online>>
  BY DEF Lapse
<1>2. \A q \in Proc : OwnsWake(q)' <=> OwnsWake(q)
  BY TypedParts, SizesAssumption DEF Lapse, OwnsWake, Books, Waiting
<1> QED
  BY <1>1, <1>2, LeaseKept DEF LeaseAll, LeaseHolds

LEMMA LeaseStep == ASSUME Typed, LeaseAll, [Next]_vars PROVE LeaseAll'
<1>1. CASE UNCHANGED vars
  BY <1>1, LeaseKept DEF vars, LeaseAll, LeaseHolds, OwnsWake
<1>2. ASSUME NEW p \in Proc,
             \/ LeaseSteps(p) \/ EndSteps(p) \/ RoomSteps(p) \/ WakeRow(p)
             \/ WakeRoster(p) \/ WakeAgent(p) \/ WakeStart(p) \/ WakeStartFails(p)
             \/ Crash(p)
      PROVE  LeaseAll'
  <2>1. LeaseInv(p)'
    BY <1>2, OwnLease, RosterLease, AgentLease, StartLease
  <2>2. \A q \in Proc : q # p => LeaseInv(q)'
    BY <1>2, OthersLease
  <2> QED
    BY <2>1, <2>2 DEF LeaseAll
<1>3. CASE Next
  BY <1>2, <1>3, ParkLease, QuietLease, AskLease, LateLease, LapseLease, NextSteps
<1> QED
  BY <1>1, <1>3

-----------------------------------------------------------------------------
(* The fence *)

FenceAll == \A q \in Proc : FenceInv(q)

LEMMA FenceStep == ASSUME Typed, FenceAll, [Next]_vars PROVE FenceAll'
<1>1. wake \in [Proc -> Wake] /\ Books
  BY TypedParts
<1>2. CASE UNCHANGED <<wake, calls, fence>>
  BY <1>2 DEF FenceAll, FenceInv
<1>3. ASSUME NEW p \in Proc, NEW t \in Thread, ParkSteps(p, t) PROVE FenceAll'
  <2>1. UNCHANGED <<wake, calls, fence>>
    BY <1>3 DEF ParkSteps, ParkSave, ParkNext, ReleaseLands, ReleaseFails, ParkCheck, ParkMark,
         ParkSaved, ParkComplete, Deliver, Delivered, DeliveryFails
  <2> QED
    BY <1>2, <2>1
<1>4. ASSUME NEW p \in Proc, QuietSteps(p) \/ Ask(p) PROVE FenceAll'
  <2>1. UNCHANGED <<wake, calls, fence>>
    BY <1>4 DEF QuietSteps, Ask, Reply, SweepFires, DriveFires, OtherStarts, OtherEnds,
       DrainFires, Recover, WakeCall
  <2> QED
    BY <1>2, <2>1
<1>5. ASSUME NEW p \in Proc, NEW t \in Thread, GraceExpires(p, t) PROVE FenceAll'
  BY <1>1, <1>5 DEF GraceExpires, Fenced, Books, FenceAll, FenceInv
<1>6. ASSUME NEW p \in Proc, NEW c, LateRelease(p, c) PROVE FenceAll'
  BY <1>1, <1>6 DEF LateRelease, Books, FenceAll, FenceInv, Wake
<1>7. ASSUME NEW p \in Proc,
             \/ LeaseSteps(p) \/ EndSteps(p) \/ RoomSteps(p) \/ WakeRow(p)
             \/ WakeRoster(p) \/ WakeStart(p) \/ WakeStartFails(p)
      PROVE  FenceAll'
  <2>1. UNCHANGED <<calls, fence>>
    BY <1>7 DEF LeaseSteps, WakeClaim, WakeTaken, EndSteps, WakeCancelled, WakeTurnedAway,
       WakeUndo, WakeDone, WakeLost, RoomSteps, WakeFindsFull, WakeFindsRoom, WakeRow,
       WakeRoster, WakeStart, WakeStartFails
  <2>2. \A q \in Proc : q # p => wake'[q] = wake[q]
    BY <1>1, <1>7 DEF LeaseSteps, WakeClaim, WakeTaken, EndSteps, WakeCancelled,
       WakeTurnedAway, WakeUndo, WakeDone, WakeLost, RoomSteps, WakeFindsFull, WakeFindsRoom,
       WakeRow, WakeRoster, WakeStart, WakeStartFails, WakeEnds
  <2>3. wake'[p].seen = {} \/ (wake'[p].seen = wake[p].seen /\ wake'[p].awaited = wake[p].awaited)
    <3>1. wake[p] \in Wake
      BY <1>1
    <3>2. CASE WakeEnds(p)
      BY <1>1, <3>2 DEF WakeEnds, Asleep
    <3>3. CASE \E pc \in {"claimed", "full", "room", "rowed"} : wake' = [wake EXCEPT ![p].pc = pc]
      BY <1>1, <3>1, <3>3 DEF Wake
    <3>4. CASE WakeRoster(p) \/ WakeStart(p) \/ WakeStartFails(p)
      BY <1>1, <3>1, <3>4 DEF WakeRoster, WakeStart, WakeStartFails, Wake
    <3> QED
      BY <1>7, <3>2, <3>3, <3>4 DEF LeaseSteps, WakeClaim, WakeTaken, EndSteps, WakeCancelled,
         WakeTurnedAway, WakeUndo, WakeDone, WakeLost, RoomSteps, WakeFindsFull,
         WakeFindsRoom, WakeRow
  <2> QED
    BY <2>1, <2>2, <2>3 DEF FenceAll, FenceInv
<1>8. ASSUME NEW p \in Proc, WakeAgent(p) PROVE FenceAll'
  BY <1>1, <1>8 DEF WakeAgent, FenceAll, FenceInv, Wake
<1>9. ASSUME NEW p \in Proc, Crash(p) PROVE FenceAll'
  BY <1>1, <1>9 DEF Crash, WakeEnds, Asleep, Books, FenceAll, FenceInv
<1>10. CASE Lapse
  BY <1>2, <1>10 DEF Lapse
<1>11. CASE Next
  BY <1>3, <1>4, <1>5, <1>6, <1>7, <1>8, <1>9, <1>10, <1>11, NextSteps
<1> QED
  BY <1>2, <1>11 DEF vars

-----------------------------------------------------------------------------
(* Theorems *)

LEMMA ClarInit == Init => ClarInv
<1> SUFFICES ASSUME Init PROVE ClarInv
  OBVIOUS
<1>1. Typed
  BY TypeInit
<1>2. GateInv
  BY DEF Init, GateInv, Marking, NoRecord, Resting
<1>3. \A p \in Proc : LeaseInv(p) /\ FenceInv(p)
  BY DEF Init, LeaseInv, FenceInv, Asleep
<1> QED
  BY <1>1, <1>2, <1>3 DEF ClarInv, Typed

LEMMA ClarStep == ClarInv /\ [Next]_vars => ClarInv'
<1> SUFFICES ASSUME ClarInv, [Next]_vars PROVE ClarInv'
  OBVIOUS
<1>1. Typed /\ GateInv /\ LeaseAll /\ FenceAll
  BY DEF ClarInv, Typed, LeaseAll, FenceAll
<1>2. Typed' /\ GateInv' /\ LeaseAll' /\ FenceAll'
  BY <1>1, TypeStep, GateStep, LeaseStep, FenceStep
<1> QED
  BY <1>2 DEF ClarInv, Typed, LeaseAll, FenceAll

LEMMA ClarHolds == Spec => []ClarInv
<1> QED
  BY ClarInit, ClarStep, PTL DEF Spec

(* Every state of a clarification has its types: a park and a wake stand   *)
(* at an agent of the team or past the last, and faults stay within their  *)
(* bound.                                                                  *)
THEOREM ClarificationTypes == Spec => []TypeOK
<1>1. ClarInv => TypeOK
  BY DEF ClarInv
<1> QED
  BY <1>1, ClarHolds, PTL

(* Once parkedAtMs is set, nobody of the team is online but agents that a  *)
(* wake has started, however many processes park the team, however late    *)
(* their releases land, whichever of them crashes.                         *)
THEOREM GateStaysShut == Spec => []GateShut
<1>1. ClarInv => GateShut
  BY DEF ClarInv, GateInv, GateShut
<1> QED
  BY <1>1, ClarHolds, PTL

(* No wake starts a worker under a name that is online.  The lease is      *)
(* renewed before each start and cannot be taken between renewal and       *)
(* start, the roster is read under it, and a team has no name twice.       *)
THEOREM OneWorkerPerName == Spec => NoSecondWorker
<1>1. ASSUME ClarInv, NEW p \in Proc, WakeStart(p) PROVE Team[wake[p].at] \notin online
  <2>1. wake[p].pc = "start" /\ LeaseInv(p)
    BY <1>1 DEF WakeStart, ClarInv
  <2>2. Team[wake[p].at] \notin wake[p].roster /\ online \subseteq wake[p].roster \union Passed(p)
    BY <2>1 DEF LeaseInv
  <2>3. wake[p].at \in 1 .. Len(Team)
    <3>1. wake[p] \in Wake /\ wake[p].at <= Len(Team)
      BY <1>1, <2>1 DEF ClarInv, TypeOK, Places
    <3>2. wake[p].at \in 1 .. Len(Team) + 1
      BY <3>1 DEF Wake
    <3> QED
      BY <3>1, <3>2, TeamFacts
  <2>4. ASSUME NEW i \in 1 .. wake[p].at - 1 PROVE Team[i] # Team[wake[p].at]
    <3>1. i \in DOMAIN Team /\ wake[p].at \in DOMAIN Team /\ i # wake[p].at
      BY <2>3, TeamFacts
    <3> QED
      BY <3>1, SizesAssumption
  <2> QED
    BY <2>2, <2>4 DEF Passed
<1>2. ClarInv => \A p \in Proc : WakeStart(p) => Team[wake[p].at] \notin online
  BY <1>1
<1> QED
  BY <1>2, ClarHolds, PTL DEF NoSecondWorker

(* A name is not started while a release that its process had walked away  *)
(* from is in flight: every such call is in the fence, and a wake waits    *)
(* for all of those it saw, not only for the newest.                       *)
THEOREM StartsAreFenced == Spec => FencedStart
<1>1. ClarInv => \A p \in Proc : WakeStart(p) => wake[p].seen = {}
  BY DEF ClarInv, FenceInv, WakeStart
<1> QED
  BY <1>1, ClarHolds, PTL DEF FencedStart
=============================================================================
