------------------------ MODULE StageExecutionProofs ------------------------
(***************************************************************************)
(* Proofs about the device: one stage at a time among callers that live,   *)
(* nobody left by a termination, and no verdict that was not earned, for   *)
(* any number of callers of any kinds.                                     *)
(*                                                                         *)
(* A step changes one call, and the holder of the lock only for that call. *)
(* So the invariant is Sound, about one call, and Locked, which ties each  *)
(* call to the lock; the proofs show that what a step makes of its call is *)
(* sound again, and leave it to two lemmas that nothing else is disturbed. *)
(***************************************************************************)
EXTENDS StageExecution, TLAPS

Attended == {"reading", "reaping", "grace", "settling"}

(* The lines of the main thread at which it holds the lock.                *)
Holding == {"owning", "launching", "launched", "returned"} \cup Attended

(* The lines at which the process is not attended to any more.             *)
After == {"returned", "judging", "publishing", "closing"}

Places == {"idle", "waiting"} \cup Holding \cup After \cup Ended
AllKinds == {"stage", "profile", "baseline", "health"}
Phases == {"stage", "health"}
Files == {"none", "pass", "fail", "infra"}
ExitCodes == {"none", "zero", "nonzero"}
Cancels == {"idle", "missed", "stage", "health", "over"}
Values == {"none", "pass", "fail", "error", "timeout", "unavailable"}
Copies == {"none", "staging", "complete"}

CallType ==
  [kind : AllKinds, pc : Places, phase : Phases,
   alive : SUBSET Members, killed : SUBSET Members, pipes : SUBSET Members,
   file : Files, code : ExitCodes, timedOut : BOOLEAN, overflow : BOOLEAN,
   cancel : Cancels, verdict : Values, healthy : BOOLEAN, published : Copies]

(* The members of the group, and the streams they hold.  A leader that is  *)
(* not attended to is an orphan: its caller died.                          *)
GroupSound(c) ==
  /\ c.alive \cap c.killed = {}
  /\ c.pipes \subseteq c.alive \cup c.killed
  /\ "leader" \in c.alive \cup c.killed => c.pc \in {"launched", "dead"} \cup Attended
  /\ "leader" \in c.alive => c.killed = {}
  /\ c.pc = "settling" => c.alive = {}

(* What was terminated is gone, by the main thread or by the second one.   *)
EndSound(c) ==
  /\ c.timedOut \/ c.overflow => c.pc \in {"grace", "settling"} \cup After
  /\ c.timedOut \/ c.overflow => c.pc = "grace" \/ c.alive = {}
  /\ c.cancel = "health" => c.phase = "health"
  /\ c.phase = "stage" /\ c.cancel \in {"stage", "over"} => c.pc \in Attended \cup After
  /\ c.phase = "stage" /\ c.cancel = "over" => c.alive = {}

VerdictSound(c) ==
  c.pc = "closing" /\ c.kind # "profile" =>
    /\ c.verdict = "fail" => c.overflow \/ c.file = "fail"
    /\ c.verdict = "pass" => c.file = "pass" /\ c.code = "zero"
    /\ c.verdict \in {"pass", "fail"} /\ c.kind = "baseline" => c.published = "complete"

Sound(c) == c \in CallType /\ GroupSound(c) /\ EndSound(c) /\ VerdictSound(c)

Locked(e) == holder = e <=> call[e].pc \in Holding

IInv == /\ holder \in Calls \cup {None}
        /\ call \in [Calls -> CallType]
        /\ \A e \in Calls : call[e].kind \in Kinds[e] /\ Sound(call[e]) /\ Locked(e)

-----------------------------------------------------------------------------
(* A step that makes `new' of one call, the lock aside.                    *)
LEMMA OneCall ==
  ASSUME IInv, NEW e \in Calls, NEW new, Becomes(e, new), Sound(new),
         new.kind = call[e].kind,
         holder' \in Calls \cup {None},
         holder' = e <=> new.pc \in Holding,
         \A f \in Calls \ {e} : holder' = f <=> holder = f
  PROVE  IInv'
<1>1. new \in CallType
  BY DEF Sound
<1>2. call' \in [Calls -> CallType]
  BY <1>1 DEF IInv, Becomes
<1>3. call'[e] = new /\ \A f \in Calls \ {e} : call'[f] = call[f]
  BY DEF IInv, Becomes
<1>4. ASSUME NEW f \in Calls
      PROVE  call'[f].kind \in Kinds[f] /\ Sound(call'[f]) /\ Locked(f)'
  BY <1>3 DEF IInv, Locked
<1>. QED  BY <1>2, <1>4 DEF IInv

LEMMA KeepsLock ==
  ASSUME IInv, NEW e \in Calls, NEW new, Moves(e, new), Sound(new),
         new.kind = call[e].kind,
         call[e].pc \in Holding <=> new.pc \in Holding
  PROVE  IInv'
<1>1. holder' = holder /\ Locked(e) /\ holder \in Calls \cup {None}
  BY DEF IInv, Moves
<1>. QED  BY <1>1, OneCall DEF Moves, Locked

LEMMA GivesLock ==
  ASSUME IInv, NEW e \in Calls, NEW new, Becomes(e, new), Sound(new),
         new.kind = call[e].kind, holder' = None,
         call[e].pc \in Holding, new.pc \notin Holding
  PROVE  IInv'
<1>1. holder = e
  BY DEF IInv, Locked
<1>. QED  BY <1>1, OneCall, NoneAssumption

-----------------------------------------------------------------------------
LEMMA Elements ==
  /\ {"idle", "waiting", "owning", "launching", "launched", "reading", "reaping",
      "grace", "settling", "returned", "judging", "publishing", "closing", "done",
      "dead"} \subseteq Places
  /\ {"none", "zero", "nonzero"} \subseteq ExitCodes
  /\ {"none", "pass", "fail", "infra"} \subseteq Files
  /\ {"stage", "health"} \subseteq Phases /\ Phases \subseteq Cancels
  /\ {"idle", "missed", "over"} \subseteq Cancels
  /\ {"none", "pass", "fail", "error", "timeout", "unavailable"} \subseteq Values
  /\ {"none", "staging", "complete"} \subseteq Copies
  /\ {"leader"} \subseteq Members /\ {"child"} \subseteq Members
BY DEF Places, Holding, Attended, After, Ended, ExitCodes, Files, Phases, Cancels,
       Values, Copies, Members

(* What each action makes of its call is sound, and it has the lock if and *)
(* only if it is at a place where it should.                               *)
LEMMA Beginning ==
  ASSUME IInv, NEW e \in Calls,
         \/ Prepare(e) \/ PrepareFails(e) \/ Acquire(e)
         \/ LockTimeout(e) \/ Own(e) \/ OwnFails(e)
  PROVE  IInv'
<1>0. Sound(call[e]) /\ Locked(e) /\ call[e] \in CallType
  BY DEF IInv
<1>1. CASE Prepare(e)
  <2>. DEFINE new == At(e, "waiting")
  <2>1. new \in CallType /\ new.kind = call[e].kind /\ new.pc = "waiting"
    BY <1>0, <1>1, Elements DEF Prepare, Is, At, Sound, CallType
  <2>2. GroupSound(new) /\ EndSound(new) /\ VerdictSound(new)
    BY <1>0, <1>1 DEF Prepare, Is, At, Sound, CallType, GroupSound, EndSound,
           VerdictSound, Places, Holding, Attended, After, Ended
  <2>. QED  BY <1>1, <2>1, <2>2, KeepsLock DEF Prepare, Is, Sound, Places,
               Holding, Attended, After, Ended
<1>2. CASE PrepareFails(e)
  <2>. DEFINE new == Closing(e, "error")
  <2>1. new \in CallType /\ new.kind = call[e].kind /\ new.pc = "closing"
    BY <1>0, <1>2, Elements DEF PrepareFails, Is, At, Closing, Sound, CallType
  <2>2. GroupSound(new) /\ EndSound(new) /\ VerdictSound(new)
    BY <1>0, <1>2 DEF PrepareFails, Is, At, Closing, Sound, CallType,
           GroupSound, EndSound, VerdictSound, Places, Holding, Attended,
           After, Ended
  <2>. QED  BY <1>2, <2>1, <2>2, KeepsLock DEF PrepareFails, Is, Sound,
               Places, Holding, Attended, After, Ended
<1>3. CASE Acquire(e)
  <2>. DEFINE new == At(e, "owning")
  <2>1. new \in CallType /\ new.kind = call[e].kind /\ new.pc = "owning"
    BY <1>0, <1>3, Elements DEF Acquire, Is, At, Sound, CallType
  <2>2. GroupSound(new) /\ EndSound(new) /\ VerdictSound(new)
    BY <1>0, <1>3 DEF Acquire, Is, At, Sound, CallType, GroupSound, EndSound,
           VerdictSound, Places, Holding, Attended, After, Ended
  <2>3. \A f \in Calls \ {e} : holder' = f <=> holder = f
    BY <1>3, NoneAssumption DEF Acquire
  <2>. QED  BY <1>3, <2>1, <2>2, <2>3, OneCall DEF Acquire, Is, Sound, Places,
               Holding, Attended, After, Ended
<1>4. CASE LockTimeout(e)
  <2>. DEFINE new == Abandoned(e, "timeout")
  <2>1. new \in CallType /\ new.kind = call[e].kind /\ new.pc \in {"closing", "done"}
    BY <1>0, <1>4, Elements DEF LockTimeout, Is, Abandoned, At, Closing, Over,
           Fresh, Sound, CallType
  <2>2. GroupSound(new) /\ EndSound(new) /\ VerdictSound(new)
    BY <1>0, <1>4 DEF LockTimeout, Is, Abandoned, At, Closing, Over, Fresh,
           Sound, CallType, GroupSound, EndSound, VerdictSound, Places,
           Holding, Attended, After, Ended
  <2>. QED  BY <1>4, <2>1, <2>2, KeepsLock DEF LockTimeout, Is, Sound, Places,
               Holding, Attended, After, Ended
<1>5. CASE Own(e)
  <2>. DEFINE new == At(e, "launching")
  <2>1. new \in CallType /\ new.kind = call[e].kind /\ new.pc = "launching"
    BY <1>0, <1>5, Elements DEF Own, Is, At, Sound, CallType
  <2>2. GroupSound(new) /\ EndSound(new) /\ VerdictSound(new)
    BY <1>0, <1>5 DEF Own, Is, At, Sound, CallType, GroupSound, EndSound,
           VerdictSound, Places, Holding, Attended, After, Ended
  <2>. QED  BY <1>5, <2>1, <2>2, KeepsLock DEF Own, Is, Sound, Places,
               Holding, Attended, After, Ended
<1>6. CASE OwnFails(e)
  <2>. DEFINE new == Abandoned(e, "error")
  <2>1. new \in CallType /\ new.kind = call[e].kind /\ new.pc \in {"closing", "done"}
    BY <1>0, <1>6, Elements DEF OwnFails, Is, Abandoned, At, Closing, Over,
           Fresh, Sound, CallType
  <2>2. GroupSound(new) /\ EndSound(new) /\ VerdictSound(new)
    BY <1>0, <1>6 DEF OwnFails, Is, Abandoned, At, Closing, Over, Fresh,
           Sound, CallType, GroupSound, EndSound, VerdictSound, Places,
           Holding, Attended, After, Ended
  <2>. QED  BY <1>6, <2>1, <2>2, GivesLock DEF OwnFails, Is, Sound, Places,
               Holding, Attended, After, Ended
<1>. QED  BY <1>1, <1>2, <1>3, <1>4, <1>5, <1>6

(* The start of the process and its streams.                               *)
LEMMA Starting ==
  ASSUME IInv, NEW e \in Calls,
         \/ Launch(e) \/ LaunchFails(e) \/ Register(e) \/ Eof(e)
         \/ Overflow(e) \/ Timeout(e)
  PROVE  IInv'
<1>0. Sound(call[e]) /\ Locked(e) /\ call[e] \in CallType
  BY DEF IInv
<1>1. CASE Launch(e)
  <2>. DEFINE new == [At(e, "launched") EXCEPT
                      !.alive = {"leader"}, !.killed = {}, !.pipes = {"leader"},
                      !.timedOut = FALSE, !.overflow = FALSE]
  <2>1. new \in CallType /\ new.kind = call[e].kind /\ new.pc = "launched"
    BY <1>0, <1>1, Elements DEF Launch, Is, At, Sound, CallType
  <2>2. GroupSound(new) /\ EndSound(new) /\ VerdictSound(new)
    BY <1>0, <1>1 DEF Launch, Is, At, Sound, CallType, GroupSound, EndSound,
           VerdictSound, Places, Holding, Attended, After, Ended
  <2>. QED  BY <1>1, <2>1, <2>2, KeepsLock DEF Launch, Is, Sound, Places,
               Holding, Attended, After, Ended
<1>2. CASE LaunchFails(e)
  <2>. DEFINE new == Abandoned(e, "error")
  <2>1. new \in CallType /\ new.kind = call[e].kind /\ new.pc \in {"closing", "done"}
    BY <1>0, <1>2, Elements DEF LaunchFails, Is, Abandoned, At, Closing, Over,
           Fresh, Sound, CallType
  <2>2. GroupSound(new) /\ EndSound(new) /\ VerdictSound(new)
    BY <1>0, <1>2 DEF LaunchFails, Is, Abandoned, At, Closing, Over, Fresh,
           Sound, CallType, GroupSound, EndSound, VerdictSound, Places,
           Holding, Attended, After, Ended
  <2>. QED  BY <1>2, <2>1, <2>2, GivesLock DEF LaunchFails, Is, Sound, Places,
               Holding, Attended, After, Ended
<1>3. CASE Register(e)
  <2>. DEFINE new == At(e, "reading")
  <2>1. new \in CallType /\ new.kind = call[e].kind /\ new.pc = "reading"
    BY <1>0, <1>3, Elements DEF Register, Is, At, Sound, CallType
  <2>2. GroupSound(new) /\ EndSound(new) /\ VerdictSound(new)
    BY <1>0, <1>3 DEF Register, Is, At, Sound, CallType, GroupSound, EndSound,
           VerdictSound, Places, Holding, Attended, After, Ended
  <2>. QED  BY <1>3, <2>1, <2>2, KeepsLock DEF Register, Is, Sound, Places,
               Holding, Attended, After, Ended
<1>4. CASE Eof(e)
  <2>. DEFINE new == At(e, "reaping")
  <2>1. new \in CallType /\ new.kind = call[e].kind /\ new.pc = "reaping"
    BY <1>0, <1>4, Elements DEF Eof, Is, At, Sound, CallType
  <2>2. GroupSound(new) /\ EndSound(new) /\ VerdictSound(new)
    BY <1>0, <1>4 DEF Eof, Is, At, Sound, CallType, GroupSound, EndSound,
           VerdictSound, Places, Holding, Attended, After, Ended
  <2>. QED  BY <1>4, <2>1, <2>2, KeepsLock DEF Eof, Is, Sound, Places,
               Holding, Attended, After, Ended
<1>5. CASE Overflow(e)
  <2>. DEFINE new == [At(e, "grace") EXCEPT !.overflow = TRUE]
  <2>1. new \in CallType /\ new.kind = call[e].kind /\ new.pc = "grace"
    BY <1>0, <1>5, Elements DEF Overflow, Is, At, Sound, CallType
  <2>2. GroupSound(new) /\ EndSound(new) /\ VerdictSound(new)
    BY <1>0, <1>5 DEF Overflow, Is, At, Sound, CallType, GroupSound, EndSound,
           VerdictSound, Places, Holding, Attended, After, Ended
  <2>. QED  BY <1>5, <2>1, <2>2, KeepsLock DEF Overflow, Is, Sound, Places,
               Holding, Attended, After, Ended
<1>6. CASE Timeout(e)
  <2>. DEFINE new == [At(e, "grace") EXCEPT !.timedOut = TRUE]
  <2>1. new \in CallType /\ new.kind = call[e].kind /\ new.pc = "grace"
    BY <1>0, <1>6, Elements DEF Timeout, Is, At, Sound, CallType
  <2>2. GroupSound(new) /\ EndSound(new) /\ VerdictSound(new)
    BY <1>0, <1>6 DEF Timeout, Is, At, Sound, CallType, GroupSound, EndSound,
           VerdictSound, Places, Holding, Attended, After, Ended
  <2>. QED  BY <1>6, <2>1, <2>2, KeepsLock DEF Timeout, Is, Sound, Places,
               Holding, Attended, After, Ended
<1>. QED  BY <1>1, <1>2, <1>3, <1>4, <1>5, <1>6

(* The end of the process, and of the lock.                                *)
LEMMA Returning ==
  ASSUME IInv, NEW e \in Calls,
         \/ Kill(e) \/ Returns(e) \/ ReturnsWithout(e) \/ Release(e)
  PROVE  IInv'
<1>0. Sound(call[e]) /\ Locked(e) /\ call[e] \in CallType
  BY DEF IInv
<1>1. CASE Kill(e)
  <2>. DEFINE new == [Killed(At(e, "settling")) EXCEPT !.pipes = {}]
  <2>1. new \in CallType /\ new.kind = call[e].kind /\ new.pc = "settling"
    BY <1>0, <1>1, Elements DEF Kill, Is, At, Killed, Sound, CallType
  <2>2. GroupSound(new) /\ EndSound(new) /\ VerdictSound(new)
    BY <1>0, <1>1 DEF Kill, Is, At, Killed, Sound, CallType, GroupSound,
           EndSound, VerdictSound, Places, Holding, Attended, After, Ended
  <2>. QED  BY <1>1, <2>1, <2>2, KeepsLock DEF Kill, Is, Sound, Places,
               Holding, Attended, After, Ended
<1>2. CASE Returns(e)
  <2>. DEFINE new == Returned(e)
  <2>1. new \in CallType /\ new.kind = call[e].kind /\ new.pc = "returned"
    BY <1>0, <1>2, Elements DEF Returns, At, Returned, LeaderGone, Sound,
           CallType
  <2>2. GroupSound(new) /\ EndSound(new) /\ VerdictSound(new)
    BY <1>0, <1>2 DEF Returns, At, Returned, LeaderGone, Sound, CallType,
           GroupSound, EndSound, VerdictSound, Places, Holding, Attended,
           After, Ended
  <2>. QED  BY <1>2, <2>1, <2>2, KeepsLock DEF Returns, Is, Sound, Places,
               Holding, Attended, After, Ended
<1>3. CASE ReturnsWithout(e)
  <2>. DEFINE new == [Returned(e) EXCEPT !.timedOut = TRUE]
  <2>1. new \in CallType /\ new.kind = call[e].kind /\ new.pc = "returned"
    BY <1>0, <1>3, Elements DEF ReturnsWithout, Is, At, Returned, Sound,
           CallType
  <2>2. GroupSound(new) /\ EndSound(new) /\ VerdictSound(new)
    BY <1>0, <1>3 DEF ReturnsWithout, Is, At, Returned, Sound, CallType,
           GroupSound, EndSound, VerdictSound, Places, Holding, Attended,
           After, Ended
  <2>. QED  BY <1>3, <2>1, <2>2, KeepsLock DEF ReturnsWithout, Is, Sound,
               Places, Holding, Attended, After, Ended
<1>4. CASE Release(e)
  <2>. DEFINE new == IF call[e].phase = "stage" THEN At(e, "judging")
                    ELSE [Over(e, "done") EXCEPT !.healthy = Succeeded(call[e])]
  <2>1. new \in CallType /\ new.kind = call[e].kind /\ new.pc \in {"judging", "done"}
    BY <1>0, <1>4, Elements DEF Release, Is, At, Over, Fresh, Succeeded,
           Sound, CallType
  <2>2. GroupSound(new) /\ EndSound(new) /\ VerdictSound(new)
    BY <1>0, <1>4 DEF Release, Is, At, Over, Fresh, Succeeded, Sound,
           CallType, GroupSound, EndSound, VerdictSound, Places, Holding,
           Attended, After, Ended
  <2>. QED  BY <1>4, <2>1, <2>2, GivesLock DEF Release, Is, Sound, Places,
               Holding, Attended, After, Ended
<1>. QED  BY <1>1, <1>2, <1>3, <1>4

(* The verdict, and what follows it.                                       *)
LEMMA Judging ==
  ASSUME IInv, NEW e \in Calls,
         \/ JudgePrivate(e) \/ Stage(e) \/ Publish(e) \/ PublishFails(e) \/ Close(e)
  PROVE  IInv'
<1>0. Sound(call[e]) /\ Locked(e) /\ call[e] \in CallType
  BY DEF IInv
<1>1. CASE JudgePrivate(e)
  <2>1. PICK v \in Verdicts(call[e]) : Moves(e, Closing(e, v))
    BY <1>1 DEF JudgePrivate
  <2>2. v \in Values
    BY <1>0, <2>1 DEF Verdicts, Profiled, Isolated, Agrees, Sound, CallType,
                      Values, Files
  <2>3. call[e].kind # "profile" =>
          /\ v = "fail" => call[e].overflow \/ call[e].file = "fail"
          /\ v = "pass" => call[e].file = "pass" /\ call[e].code = "zero"
    BY <1>0, <2>1 DEF Verdicts, Profiled, Isolated, Agrees, Sound, CallType,
                      ExitCodes
  <2>. DEFINE new == Closing(e, v)
  <2>4. new \in CallType
    BY <1>0, <2>2, Elements DEF Is, At, Closing, Sound, CallType
  <2>5. new.kind = call[e].kind /\ new.pc = "closing"
    BY <1>0 DEF Is, At, Closing, Sound, CallType
  <2>6. GroupSound(new) /\ EndSound(new)
    BY <1>0, <1>1 DEF JudgePrivate, Is, At, Closing, Sound, CallType,
           GroupSound, EndSound, Places, Holding, Attended, After, Ended
  <2>7. VerdictSound(new)
    BY <1>0, <1>1, <2>3 DEF JudgePrivate, Is, At, Closing, Sound, CallType,
                   VerdictSound
  <2>. QED  BY <1>1, <2>1, <2>4, <2>5, <2>6, <2>7, KeepsLock DEF JudgePrivate,
                    Is, Sound, Places, Holding, Attended, After, Ended
<1>2. CASE Stage(e)
  <2>. DEFINE new == [At(e, "publishing") EXCEPT !.published = "staging"]
  <2>1. new \in CallType /\ new.kind = call[e].kind /\ new.pc = "publishing"
    BY <1>0, <1>2, Elements DEF Stage, Is, At, Sound, CallType
  <2>2. GroupSound(new) /\ EndSound(new) /\ VerdictSound(new)
    BY <1>0, <1>2 DEF Stage, Is, At, Sound, CallType, GroupSound, EndSound,
           VerdictSound, Places, Holding, Attended, After, Ended
  <2>. QED  BY <1>2, <2>1, <2>2, KeepsLock DEF Stage, Is, Sound, Places,
               Holding, Attended, After, Ended
<1>3. CASE Publish(e)
  <2>1. PICK v \in Verdicts(call[e]) :
               Moves(e, [Closing(e, v) EXCEPT !.published = "complete"])
    BY <1>3 DEF Publish
  <2>2. v \in Values
    BY <1>0, <2>1 DEF Verdicts, Profiled, Isolated, Agrees, Sound, CallType,
                      Values, Files
  <2>3. call[e].kind # "profile" =>
          /\ v = "fail" => call[e].overflow \/ call[e].file = "fail"
          /\ v = "pass" => call[e].file = "pass" /\ call[e].code = "zero"
    BY <1>0, <2>1 DEF Verdicts, Profiled, Isolated, Agrees, Sound, CallType,
                      ExitCodes
  <2>. DEFINE new == [Closing(e, v) EXCEPT !.published = "complete"]
  <2>4. new \in CallType
    BY <1>0, <2>2, Elements DEF Is, At, Closing, Sound, CallType
  <2>5. new.kind = call[e].kind /\ new.pc = "closing"
    BY <1>0 DEF Is, At, Closing, Sound, CallType
  <2>6. GroupSound(new) /\ EndSound(new)
    BY <1>0, <1>3 DEF Publish, Is, At, Closing, Sound, CallType, GroupSound,
           EndSound, Places, Holding, Attended, After, Ended
  <2>7. VerdictSound(new)
    BY <1>0, <1>3, <2>3 DEF Publish, Is, At, Closing, Sound, CallType,
                   VerdictSound
  <2>. QED  BY <1>3, <2>1, <2>4, <2>5, <2>6, <2>7, KeepsLock DEF Publish, Is,
                    Sound, Places, Holding, Attended, After, Ended
<1>4. CASE PublishFails(e)
  <2>. DEFINE new == [Closing(e, "error") EXCEPT !.published = "none"]
  <2>1. new \in CallType /\ new.kind = call[e].kind /\ new.pc = "closing"
    BY <1>0, <1>4, Elements DEF PublishFails, Is, At, Closing, Sound, CallType
  <2>2. GroupSound(new) /\ EndSound(new) /\ VerdictSound(new)
    BY <1>0, <1>4 DEF PublishFails, Is, At, Closing, Sound, CallType,
           GroupSound, EndSound, VerdictSound, Places, Holding, Attended,
           After, Ended
  <2>. QED  BY <1>4, <2>1, <2>2, KeepsLock DEF PublishFails, Is, Sound,
               Places, Holding, Attended, After, Ended
<1>5. CASE Close(e)
  <2>. DEFINE new == IF RequiresHealthCheck(call[e])
                    THEN [Over(e, "waiting") EXCEPT !.phase = "health", !.alive = {},
                                                    !.cancel = call[e].cancel]
                    ELSE Over(e, "done")
  <2>1. new \in CallType /\ new.kind = call[e].kind /\ new.pc \in {"waiting", "done"}
    BY <1>0, <1>5, Elements DEF Close, Is, At, Over, Fresh, Sound, CallType
  <2>2. GroupSound(new) /\ EndSound(new) /\ VerdictSound(new)
    BY <1>0, <1>5 DEF Close, Is, At, Over, Fresh, Sound, CallType, GroupSound,
           EndSound, VerdictSound, Places, Holding, Attended, After, Ended
  <2>. QED  BY <1>5, <2>1, <2>2, KeepsLock DEF Close, Is, Sound, Places,
               Holding, Attended, After, Ended
<1>. QED  BY <1>1, <1>2, <1>3, <1>4, <1>5

(* The second thread.                                                       *)
LEMMA Cancelling ==
  ASSUME IInv, NEW e \in Calls,
         \/ CancelMisses(e) \/ CancelFinds(e) \/ CancelKills(e)
  PROVE  IInv'
<1>0. Sound(call[e]) /\ Locked(e) /\ call[e] \in CallType
  BY DEF IInv
<1>1. CASE CancelMisses(e)
  <2>. DEFINE new == [call[e] EXCEPT !.cancel = "missed"]
  <2>1. new \in CallType /\ new.kind = call[e].kind /\ new.pc = call[e].pc
    BY <1>0, <1>1, Elements DEF CancelMisses, MayCancel, Sound, CallType
  <2>2. GroupSound(new) /\ EndSound(new) /\ VerdictSound(new)
    BY <1>0, <1>1 DEF CancelMisses, MayCancel, Sound, CallType, GroupSound,
           EndSound, VerdictSound, Places, Holding, Attended, After, Ended
  <2>. QED  BY <1>1, <2>1, <2>2, KeepsLock DEF CancelMisses, Is, Sound,
               Places, Holding, Attended, After, Ended
<1>2. CASE CancelFinds(e)
  <2>. DEFINE new == [call[e] EXCEPT !.cancel = call[e].phase]
  <2>1. new \in CallType /\ new.kind = call[e].kind /\ new.pc = call[e].pc
    BY <1>0, <1>2, Elements DEF CancelFinds, MayCancel, Registered, Sound,
           CallType
  <2>2. GroupSound(new) /\ EndSound(new) /\ VerdictSound(new)
    BY <1>0, <1>2 DEF CancelFinds, MayCancel, Registered, Sound, CallType,
           GroupSound, EndSound, VerdictSound, Places, Holding, Attended,
           After, Ended
  <2>. QED  BY <1>2, <2>1, <2>2, KeepsLock DEF CancelFinds, Is, Sound, Places,
               Holding, Attended, After, Ended
<1>3. CASE CancelKills(e) /\ call[e].cancel = call[e].phase
  <2>. DEFINE new == [Killed(call[e]) EXCEPT !.cancel = "over"]
  <2>1. new \in CallType /\ new.kind = call[e].kind /\ new.pc = call[e].pc
    BY <1>0, <1>3, Elements DEF CancelKills, Killed, Sound, CallType
  <2>2. GroupSound(new) /\ EndSound(new) /\ VerdictSound(new)
    BY <1>0, <1>3 DEF CancelKills, Killed, Sound, CallType, GroupSound,
           EndSound, VerdictSound, Places, Holding, Attended, After, Ended
  <2>. QED  BY <1>3, <2>1, <2>2, KeepsLock DEF CancelKills, Is, Sound, Places,
               Holding, Attended, After, Ended
<1>4. CASE CancelKills(e) /\ call[e].cancel # call[e].phase
  <2>. DEFINE new == [call[e] EXCEPT !.cancel = "over"]
  <2>1. new \in CallType /\ new.kind = call[e].kind /\ new.pc = call[e].pc
    BY <1>0, <1>4, Elements DEF CancelKills, Running, Sound, CallType
  <2>2. GroupSound(new) /\ EndSound(new) /\ VerdictSound(new)
    BY <1>0, <1>4 DEF CancelKills, Running, Sound, CallType, GroupSound,
           EndSound, VerdictSound, Places, Holding, Attended, After, Ended
  <2>. QED  BY <1>4, <2>1, <2>2, KeepsLock DEF CancelKills, Is, Sound, Places,
               Holding, Attended, After, Ended
<1>. QED  BY <1>1, <1>2, <1>3, <1>4

(* The members of the group.                                                *)
LEMMA Acting ==
  ASSUME IInv, NEW e \in Calls,
         \/ Fork(e) \/ Commit(e) \/ Detach(e)
  PROVE  IInv'
<1>0. Sound(call[e]) /\ Locked(e) /\ call[e] \in CallType
  BY DEF IInv
<1>1. CASE Fork(e)
  <2>1. PICK i \in SUBSET {"child"} :
               Moves(e, [call[e] EXCEPT !.alive = Members, !.pipes = @ \cup i])
    BY <1>1 DEF Fork
  <2>. DEFINE new == [call[e] EXCEPT !.alive = Members, !.pipes = @ \cup i]
  <2>2. new \in CallType
    BY <1>0, <2>1, Elements DEF Members, Sound, CallType
  <2>3. new.kind = call[e].kind /\ new.pc = call[e].pc
    BY <1>0 DEF Members, Sound, CallType
  <2>4. GroupSound(new) /\ EndSound(new) /\ VerdictSound(new)
    BY <1>0, <1>1 DEF Fork, Members, Sound, CallType, GroupSound, EndSound,
           VerdictSound, Places, Holding, Attended, After, Ended
  <2>. QED  BY <2>1, <2>2, <2>3, <2>4, KeepsLock DEF Sound
<1>2. CASE Commit(e)
  <2>1. PICK r \in {"pass", "fail", "infra"} : Moves(e, [call[e] EXCEPT !.file = r])
    BY <1>2 DEF Commit
  <2>. DEFINE new == [call[e] EXCEPT !.file = r]
  <2>2. new \in CallType
    BY <1>0, <2>1, Elements DEF Sound, CallType
  <2>3. new.kind = call[e].kind /\ new.pc = call[e].pc
    BY <1>0 DEF Sound, CallType
  <2>4. GroupSound(new) /\ EndSound(new) /\ VerdictSound(new)
    BY <1>0, <1>2 DEF Commit, Sound, CallType, GroupSound, EndSound,
           VerdictSound, Places, Holding, Attended, After, Ended
  <2>. QED  BY <2>1, <2>2, <2>3, <2>4, KeepsLock DEF Sound
<1>3. CASE Detach(e)
  <2>. DEFINE new == [call[e] EXCEPT !.pipes = @ \ {"leader"}]
  <2>1. new \in CallType /\ new.kind = call[e].kind /\ new.pc = call[e].pc
    BY <1>0, <1>3, Elements DEF Detach, Sound, CallType
  <2>2. GroupSound(new) /\ EndSound(new) /\ VerdictSound(new)
    BY <1>0, <1>3 DEF Detach, Sound, CallType, GroupSound, EndSound,
           VerdictSound, Places, Holding, Attended, After, Ended
  <2>. QED  BY <1>3, <2>1, <2>2, KeepsLock DEF Detach, Is, Sound, Places,
               Holding, Attended, After, Ended
<1>. QED  BY <1>1, <1>2, <1>3

LEMMA Ending ==
  ASSUME IInv, NEW e \in Calls, NEW m \in Members, Exit(e, m) \/ Die(e, m)
  PROVE  IInv'
<1>. DEFINE gone == Gone(call[e], m)
<1>0. Sound(call[e]) /\ Locked(e) /\ call[e] \in CallType
  BY DEF IInv
<1>1. ASSUME NEW z \in ExitCodes,
             m \in call[e].alive \cup call[e].killed,
             m = "leader" \/ z = call[e].code,
             Moves(e, [gone EXCEPT !.code = z])
      PROVE  IInv'
  <2>. DEFINE new == [gone EXCEPT !.code = z]
  <2>1. new \in CallType
    BY <1>0 DEF Gone, Sound, CallType
  <2>2. new.kind = call[e].kind /\ new.pc = call[e].pc
    BY <1>0 DEF Gone, Sound, CallType
  <2>3. GroupSound(new) /\ EndSound(new)
    BY <1>0 DEF Gone, Sound, CallType, GroupSound, EndSound
  <2>4. VerdictSound(new)
    BY <1>0, <1>1 DEF Gone, Sound, CallType, GroupSound, VerdictSound, Attended
  <2>. QED  BY <1>1, <2>1, <2>2, <2>3, <2>4, KeepsLock DEF Sound
<1>2. gone = [gone EXCEPT !.code = call[e].code] /\ call[e].code \in ExitCodes
  BY <1>0 DEF Gone, CallType
<1>3. CASE Exit(e, m)
  <2>1. CASE m = "leader"
    <3>1. PICK z \in Codes(call[e]) : Moves(e, [gone EXCEPT !.code = z])
      BY <1>3, <2>1 DEF Exit
    <3>2. z \in ExitCodes
      BY DEF Codes, ExitCodes
    <3>. QED  BY <1>1, <1>3, <2>1, <3>1, <3>2 DEF Exit
  <2>2. CASE m # "leader"
    <3>1. Moves(e, gone) /\ m \in call[e].alive
      BY <1>3, <2>2 DEF Exit
    <3>2. Moves(e, [gone EXCEPT !.code = call[e].code])
      BY <1>2, <3>1
    <3>. QED  BY <1>1, <1>2, <3>1, <3>2
  <2>. QED  BY <2>1, <2>2
<1>4. CASE Die(e, m)
  <2>. DEFINE z == IF m = "leader" THEN "nonzero" ELSE call[e].code
  <2>1. gone.code = call[e].code
    BY <1>0 DEF Gone, CallType
  <2>2. Moves(e, [gone EXCEPT !.code = z]) /\ m \in call[e].killed
    BY <1>4, <2>1 DEF Die
  <2>3. z \in ExitCodes /\ (m = "leader" \/ z = call[e].code)
    BY <1>2 DEF ExitCodes
  <2>. HIDE DEF z
  <2>. QED  BY <1>1, <2>2, <2>3
<1>. QED  BY <1>3, <1>4

(* The death of the caller, and the end of those it left behind.            *)
LEMMA Crashing ==
  ASSUME IInv, NEW e \in Calls, Crash(e) \/ EndGroup(e)
  PROVE  IInv'
<1>0. Sound(call[e]) /\ Locked(e) /\ call[e] \in CallType
  BY DEF IInv
<1>1. CASE Crash(e)
  <2>. DEFINE new == [Over(e, "dead") EXCEPT !.phase = call[e].phase]
  <2>1. new \in CallType /\ new.kind = call[e].kind /\ new.pc = "dead"
    BY <1>0, <1>1, Elements DEF Crash, Over, Fresh, Sound, CallType
  <2>2. GroupSound(new) /\ EndSound(new) /\ VerdictSound(new)
    BY <1>0, <1>1 DEF Crash, Over, Fresh, Sound, CallType, GroupSound,
           EndSound, VerdictSound, Places, Holding, Attended, After, Ended
  <2>3. holder' \in Calls \cup {None} /\ holder' # e
        /\ \A f \in Calls \ {e} : holder' = f <=> holder = f
    BY <1>1, NoneAssumption DEF Crash, IInv
  <2>. QED  BY <1>1, <2>1, <2>2, <2>3, OneCall DEF Crash, Sound, Places,
               Holding, Attended, After, Ended
<1>2. CASE EndGroup(e)
  <2>. DEFINE new == [call[e] EXCEPT !.alive = {}, !.pipes = {}]
  <2>1. new \in CallType /\ new.kind = call[e].kind /\ new.pc = call[e].pc
    BY <1>0, <1>2 DEF EndGroup, Sound, CallType
  <2>2. GroupSound(new) /\ EndSound(new) /\ VerdictSound(new)
    BY <1>0, <1>2 DEF EndGroup, Is, Sound, CallType, GroupSound, EndSound,
           VerdictSound, After
  <2>. QED  BY <1>2, <2>1, <2>2, KeepsLock DEF EndGroup, Sound
<1>. QED  BY <1>1, <1>2

-----------------------------------------------------------------------------
LEMMA InitIInv == Init => IInv
<1>. SUFFICES ASSUME Init PROVE IInv
  OBVIOUS
<1>1. \A k \in AllKinds : Fresh(k) \in CallType
  BY Elements DEF Fresh, CallType, AllKinds, Phases, Files, ExitCodes, Cancels,
                  Values, Copies
<1>2. UNION {Kinds[e] : e \in Calls} \subseteq AllKinds
  BY KindsAssumption DEF AllKinds
<1>3. ASSUME NEW e \in Calls
      PROVE  call[e].kind \in Kinds[e] /\ Sound(call[e]) /\ Locked(e)
  <2>1. PICK k \in AllKinds : call[e] = Fresh(k)
    BY <1>2 DEF Init
  <2>2. call[e] \in CallType
    BY <1>1, <2>1
  <2>3. GroupSound(call[e]) /\ EndSound(call[e]) /\ VerdictSound(call[e])
    BY <2>1 DEF Fresh, GroupSound, EndSound, VerdictSound
  <2>4. Locked(e)
    BY <2>1, NoneAssumption DEF Init, Locked, Fresh, Holding, Attended
  <2>. QED  BY <2>2, <2>3, <2>4 DEF Init, Sound
<1>4. call \in [Calls -> CallType]
  BY <1>1, <1>2 DEF Init
<1>. QED  BY <1>3, <1>4 DEF Init, IInv

LEMMA NextIInv == IInv /\ [Next]_vars => IInv'
<1>. SUFFICES ASSUME IInv, [Next]_vars PROVE IInv'
  OBVIOUS
<1>1. CASE UNCHANGED vars
  BY <1>1 DEF vars, IInv, Locked
<1>2. ASSUME NEW e \in Calls, Prepare(e) \/ PrepareFails(e) PROVE IInv'
  BY <1>2, Beginning
<1>3. ASSUME NEW e \in Calls, MainStep(e) PROVE IInv'
  BY <1>3, Beginning, Starting, Returning, Judging DEF MainStep, RunStep
<1>4. ASSUME NEW e \in Calls, CancelStep(e) PROVE IInv'
  BY <1>4, Cancelling DEF CancelStep
<1>5. ASSUME NEW e \in Calls, GroupStep(e) PROVE IInv'
  BY <1>5, Acting, Ending DEF GroupStep
<1>6. ASSUME NEW e \in Calls, Crash(e) \/ EndGroup(e) PROVE IInv'
  BY <1>6, Crashing
<1>. QED  BY <1>1, <1>2, <1>3, <1>4, <1>5, <1>6 DEF Next

(* The strengthened invariant holds in every reachable state.              *)
THEOREM Inductive == Spec => []IInv
<1>. QED  BY InitIInv, NextIInv, PTL DEF Spec

(* Every variable keeps its type (StageRunner.run and its callers).        *)
THEOREM TypeCorrect == Spec => []TypeOK
<1>1. IInv => TypeOK
  BY DEF IInv, TypeOK, Sound, GroupSound, CallType, Places, Holding, Attended, After,
         Phases, Files, ExitCodes, Cancels, Values, Copies
<1>. QED  BY <1>1, Inductive, PTL

(* No stage whose caller lives runs without the device lock of its call,   *)
(* so no two calls of living callers run one at the same time; the leader  *)
(* of a caller that died may (device_lock.py, stage_runner.py).            *)
THEOREM OneStageAtATime == Spec => []StageRunsUnderLock
<1>1. IInv => StageRunsUnderLock
  BY DEF IInv, StageRunsUnderLock, Sound, GroupSound, Locked, Holding, Attended, Is
<1>. QED  BY <1>1, Inductive, PTL

(* A process group that was ended has no member left (_terminate).         *)
THEOREM NobodyIsLeft == Spec => []TerminationLeavesNobody
<1>1. IInv => TerminationLeavesNobody
  BY DEF IInv, TerminationLeavesNobody, Sound, EndSound
<1>. QED  BY <1>1, Inductive, PTL

(* No candidate fails or passes but for what its stage did                 *)
(* (_process_result).                                                      *)
THEOREM EarnedVerdicts == Spec => []VerdictIsEarned
<1>1. IInv => VerdictIsEarned
  BY DEF IInv, VerdictIsEarned, Sound, VerdictSound
<1>. QED  BY <1>1, Inductive, PTL
=============================================================================
