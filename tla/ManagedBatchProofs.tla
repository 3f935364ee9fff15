------------------------- MODULE ManagedBatchProofs --------------------------
(***************************************************************************)
(* Theorems about a batch evaluation, for any number of workers, decision    *)
(* vectors and problems.                                                     *)
(***************************************************************************)
EXTENDS ManagedBatch, TLAPS

(* The interface's contract: clone() never returns `this`.                   *)
ContractHonoured == \A p \in Problems : "same" \notin p.clones

-----------------------------------------------------------------------------
(* Type correctness.  allClones keeps its type because a worker that is about *)
(* to record its clone has one.                                              *)

HasClone == \A w \in Workers : pc[w] = "record" => clones[w] # NoClone

TypeInv == TypeOK /\ HasClone

LEMMA TypeInit == Init => TypeInv
  BY BatchAssumption DEF Init, TypeInv, HasClone, TypeOK, Entries, Instances

LEMMA LoopTypeStep ==
  ASSUME TypeOK, NEW r \in {"managed", "native", "member", "serial"}, EnterLoop(r)
  PROVE  /\ route' \in {"none", "managed", "native", "member", "serial", "rejected"}
         /\ stage' \in {"start", "loop", "closing", "returned"}
         /\ outcome' \in {"pending", "result", "error"}
         /\ remaining' \in SUBSET batch
  BY DEF TypeOK, EnterLoop, ReturnWith

LEMMA RouteType ==
  ASSUME TypeOK
  PROVE  Route \in {"managed", "native", "member", "serial", "rejected"}
  BY BatchAssumption DEF Route, CSharpRoute, JavaRoute, DefaultRoute, TypeOK, Entries

LEMMA TypeStep == TypeInv /\ [Next]_vars => TypeInv'
<1> SUFFICES ASSUME TypeOK, HasClone, [Next]_vars PROVE TypeInv'
  BY DEF TypeInv
<1> USE BatchAssumption DEF TypeInv, HasClone
<1>1. CASE Dispatch
  <2>1. CASE Route = "rejected"
    BY <1>1, <2>1 DEF Dispatch, TypeOK, ReturnWith, callVars
  <2>2. CASE Route # "rejected"
    BY <1>1, <2>2, RouteType, LoopTypeStep DEF Dispatch, TypeOK, callVars
  <2>3. QED BY <2>1, <2>2
<1>2. CASE Probe
  <2>1. PICK r \in problem.clones :
            /\ IF r = "null"
                 THEN /\ route' = "rejected"
                      /\ ReturnWith("error")
                      /\ UNCHANGED remaining
                 ELSE EnterLoop("managed")
            /\ closed' = IF r = "same" THEN closed \cup {Source} ELSE closed
    BY <1>2 DEF Probe
  <2>2. closed' \in SUBSET Instances
    BY <2>1 DEF TypeOK, Instances
  <2>3. CASE r = "null"
    BY <1>2, <2>1, <2>2, <2>3 DEF Probe, TypeOK, ReturnWith, callVars
  <2>4. CASE r # "null"
    BY <1>2, <2>1, <2>2, <2>4, LoopTypeStep DEF Probe, TypeOK, callVars
  <2>5. QED BY <2>3, <2>4
<1>3. CASE BatchFitness
  BY <1>3 DEF BatchFitness, TypeOK, callVars
<1>4. CASE LoopReturns
  BY <1>4 DEF LoopReturns, LeaveLoop, ReturnWith, TypeOK, callVars, bodyVars
<1>5. CASE LoopThrows
  BY <1>5 DEF LoopThrows, LeaveLoop, ReturnWith, TypeOK, callVars, bodyVars
<1>6. CASE CloseOne
  BY <1>6 DEF CloseOne, TypeOK, callVars, bodyVars
<1>7. CASE Return
  BY <1>7 DEF Return, ReturnWith, TypeOK, callVars, bodyVars
<1>8. CASE AbandonClosing
  BY <1>8 DEF AbandonClosing, ReturnWith, TypeOK, callVars, bodyVars
<1>9. CASE Interrupted
  BY <1>9 DEF Interrupted, LeaveLoop, ReturnWith, TypeOK, callVars, bodyVars
<1>10. CASE CallerReleases
  BY <1>10 DEF CallerReleases, TypeOK, Instances, callVars, bodyVars
<1>11. ASSUME NEW w \in Workers, Claim(w) PROVE TypeInv'
  BY <1>11 DEF Claim, TypeOK, callVars
<1>12. ASSUME NEW w \in Workers, MakeClone(w) PROVE TypeInv'
  <2>1. PICK r \in problem.clones :
          \/ /\ r = "null" \/ (r = "same" /\ RejectsSame)
             /\ Throws(w)
             /\ UNCHANGED <<clones, allClones>>
          \/ /\ r = "fresh" \/ (r = "same" /\ ~RejectsSame)
             /\ LET instance == IF r = "same" THEN Source ELSE w IN
                  /\ clones' = [clones EXCEPT ![w] = instance]
                  /\ IF RecordsOnCreation
                       THEN /\ allClones' = allClones \cup {instance}
                            /\ pc' = [pc EXCEPT ![w] = "fitness"]
                       ELSE /\ pc' = [pc EXCEPT ![w] = "record"]
                            /\ UNCHANGED allClones
             /\ UNCHANGED <<remaining, at, failed>>
    BY <1>12 DEF MakeClone
  <2>2. CASE Throws(w) /\ UNCHANGED <<clones, allClones>>
    BY <1>12, <2>2 DEF MakeClone, Throws, TypeOK, callVars
  <2>3. CASE ~(Throws(w) /\ UNCHANGED <<clones, allClones>>)
    <3> DEFINE instance == IF r = "same" THEN Source ELSE w
    <3>1. instance \in Instances /\ instance # NoClone
      BY DEF Instances
    <3>2. QED
      BY <1>12, <2>1, <2>3, <3>1 DEF MakeClone, TypeOK, callVars
  <2>4. QED BY <2>2, <2>3
<1>13. ASSUME NEW w \in Workers, Record(w) PROVE TypeInv'
  BY <1>13 DEF Record, TypeOK, Instances, callVars
<1>14. ASSUME NEW w \in Workers, Evaluate(w) PROVE TypeInv'
  BY <1>14 DEF Evaluate, TypeOK, callVars
<1>15. ASSUME NEW w \in Workers, FitnessThrows(w) PROVE TypeInv'
  BY <1>15 DEF FitnessThrows, Throws, TypeOK, callVars
<1>16. CASE UNCHANGED vars
  BY <1>16 DEF vars, callVars, bodyVars, TypeOK
<1>17. QED
  BY <1>1, <1>2, <1>3, <1>4, <1>5, <1>6, <1>7, <1>8, <1>9, <1>10, <1>11,
     <1>12, <1>13, <1>14, <1>15, <1>16 DEF Next, CallingThread, Body

(* Every variable of a call keeps its type, for both bindings.                *)
THEOREM TypeCorrect == Spec => []TypeOK
<1>1. TypeInv => TypeOK
  BY DEF TypeInv
<1>2. QED BY <1>1, TypeInit, TypeStep, PTL DEF Spec
-----------------------------------------------------------------------------
(* Exclusive use of an unsafe problem's instances.  In the managed route a     *)
(* worker has its own clone, the serial route has one worker, and the native   *)
(* route is only taken by a problem that declares itself safe.                 *)

OwnClone == \A w \in Workers :
    /\ clones[w] \in {NoClone, w}
    /\ pc[w] = "fitness" /\ route = "managed" => clones[w] # NoClone

RouteSound ==
    /\ stage = "start" => route = "none"
    /\ route = "native" => ~Unsafe
    /\ \A w \in Workers : pc[w] # "idle" =>
          /\ route \in {"managed", "native", "serial"}
          /\ route = "serial" => w = Caller

ExclusiveInv == TypeInv /\ OwnClone /\ RouteSound

LEMMA NativeIsSafe ==
  ASSUME TypeOK, Route = "native" PROVE ~Unsafe
  BY BatchAssumption DEF Route, CSharpRoute, JavaRoute, DefaultRoute, TypeOK, Entries, Unsafe

LEMMA ExclusiveStep ==
  ASSUME Binding = "java" \/ ContractHonoured,
         ExclusiveInv, [Next]_vars
  PROVE  ExclusiveInv'
<1> USE BatchAssumption
<1>0. TypeInv' /\ TypeOK /\ OwnClone /\ RouteSound /\ HasClone
  BY TypeStep DEF ExclusiveInv, TypeInv
<1>1. ASSUME Dispatch PROVE OwnClone' /\ RouteSound'
  BY <1>0, <1>1, NativeIsSafe, RouteType
     DEF Dispatch, EnterLoop, ReturnWith, OwnClone, RouteSound, Unsafe, callVars
<1>2. ASSUME Probe PROVE OwnClone' /\ RouteSound'
  BY <1>0, <1>2 DEF Probe, EnterLoop, ReturnWith, OwnClone, RouteSound, Unsafe, callVars
<1>3. ASSUME BatchFitness PROVE OwnClone' /\ RouteSound'
  <2>1. UNCHANGED <<problem, stage, route, pc, clones>>
    BY <1>3 DEF BatchFitness, callVars
  <2>2. OwnClone'
    BY <1>0, <2>1 DEF OwnClone
  <2>3. RouteSound'
    BY <1>0, <2>1 DEF RouteSound, Unsafe
  <2>4. QED BY <2>2, <2>3
<1>4. ASSUME NEW threw, LeaveLoop(threw), stage = "loop" PROVE OwnClone' /\ RouteSound'
  BY <1>0, <1>4 DEF LeaveLoop, ReturnWith, OwnClone, RouteSound, Unsafe, callVars, bodyVars
<1>5. ASSUME CloseOne \/ Return \/ AbandonClosing \/ CallerReleases PROVE OwnClone' /\ RouteSound'
  BY <1>0, <1>5 DEF CloseOne, Return, AbandonClosing, CallerReleases, ReturnWith,
                    OwnClone, RouteSound, Unsafe, callVars, bodyVars
<1>6. ASSUME NEW w \in Workers, Claim(w) PROVE OwnClone' /\ RouteSound'
  <2>1. stage # "start"
    BY <1>6 DEF Claim, LoopOpen
  <2>2. QED
    BY <1>0, <1>6, <2>1 DEF Claim, InstanceOf, OwnClone, RouteSound, Unsafe, TypeOK, callVars
<1>7. ASSUME NEW w \in Workers, MakeClone(w) PROVE OwnClone' /\ RouteSound'
  <2>1. "same" \notin problem.clones \/ RejectsSame
    BY <1>0 DEF TypeOK, ContractHonoured, RejectsSame
  <2>2. /\ \A v \in Workers \ {w} : clones'[v] = clones[v] /\ pc'[v] = pc[v]
        /\ (clones'[w] = clones[w] /\ pc'[w] = "idle") \/ clones'[w] = w
    BY <1>0, <1>7, <2>1 DEF MakeClone, Throws, TypeOK
  <2>3. QED
    BY <1>0, <1>7, <2>2 DEF MakeClone, OwnClone, RouteSound, Unsafe, TypeOK, callVars
<1>8. ASSUME NEW w \in Workers, Record(w) PROVE OwnClone' /\ RouteSound'
  BY <1>0, <1>8 DEF Record, HasClone, OwnClone, RouteSound, Unsafe, TypeOK, callVars
<1>9. ASSUME NEW w \in Workers, Evaluate(w) \/ FitnessThrows(w) PROVE OwnClone' /\ RouteSound'
  BY <1>0, <1>9 DEF Evaluate, FitnessThrows, Throws, OwnClone, RouteSound, Unsafe, TypeOK, callVars
<1>10. ASSUME UNCHANGED vars PROVE OwnClone' /\ RouteSound'
  BY <1>0, <1>10 DEF vars, callVars, bodyVars, OwnClone, RouteSound, Unsafe
<1>11. OwnClone' /\ RouteSound'
  BY <1>1, <1>2, <1>3, <1>4, <1>5, <1>6, <1>7, <1>8, <1>9, <1>10
     DEF Next, CallingThread, Body, LoopReturns, LoopThrows, Interrupted
<1>12. QED BY <1>0, <1>11 DEF ExclusiveInv

(* ExclusiveInstance holds for every pool and batch: in Java always, in C#     *)
(* for problems whose Clone() keeps its contract (it does not check).          *)
THEOREM Exclusive ==
  ASSUME Binding = "java" \/ ContractHonoured
  PROVE  Spec => []ExclusiveInstance
<1>1. Init => ExclusiveInv
  BY TypeInit DEF ExclusiveInv, Init, OwnClone, RouteSound
<1>2. ExclusiveInv /\ [Next]_vars => ExclusiveInv'
  BY ExclusiveStep
<1>3. ExclusiveInv => ExclusiveInstance
  BY BatchAssumption
     DEF ExclusiveInv, OwnClone, RouteSound, ExclusiveInstance, InstanceOf
<1>4. QED BY <1>1, <1>2, <1>3, PTL DEF Spec
-----------------------------------------------------------------------------
(* A call that returns a result.  Every decision vector is queued, held by a   *)
(* worker or evaluated as long as nothing failed; the loop is left without a   *)
(* failure only when none is queued or held, and from then on no body can      *)
(* start.  Clones are recorded before they are used.                           *)

Accounted == \A p \in batch : \/ p \in remaining \cup flat
                              \/ \E w \in Workers : p \in at[w]

Settled == flat = batch /\ AllIdle /\ remaining = {} /\ ~failed

WorkersSound == \A w \in Workers :
    /\ pc[w] = "idle" => at[w] = {}
    /\ pc[w] # "idle" => stage # "start"
    /\ pc[w] \in {"clone", "record"} => route = "managed"
    /\ route # "managed" => clones[w] = NoClone
    /\ clones[w] = w /\ pc[w] # "record" => w \in allClones

StageSound ==
    /\ stage = "returned" <=> outcome # "pending"
    /\ stage = "start" => remaining = {} /\ route = "none" /\ flat = {} /\ ~failed
    /\ stage = "closing" => route = "managed"

SuccessSound ==
    /\ stage = "loop" /\ ~failed => Accounted
    /\ stage = "closing" /\ ~failed => Settled /\ allClones \subseteq closed \cup toClose
    /\ outcome = "result" => Settled /\ \A w \in Workers : clones[w] = w => w \in closed

SuccessInv == TypeInv /\ WorkersSound /\ StageSound /\ SuccessSound

SuccessParts == WorkersSound /\ StageSound /\ SuccessSound

LEMMA SuccessInit == Init => SuccessInv
  BY TypeInit, BatchAssumption
     DEF Init, SuccessInv, WorkersSound, StageSound, SuccessSound

LEMMA DispatchSuccess ==
  ASSUME SuccessInv, Dispatch \/ Probe PROVE SuccessParts'
<1> USE BatchAssumption DEF SuccessInv, TypeInv
<1>1. /\ stage = "start"
      /\ UNCHANGED <<callVars, pc, at, clones, allClones, flat, failed>>
      /\ \/ /\ stage' = "loop" /\ remaining' = batch /\ UNCHANGED outcome
         \/ stage' = "returned" /\ outcome' = "error" /\ UNCHANGED remaining
  BY DEF Dispatch, Probe, EnterLoop, ReturnWith
<1>2. AllIdle /\ \A w \in Workers : clones[w] = NoClone
  BY <1>1 DEF WorkersSound, StageSound, AllIdle
<1>3. WorkersSound'
  BY <1>1, <1>2 DEF WorkersSound, AllIdle, callVars
<1>4. StageSound'
  BY <1>1 DEF StageSound
<1>5. SuccessSound'
  BY <1>1 DEF SuccessSound, StageSound, Accounted, callVars
<1>6. QED BY <1>3, <1>4, <1>5 DEF SuccessParts

LEMMA LeaveSuccess ==
  ASSUME SuccessInv, stage = "loop", NEW threw \in BOOLEAN, LeaveLoop(threw),
         ~threw => LoopCompletes
  PROVE  SuccessParts'
<1> USE BatchAssumption DEF SuccessInv, TypeInv
<1>1. UNCHANGED <<entry, problem, batch, route, remaining, pc, at, clones, allClones, flat, closed>>
  BY DEF LeaveLoop, callVars, bodyVars
<1>2. WorkersSound'
  BY <1>1 DEF WorkersSound, LeaveLoop, ReturnWith
<1>3. StageSound'
  BY <1>1 DEF StageSound, LeaveLoop, ReturnWith
<1>4. CASE threw
  BY <1>1, <1>2, <1>3, <1>4 DEF SuccessParts, SuccessSound, StageSound, LeaveLoop, ReturnWith
<1>5. CASE ~threw
  <2>1. flat = batch
    BY <1>5 DEF LoopCompletes, SuccessSound, Accounted, WorkersSound, AllIdle, TypeOK
  <2>2. Settled'
    BY <1>1, <1>5, <2>1 DEF Settled, LoopCompletes, AllIdle, LeaveLoop
  <2>3. SuccessSound'
    BY <1>1, <1>5, <2>2 DEF SuccessSound, StageSound, WorkersSound, LeaveLoop, ReturnWith
  <2>4. QED BY <1>2, <1>3, <2>3 DEF SuccessParts
<1>6. QED BY <1>4, <1>5

LEMMA ClosingSuccess ==
  ASSUME SuccessInv, CloseOne \/ Return \/ AbandonClosing \/ CallerReleases
  PROVE  SuccessParts'
<1> USE BatchAssumption DEF SuccessInv, TypeInv
<1>1. UNCHANGED <<entry, problem, batch, route, remaining, pc, at, clones, allClones, flat, failed>>
  BY DEF CloseOne, Return, AbandonClosing, CallerReleases, callVars, bodyVars
<1>2. /\ WorkersSound'
      /\ StageSound'
  BY <1>1 DEF CloseOne, Return, AbandonClosing, CallerReleases, ReturnWith,
              WorkersSound, StageSound
<1>3. Settled => Settled'
  BY <1>1 DEF Settled, AllIdle
<1>4. SuccessSound'
  BY <1>1, <1>3 DEF CloseOne, Return, AbandonClosing, CallerReleases, ReturnWith,
              WorkersSound, StageSound, SuccessSound, Settled, AllIdle
<1>5. QED BY <1>2, <1>4 DEF SuccessParts

LEMMA BodySuccess ==
  ASSUME SuccessInv, NEW w \in Workers, Claim(w) \/ Body(w) PROVE SuccessParts'
<1> USE BatchAssumption DEF SuccessInv, TypeInv
<1>1. UNCHANGED <<entry, problem, batch, stage, route, toClose, closed, outcome>>
  BY DEF Claim, Body, MakeClone, Record, Evaluate, FitnessThrows, callVars
<1>2. \A v \in Workers \ {w} : pc'[v] = pc[v] /\ at'[v] = at[v] /\ clones'[v] = clones[v]
  BY DEF Claim, Body, MakeClone, Record, Evaluate, FitnessThrows, Throws, TypeOK
<1>3. ~Settled
  BY DEF Claim, Body, MakeClone, Record, Evaluate, FitnessThrows, Settled, AllIdle
<1>4. stage # "start"
  BY DEF Claim, Body, MakeClone, Record, Evaluate, FitnessThrows, LoopOpen, WorkersSound
<1>5. WorkersSound'
  BY <1>1, <1>2, <1>4
     DEF Claim, Body, MakeClone, Record, Evaluate, FitnessThrows, Throws, InstanceOf,
         WorkersSound, HasClone, TypeOK, RecordsOnCreation
<1>6. StageSound'
  BY <1>1, <1>4 DEF StageSound
<1>7. ASSUME stage = "loop", ~failed' PROVE Accounted'
  <2>1. Accounted /\ ~failed
    BY <1>7 DEF SuccessSound, Claim, Body, MakeClone, Record, Evaluate, FitnessThrows, Throws
  <2>2. CASE Claim(w)
    BY <1>1, <1>2, <2>1, <2>2 DEF Claim, Accounted, WorkersSound, TypeOK
  <2>3. CASE MakeClone(w) \/ Record(w)
    BY <1>1, <1>2, <1>7, <2>1, <2>3 DEF MakeClone, Record, Throws, Accounted
  <2>4. CASE Evaluate(w)
    BY <1>1, <1>2, <2>1, <2>4 DEF Evaluate, Accounted, TypeOK
  <2>5. CASE FitnessThrows(w)
    BY <1>7, <2>5 DEF FitnessThrows, Throws
  <2>6. QED BY <2>2, <2>3, <2>4, <2>5 DEF Body
<1>8. stage = "closing" \/ outcome = "result" => failed'
  BY <1>3 DEF SuccessSound, Claim, Body, MakeClone, Record, Evaluate, FitnessThrows, Throws, TypeOK
<1>9. SuccessSound'
  BY <1>1, <1>3, <1>7, <1>8 DEF SuccessSound
<1>10. QED BY <1>5, <1>6, <1>9 DEF SuccessParts

LEMMA SuccessStep == SuccessInv /\ [Next]_vars => SuccessInv'
<1> SUFFICES ASSUME SuccessInv, [Next]_vars PROVE SuccessInv'
  OBVIOUS
<1>1. TypeInv'
  BY TypeStep DEF SuccessInv
<1>2. CASE Dispatch \/ Probe
  BY <1>2, DispatchSuccess, <1>1 DEF SuccessInv, SuccessParts
<1>3. CASE LoopReturns \/ LoopThrows \/ Interrupted
  BY <1>3, LeaveSuccess, <1>1 DEF SuccessInv, SuccessParts, LoopReturns, LoopThrows, Interrupted
<1>4. CASE CloseOne \/ Return \/ AbandonClosing \/ CallerReleases
  BY <1>4, ClosingSuccess, <1>1 DEF SuccessInv, SuccessParts
<1>5. ASSUME NEW w \in Workers, Claim(w) \/ Body(w) PROVE SuccessInv'
  BY <1>5, BodySuccess, <1>1 DEF SuccessInv, SuccessParts
<1>6. CASE BatchFitness
  <2>1. WorkersSound' /\ StageSound'
    BY <1>6 DEF SuccessInv, BatchFitness, WorkersSound, StageSound, callVars
  <2>2. SuccessSound'
    BY <1>6 DEF SuccessInv, BatchFitness, SuccessSound, StageSound, Accounted, callVars
  <2>3. QED BY <1>1, <2>1, <2>2 DEF SuccessInv
<1>7. CASE UNCHANGED vars
  <2>1. WorkersSound' /\ StageSound'
    BY <1>7 DEF SuccessInv, WorkersSound, StageSound, vars, callVars, bodyVars
  <2>2. SuccessSound'
    BY <1>7 DEF SuccessInv, SuccessSound, Accounted, Settled, AllIdle, vars, callVars, bodyVars
  <2>3. QED BY <1>1, <2>1, <2>2 DEF SuccessInv
<1>8. QED
  BY <1>2, <1>3, <1>4, <1>5, <1>6, <1>7 DEF Next, CallingThread

(* In both bindings, a call that hands a result to its caller evaluated the    *)
(* whole batch, swallowed no failure and leaves nothing running or open.       *)
THEOREM SuccessClean == Spec => []SuccessIsClean
<1>1. SuccessInv => SuccessIsClean
  BY DEF SuccessInv, SuccessSound, Settled, SuccessIsClean
<1>2. QED BY <1>1, SuccessInit, SuccessStep, PTL DEF Spec
-----------------------------------------------------------------------------
(* The .NET binding joins every body before it closes anything, so outside the *)
(* loop no worker is inside an instance.  With clones that are never `this`,   *)
(* nothing is closed before the loop has ended.                                *)

Joined ==
    /\ stage # "loop" => AllIdle
    /\ \A w \in Workers : pc[w] # "record"
    /\ stage \in {"start", "loop"} => closed = {}
    /\ stage = "closing" => allClones \subseteq closed \cup toClose
    /\ stage = "returned" /\ ~closeThrew => \A w \in Workers : clones[w] = w => w \in closed
    /\ released => stage = "returned"

JoinInv == SuccessInv /\ Joined

LEMMA JoinCallingThread ==
  ASSUME Binding = "csharp", ContractHonoured, JoinInv,
         \/ Dispatch \/ Probe \/ BatchFitness \/ LoopReturns \/ LoopThrows \/ CloseOne
         \/ Return \/ AbandonClosing \/ Interrupted \/ CallerReleases
  PROVE  Joined'
<1> USE BatchAssumption DEF JoinInv, SuccessInv, TypeInv, JoinsBodies
<1>1. UNCHANGED <<pc, clones, allClones>>
  BY DEF Dispatch, Probe, BatchFitness, LoopReturns, LoopThrows, Interrupted, LeaveLoop,
         CloseOne, Return, AbandonClosing, CallerReleases, bodyVars
<1>2. ASSUME Dispatch \/ Probe PROVE Joined'
  <2>1. \A w \in Workers : clones[w] # w
    BY <1>2 DEF Dispatch, Probe, WorkersSound, StageSound
  <2>2. closed' = {} /\ released' = released /\ stage' \in {"loop", "returned"}
    BY <1>2 DEF Dispatch, Probe, EnterLoop, ReturnWith, Joined, ContractHonoured, TypeOK
  <2>3. QED BY <1>1, <1>2, <2>1, <2>2 DEF Dispatch, Probe, Joined, AllIdle
<1>3. ASSUME BatchFitness PROVE Joined'
  BY <1>1, <1>3 DEF BatchFitness, Joined, AllIdle
<1>4. ASSUME NEW threw, LeaveLoop(threw), stage = "loop", AllIdle PROVE Joined'
  BY <1>1, <1>4 DEF LeaveLoop, ReturnWith, Joined, AllIdle, WorkersSound
<1>5. ASSUME LoopReturns \/ LoopThrows \/ Interrupted PROVE Joined'
  BY <1>4, <1>5 DEF LoopReturns, LoopThrows, Interrupted, LoopCompletes, LoopFails
<1>6. ASSUME CloseOne PROVE Joined'
  BY <1>1, <1>6 DEF CloseOne, Joined, AllIdle
<1>7. ASSUME Return PROVE Joined'
  BY <1>1, <1>7 DEF Return, ReturnWith, Joined, AllIdle, WorkersSound
<1>8. ASSUME AbandonClosing PROVE Joined'
  <2>1. closeThrew' = TRUE
    BY <1>8 DEF AbandonClosing, Joined
  <2>2. QED BY <1>1, <1>8, <2>1 DEF AbandonClosing, ReturnWith, Joined, AllIdle
<1>9. ASSUME CallerReleases PROVE Joined'
  BY <1>1, <1>9 DEF CallerReleases, Joined, AllIdle
<1>10. QED BY <1>2, <1>3, <1>5, <1>6, <1>7, <1>8, <1>9

LEMMA JoinBody ==
  ASSUME Binding = "csharp", JoinInv, NEW w \in Workers, Claim(w) \/ Body(w)
  PROVE  Joined' /\ stage = "loop"
<1> USE BatchAssumption DEF JoinInv, SuccessInv, TypeInv, JoinsBodies, RecordsOnCreation
<1>1. stage = "loop"
  BY DEF Claim, LoopOpen, Body, MakeClone, Record, Evaluate, FitnessThrows, Joined, AllIdle
<1>2. UNCHANGED <<stage, closed, released>>
  BY DEF Claim, Body, MakeClone, Record, Evaluate, FitnessThrows
<1>3. \A v \in Workers : pc'[v] # "record"
  BY DEF Claim, Body, MakeClone, Record, Evaluate, FitnessThrows, Throws, TypeOK, Joined
<1>4. QED BY <1>1, <1>2, <1>3 DEF Joined

LEMMA JoinStep ==
  ASSUME Binding = "csharp", ContractHonoured, JoinInv, [Next]_vars
  PROVE  JoinInv'
<1>1. SuccessInv'
  BY SuccessStep DEF JoinInv
<1>2. CASE UNCHANGED vars
  BY <1>1, <1>2 DEF JoinInv, Joined, AllIdle, vars, bodyVars
<1>3. CASE Next
  BY <1>1, <1>3, JoinCallingThread, JoinBody DEF JoinInv, Next, CallingThread
<1>4. QED BY <1>2, <1>3

LEMMA JoinInit == Init => JoinInv
  BY SuccessInit DEF Init, JoinInv, Joined, AllIdle

(* In the .NET binding no body runs on a closed instance or after the caller   *)
(* has its arguments back.                                                     *)
THEOREM NoUseAfterCloseHolds ==
  ASSUME Binding = "csharp", ContractHonoured
  PROVE  Spec => []NoUseAfterClose
<1>1. JoinInv => NoUseAfterClose
  BY DEF JoinInv, Joined, AllIdle, NoUseAfterClose
<1>2. JoinInv /\ [Next]_vars => JoinInv'
  BY JoinStep
<1>3. QED BY <1>1, <1>2, JoinInit, PTL DEF Spec

(* In the .NET binding a call that has returned left no clone open, unless a   *)
(* Dispose threw: also when a body or Clone() threw.                           *)
THEOREM ClonesClosedHolds ==
  ASSUME Binding = "csharp", ContractHonoured
  PROVE  Spec => []ClonesClosed
<1>1. JoinInv => ClonesClosed
  BY DEF JoinInv, Joined, ClonesClosed
<1>2. JoinInv /\ [Next]_vars => JoinInv'
  BY JoinStep
<1>3. QED BY <1>1, <1>2, JoinInit, PTL DEF Spec

LEMMA ContractStep ==
  ASSUME Binding = "csharp", ContractHonoured, JoinInv, [Next]_vars
  PROVE  [Contract!Next]_Contract!cVars
<1> USE DEF Contract!Next, Contract!cVars
<1>1. SuccessInv' /\ SuccessInv /\ TypeOK
  BY SuccessStep DEF JoinInv, SuccessInv, TypeInv
<1>2. ASSUME UNCHANGED <<batch, flat>>, outcome' = outcome \/ outcome = "pending"
      PROVE  [Contract!Next]_Contract!cVars
  <2>1. outcome' = "result" => flat = batch
    BY <1>1, <1>2 DEF SuccessInv, SuccessSound, Settled
  <2>2. outcome' \in {"pending", "result", "error"}
    BY <1>1 DEF SuccessInv, TypeInv, TypeOK
  <2>3. QED BY <1>2, <2>1, <2>2 DEF Contract!ReturnResult, Contract!ReturnError
<1>3. ASSUME NEW S \in SUBSET batch, flat' = flat \cup S, outcome = "pending",
             UNCHANGED <<batch, outcome>>
      PROVE  Contract!Evaluate
  BY <1>3 DEF Contract!Evaluate
<1>4. ASSUME NEW w \in Workers, Claim(w) \/ Body(w) PROVE [Contract!Next]_Contract!cVars
  <2>1. outcome = "pending" /\ UNCHANGED <<batch, outcome>>
    BY <1>1, <1>4, JoinBody
       DEF SuccessInv, StageSound, Claim, Body, MakeClone, Record, Evaluate, FitnessThrows, callVars
  <2>2. CASE Evaluate(w)
    BY <1>1, <1>3, <2>1, <2>2 DEF Evaluate, TypeOK
  <2>3. CASE UNCHANGED flat
    BY <1>2, <2>1, <2>3
  <2>4. QED BY <1>4, <2>2, <2>3 DEF Claim, Body, MakeClone, Record, FitnessThrows
<1>5. ASSUME BatchFitness PROVE [Contract!Next]_Contract!cVars
  <2>1. outcome = "pending" /\ UNCHANGED <<batch, outcome>>
    BY <1>1, <1>5 DEF BatchFitness, SuccessInv, StageSound, callVars
  <2>2. CASE flat' = batch
    BY <1>1, <1>3, <2>1, <2>2 DEF TypeOK
  <2>3. CASE UNCHANGED flat
    BY <1>2, <2>1, <2>3
  <2>4. QED BY <1>5, <2>2, <2>3 DEF BatchFitness
<1>6. ASSUME Dispatch \/ Probe PROVE [Contract!Next]_Contract!cVars
  BY <1>1, <1>2, <1>6 DEF Dispatch, Probe, SuccessInv, StageSound, callVars
<1>7. ASSUME LoopReturns \/ LoopThrows \/ Interrupted PROVE [Contract!Next]_Contract!cVars
  BY <1>1, <1>2, <1>7
     DEF LoopReturns, LoopThrows, Interrupted, LeaveLoop, SuccessInv, StageSound, callVars, bodyVars
<1>8. ASSUME CloseOne \/ Return \/ AbandonClosing \/ CallerReleases
      PROVE  [Contract!Next]_Contract!cVars
  BY <1>1, <1>2, <1>8
     DEF CloseOne, Return, AbandonClosing, CallerReleases, SuccessInv, StageSound, callVars, bodyVars
<1>9. CASE UNCHANGED vars
  BY <1>9 DEF vars, callVars, bodyVars
<1>10. QED BY <1>4, <1>5, <1>6, <1>7, <1>8, <1>9 DEF Next, CallingThread

(* The .NET evaluator implements the contract of a batch evaluation.           *)
THEOREM Implements ==
  ASSUME Binding = "csharp", ContractHonoured
  PROVE  Spec => ImplementsContract
<1>1. Init => Contract!Init
  BY DEF Init, Contract!Init
<1>2. JoinInv /\ [Next]_vars => JoinInv'
  BY JoinStep
<1>3. JoinInv /\ [Next]_vars => [Contract!Next]_Contract!cVars
  BY ContractStep
<1>4. QED BY <1>1, <1>2, <1>3, JoinInit, PTL DEF Spec, ImplementsContract, Contract!Spec
=============================================================================
