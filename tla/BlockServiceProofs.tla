-------------------------- MODULE BlockServiceProofs --------------------------
(***************************************************************************)
(* What BlockService guarantees for every set of services, blocks and      *)
(* objects, every Limit and Day: TypeOK, the fence against loops of        *)
(* crashes whatever calls outlive their service and, where none does, the  *)
(* permission of removals and that the map holds every open store.         *)
(***************************************************************************)
EXTENDS BlockService, FiniteSetTheorems, TLAPS

---------------------------------------------------------------------------
(* Types *)

\* A binder that is at some stage executes a call, of a service that was created.
LEMMA InCall ==
  ASSUME TypeOK, NEW s \in Services, call[s].stage # "none"
  PROVE  /\ call[s] \in Calls /\ call[s].op \in Ops /\ call[s].block \in Blocks
         /\ call[s].obj \in Ids \cup {NoObj} /\ call[s].stage \in Stages
         /\ call[s].stage \notin {"lower", "got", "native"} => call[s].obj = NoObj
         /\ life[s] # "none" /\ co[s] \in Configs
BY DEF TypeOK, CallsOK, Calls, NoCall

\* A call at its next stage.
LEMMA GotoIs ==
  ASSUME TypeOK, NEW s \in Services, call[s].stage # "none", NEW x \in Stages, Goto(s, x)
  PROVE  /\ call' \in [Services -> Calls \cup {NoCall}]
         /\ call'[s].op = call[s].op /\ call'[s].block = call[s].block
         /\ call'[s].conf = call[s].conf /\ call'[s].obj = call[s].obj /\ call'[s].stage = x
         /\ \A t \in Services \ {s} : call'[t] = call[t]
<1>1. call \in [Services -> Calls \cup {NoCall}] /\ call[s] \in Calls
  BY InCall DEF TypeOK, CallsOK
<1> DEFINE next == [call[s] EXCEPT !.stage = x]
<1>2. next \in Calls /\ next.op = call[s].op /\ next.block = call[s].block
      /\ next.conf = call[s].conf /\ next.obj = call[s].obj /\ next.stage = x
  BY <1>1 DEF Calls
<1>3. call' = [call EXCEPT ![s] = next]
  BY <1>1 DEF Goto
<1> HIDE DEF next
<1> QED
  BY <1>1, <1>2, <1>3

LEMMA GotoTypes ==
  ASSUME TypeOK, NEW s \in Services, call[s].stage # "none", NEW x \in Stages, Goto(s, x),
         x \in {"got", "native"} => call[s].obj \in Ids,
         x \notin {"lower", "got", "native"} => call[s].obj = NoObj, life' = life
  PROVE  CallsOK'
BY GotoIs, InCall DEF TypeOK, CallsOK

\* A call that has got an object, or opened one.
Obtain(s, i, x) == call' = [call EXCEPT ![s].obj = i, ![s].stage = x]

LEMMA ObjectIs ==
  ASSUME TypeOK, NEW s \in Services, call[s].stage # "none", NEW i \in Ids, NEW x \in Stages,
         Obtain(s, i, x)
  PROVE  /\ call' \in [Services -> Calls \cup {NoCall}]
         /\ call'[s].op = call[s].op /\ call'[s].block = call[s].block
         /\ call'[s].conf = call[s].conf /\ call'[s].obj = i /\ call'[s].stage = x
         /\ \A t \in Services \ {s} : call'[t] = call[t]
<1>1. call \in [Services -> Calls \cup {NoCall}] /\ call[s] \in Calls
  BY InCall DEF TypeOK, CallsOK
<1> DEFINE next == [call[s] EXCEPT !.obj = i, !.stage = x]
<1>2. next \in Calls /\ next.op = call[s].op /\ next.block = call[s].block
      /\ next.conf = call[s].conf /\ next.obj = i /\ next.stage = x
  BY <1>1 DEF Calls
<1>3. call' = [call EXCEPT ![s] = next]
  BY <1>1 DEF Obtain
<1> HIDE DEF next
<1> QED
  BY <1>1, <1>2, <1>3

LEMMA ObjectTypes ==
  ASSUME TypeOK, NEW s \in Services, call[s].stage # "none", NEW i \in Ids,
         NEW x \in {"lower", "got"},
         Obtain(s, i, x), life' = life
  PROVE  CallsOK'
<1>1. /\ call' \in [Services -> Calls \cup {NoCall}]
      /\ call'[s].op = call[s].op /\ call'[s].conf = call[s].conf /\ call'[s].obj = i
      /\ call'[s].stage = x
      /\ \A t \in Services \ {s} : call'[t] = call[t]
  BY ObjectIs DEF Stages
<1>2. life[s] # "none"
  BY InCall
<1>3. CallsOK
  BY DEF TypeOK
<1> QED
  BY <1>1, <1>2, <1>3 DEF CallsOK

\* A call that is over.
LEMMA ReturnIs ==
  ASSUME TypeOK, NEW s \in Services, Return(s)
  PROVE  /\ call' \in [Services -> Calls \cup {NoCall}] /\ call'[s] = NoCall
         /\ \A t \in Services \ {s} : call'[t] = call[t]
BY DEF TypeOK, CallsOK, Return

LEMMA ReturnTypes ==
  ASSUME TypeOK, NEW s \in Services, Return(s), life' = life
  PROVE  CallsOK'
BY ReturnIs DEF TypeOK, CallsOK, NoCall

\* What a call makes of the configurations keeps their types.
LEMMA ConfiguredTypes ==
  ASSUME TypeOK, NEW s \in Services, Configured(s)
  PROVE  /\ conf' \in [Blocks -> Configs \cup {NoConf}] /\ asked' = asked
         /\ co' \in [Services -> Configs \cup {NoConf}]
         /\ \A t \in Services : life[t] # "none" => co'[t] \in Configs
         /\ call[s].stage \in {"enter", "store"}
BY InCall DEF Configured, At, TypeOK

LEMMA CloseTypes ==
  ASSUME TypeOK, NEW S \in SUBSET Ids, CloseAll(S)
  PROVE  /\ inited' \in [Ids -> BOOLEAN] /\ ub' \in BOOLEAN
         /\ native' \in [Ids -> {"none", "live", "orphan", "dead", "freed"}]
BY DEF TypeOK, CloseAll

LEMMA GoneTypes ==
  ASSUME TypeOK, NEW s \in Services
  PROVE  /\ Mapped(s) \subseteq Ids /\ Gone(s) \subseteq Ids
         /\ NoMap \in [Blocks -> Ids \cup {NoObj}] /\ Kept(s) \in [Blocks -> Ids \cup {NoObj}]
BY DEF TypeOK, Mapped, Gone, Kept, NoMap

LEMMA VanishedTypes ==
  ASSUME TypeOK, Vanished, conf' = conf, asked' = asked, flag' \in BOOLEAN, mtime' \in Nat,
         booting' \in BOOLEAN, now' \in Nat, crash' \in Int
  PROVE  TypeOK'
<1>1. CallsOK'
  BY DEF Vanished, CallsOK, NoCall
<1>2. map' \in [Services -> [Blocks -> Ids \cup {NoObj}]]
  BY DEF Vanished, NoMap
<1> QED
  BY <1>1, <1>2 DEF Vanished, TypeOK

\* The steps of a call up to the object of its block.
LEMMA ResolveTypes ==
  ASSUME TypeOK, NEW s \in Services,
         \/ SetConfig(s) \/ TestRemoval(s) \/ Unset(s) \/ Hit(s) \/ Miss(s) \/ Unavailable(s)
  PROVE  TypeOK'
<1> USE DEF prefs, services, objects, disk, fence, At
<1>1. CASE SetConfig(s)
  <2>1. CallsOK'
    BY <1>1, GotoTypes, InCall DEF SetConfig, Stages
  <2>2. call[s].conf \in Configs
    BY <1>1 DEF SetConfig, TypeOK, CallsOK
  <2> QED
    BY <1>1, <2>1, <2>2 DEF SetConfig, TypeOK
<1>2. CASE TestRemoval(s)
  <2>1. CallsOK'
    BY <1>2, GotoTypes, ReturnTypes, InCall DEF TestRemoval, Stages
  <2>2. Own(s) \in Configs
    BY <1>2, InCall DEF TestRemoval, Own, TypeOK
  <2> QED
    BY <1>2, <2>1, <2>2 DEF TestRemoval, TypeOK
<1>3. CASE Unset(s)
  <2>1. CallsOK'
    BY <1>3, GotoTypes, InCall DEF Unset, Stages
  <2> QED
    BY <1>3, <2>1 DEF Unset, TypeOK
<1>4. CASE Hit(s)
  <2>1. map[s][call[s].block] \in Ids
    BY <1>4, ConfiguredTypes, InCall DEF Hit, TypeOK
  <2>2. CallsOK'
    BY <1>4, <2>1, ConfiguredTypes, ObjectTypes DEF Hit, Got, Obtain, Stages
  <2> QED
    BY <1>4, <2>2, ConfiguredTypes DEF Hit, TypeOK
<1>5. CASE Miss(s)
  <2>1. CallsOK'
    BY <1>5, ConfiguredTypes, GotoTypes, ReturnTypes, InCall DEF Miss, Stages
  <2>2. inited' \in [Ids -> BOOLEAN] /\ ub' \in BOOLEAN
        /\ native' \in [Ids -> {"none", "live", "orphan", "dead", "freed"}]
    BY <1>5, GoneTypes, CloseTypes DEF Miss
  <2>3. map' \in [Services -> [Blocks -> Ids \cup {NoObj}]]
    BY <1>5, GoneTypes DEF Miss, TypeOK
  <2> QED
    BY <1>5, <2>1, <2>2, <2>3, ConfiguredTypes DEF Miss, TypeOK
<1>6. CASE Unavailable(s)
  <2>1. CallsOK'
    BY <1>6, ReturnTypes DEF Unavailable
  <2> QED
    BY <1>6, <2>1 DEF Unavailable, TypeOK
<1> QED
  BY <1>1, <1>2, <1>3, <1>4, <1>5, <1>6

\* The steps of the constructor, and what a call does with its object.
LEMMA OpeningTypes ==
  ASSUME TypeOK, NEW s \in Services,
         \/ Pass(s) \/ Replace(s) \/ Raise(s) \/ NoLibrary(s) \/ OpenCrash(s) \/ Lower(s)
         \/ \E i \in Ids, o \in {"live", "dead"} : OpenNative(s, i, o)
         \/ Check(s) \/ Work(s) \/ CloseBlock(s)
  PROVE  TypeOK'
<1> USE DEF prefs, services, objects, disk, fence, At, Touch
<1>1. CASE Pass(s)
  <2>1. CallsOK'
    BY <1>1, GotoTypes, InCall DEF Pass, Stages
  <2> QED
    BY <1>1, <2>1 DEF Pass, TypeOK, Opening
<1>2. CASE Replace(s)
  <2>1. CallsOK'
    BY <1>2, GotoTypes, InCall DEF Replace, Stages
  <2> QED
    BY <1>2, <2>1 DEF Replace, TypeOK
<1>3. CASE Raise(s)
  <2>1. CallsOK'
    BY <1>3, GotoTypes, InCall DEF Raise, Stages
  <2> QED
    BY <1>3, <2>1 DEF Raise, TypeOK
<1>4. CASE NoLibrary(s)
  <2>1. CallsOK'
    BY <1>4, GotoTypes, InCall DEF NoLibrary, Stages
  <2> QED
    BY <1>4, <2>1 DEF NoLibrary, TypeOK
<1>5. CASE OpenCrash(s)
  BY <1>5, VanishedTypes DEF OpenCrash, TypeOK
<1>6. CASE Lower(s)
  <2>1. CASE call[s].obj = NoObj
    <3>1. Return(s) /\ exFlag' = TRUE /\ UNCHANGED <<map, todo>>
      BY <1>6, <2>1 DEF Lower
    <3>2. CallsOK'
      BY <1>6, <3>1, ReturnTypes DEF Lower
    <3> QED
      BY <1>6, <3>1, <3>2 DEF Lower, TypeOK
  <2>2. CASE call[s].obj # NoObj
    <3>1. call[s].obj \in Ids /\ call[s].block \in Blocks
      BY <1>6, <2>2, InCall DEF Lower
    <3>2. CallsOK'
      BY <1>6, <2>2, <3>1, GotoTypes DEF Lower, Stages
    <3> DEFINE row == [map[s] EXCEPT ![call[s].block] = call[s].obj]
    <3>3. map' \in [Services -> [Blocks -> Ids \cup {NoObj}]]
      <4>1. row \in [Blocks -> Ids \cup {NoObj}]
        BY <3>1 DEF TypeOK
      <4>2. map' = [map EXCEPT ![s] = row]
        BY <1>6, <2>2 DEF Lower
      <4> HIDE DEF row
      <4> QED
        BY <4>1, <4>2 DEF TypeOK
    <3>4. todo' \subseteq Ids
      BY <1>6, <2>2, <3>1 DEF Lower, TypeOK
    <3> QED
      BY <1>6, <2>2, <3>2, <3>3, <3>4 DEF Lower, TypeOK
  <2> QED
    BY <2>1, <2>2
<1>7. ASSUME NEW i \in Ids, NEW o \in {"live", "dead"}, OpenNative(s, i, o)
      PROVE  TypeOK'
  <2>1. CallsOK'
    BY <1>7, ObjectTypes DEF OpenNative, Obtain, Stages
  <2>2. block' \in [Ids -> Blocks \cup {NoObj}] /\ inited' \in [Ids -> BOOLEAN]
        /\ native' \in [Ids -> {"none", "live", "orphan", "dead", "freed"}]
    BY <1>7, InCall DEF OpenNative, TypeOK
  <2> QED
    BY <1>7, <2>1, <2>2 DEF OpenNative, TypeOK
<1>8. CASE Check(s)
  <2>1. CallsOK'
    BY <1>8, GotoTypes, ReturnTypes DEF Check, Stages, TypeOK, CallsOK
  <2> QED
    BY <1>8, <2>1 DEF Check, TypeOK
<1>9. CASE Work(s)
  <2>1. CallsOK'
    BY <1>9, ReturnTypes DEF Work
  <2> QED
    BY <1>9, <2>1 DEF Work, TypeOK
<1>10. CASE CloseBlock(s)
  <2>1. CallsOK' /\ call[s].obj \in Ids
    BY <1>10, ReturnTypes DEF CloseBlock, TypeOK, CallsOK
  <2>2. inited' \in [Ids -> BOOLEAN] /\ ub' \in BOOLEAN
        /\ native' \in [Ids -> {"none", "live", "orphan", "dead", "freed"}]
    BY <1>10, <2>1, CloseTypes DEF CloseBlock
  <2> QED
    BY <1>10, <2>1, <2>2 DEF CloseBlock, TypeOK
<1> QED
  BY <1>1, <1>2, <1>3, <1>4, <1>5, <1>6, <1>7, <1>8, <1>9, <1>10

\* The life of a service.
LEMMA LifeTypes ==
  ASSUME TypeOK, NEW s \in Services,
         \/ Create(s) \/ DestroyBegin(s) \/ DestroyEnd(s)
         \/ \E i \in Ids : DestroySkip(s, i) \/ DestroyClose(i)
  PROVE  TypeOK'
<1> USE DEF prefs, services, objects, disk, fence
<1>1. CASE Create(s)
  <2>1. CallsOK'
    BY <1>1 DEF Create, TypeOK, CallsOK, NoCall
  <2> QED
    BY <1>1, <2>1, ServiceAssumption, GoneTypes DEF Create, TypeOK
<1>2. CASE DestroyBegin(s)
  <2>1. CallsOK' /\ todo' \subseteq Ids
    BY <1>2, GoneTypes DEF DestroyBegin, TypeOK, CallsOK
  <2> QED
    BY <1>2, <2>1 DEF DestroyBegin, TypeOK
<1>3. CASE DestroyEnd(s)
  <2>1. CallsOK'
    BY <1>3 DEF DestroyEnd, TypeOK, CallsOK
  <2> QED
    BY <1>3, <2>1, GoneTypes DEF DestroyEnd, TypeOK
<1>4. ASSUME NEW i \in Ids, DestroySkip(s, i)
      PROVE  TypeOK'
  <2>1. CallsOK'
    BY <1>4 DEF DestroySkip, TypeOK, CallsOK
  <2> QED
    BY <1>4, <2>1 DEF DestroySkip, TypeOK
<1>5. ASSUME NEW i \in Ids, DestroyClose(i)
      PROVE  TypeOK'
  <2>1. CallsOK'
    BY <1>5 DEF DestroyClose, TypeOK, CallsOK
  <2>2. inited' \in [Ids -> BOOLEAN] /\ ub' \in BOOLEAN
        /\ native' \in [Ids -> {"none", "live", "orphan", "dead", "freed"}]
    BY <1>5, CloseTypes DEF DestroyClose
  <2> QED
    BY <1>5, <2>1, <2>2 DEF DestroyClose, TypeOK
<1> QED
  BY <1>1, <1>2, <1>3, <1>4, <1>5

\* The service's variables stay in their sets.
THEOREM TypeCorrect == Spec => []TypeOK
<1>1. Init => TypeOK
  <2> SUFFICES ASSUME Init PROVE TypeOK
    OBVIOUS
  <2>1. CallsOK
    BY DEF Init, CallsOK, NoCall
  <2>2. crash \in Int
    BY ServiceAssumption DEF Init, Longago
  <2>3. map \in [Services -> [Blocks -> Ids \cup {NoObj}]]
    BY DEF Init, NoMap
  <2> QED
    BY ServiceAssumption, <2>1, <2>2, <2>3 DEF Init, TypeOK
<1>2. TypeOK /\ [Next]_vars => TypeOK'
  <2> SUFFICES ASSUME TypeOK, [Next]_vars PROVE TypeOK'
    OBVIOUS
  <2> USE DEF prefs, services, objects, disk, fence
  <2>1. ASSUME NEW s \in Services, NEW op \in Ops, NEW b \in Blocks,
               NEW c \in Configs \cup {NoConf},
               op = "setBlockConfig" => c \in Configs, Begin(s, op, b, c)
        PROVE  TypeOK'
    <3>1. CallsOK'
      BY <2>1 DEF Begin, TypeOK, CallsOK, Calls, Stages, NoCall
    <3> QED
      BY <2>1, <3>1 DEF Begin, TypeOK
  <2>2. ASSUME NEW s \in Services, Step(s)
        PROVE  TypeOK'
    BY <2>1, <2>2, ResolveTypes, OpeningTypes, LifeTypes DEF Step, Resolve
  <2>3. CASE \E i \in Ids : DestroyClose(i)
    <3>1. CASE Services = {}
      BY <2>3, <3>1 DEF DestroyClose, TypeOK, CallsOK, CloseAll
    <3> QED
      BY <2>3, <3>1, LifeTypes
  <2>4. CASE Kill
    BY <2>4, VanishedTypes DEF Kill, TypeOK
  <2>5. CASE Reboot
    BY <2>5, VanishedTypes DEF Reboot, TypeOK
  <2>6. CASE Receive
    <3>1. CallsOK' /\ Longago \in Int
      BY <2>6, ServiceAssumption DEF Receive, TypeOK, CallsOK, Longago
    <3> QED
      BY <2>6, <3>1 DEF Receive, TypeOK, Opening
  <2>7. CASE Tick
    <3>1. CallsOK'
      BY <2>7 DEF Tick, TypeOK, CallsOK
    <3> QED
      BY <2>7, <3>1 DEF Tick, TypeOK
  <2>8. CASE UNCHANGED vars
    <3>1. CallsOK'
      BY <2>8 DEF vars, TypeOK, CallsOK
    <3> QED
      BY <2>8, <3>1 DEF vars, TypeOK
  <2> QED
    BY <2>2, <2>3, <2>4, <2>5, <2>6, <2>7, <2>8 DEF Next
<1> QED
  BY <1>1, <1>2, PTL DEF Spec

---------------------------------------------------------------------------
(* The fence *)

OpeningStages == {"replace", "raise", "open", "lower"}

\* A day has passed since the last opening that killed the process began.
Aged == now - crash >= Day

\* It has, or the flag file stands in a directory that is no older than that
\* opening, and it has while a service has passed the fence.  Openings under
\* way at the same time are marked as mixed; the flag file of one that is not is
\* where the constructor believes it to be.
Lasting == mtime <= now /\ (Aged \/ (flag /\ mtime >= crash))
OpeningsAged ==
  \A s \in Services : call[s].stage \in OpeningStages => Aged /\ began[s] <= now
OverlapsMixed ==
  \A s, t \in Services :
    s # t /\ call[s].stage \in OpeningStages /\ call[t].stage \in OpeningStages => s \in mixed
FlagMeant ==
  \A s \in Services \ mixed :
    /\ call[s].stage = "replace" => flag
    /\ call[s].stage = "raise" => ~flag
    /\ call[s].stage = "open" => flag /\ mtime >= began[s]
FenceInv == Lasting /\ OpeningsAged /\ OverlapsMixed /\ FlagMeant

\* An opening passes the fence only a day after such an opening began.
LEMMA FenceStops ==
  ASSUME TypeOK, FenceInv, ~Fenced
  PROVE  Aged
BY ServiceAssumption DEF TypeOK, FenceInv, Lasting, Fenced, Aged

\* Steps that leave the flag file alone, and every opening where it is or at its
\* end, keep the fence.
LEMMA QuietKeeps ==
  ASSUME TypeOK, FenceInv, UNCHANGED <<flag, now, began, mixed, crash>>, mtime' \in {mtime, now},
         \A s \in Services : \/ call'[s].stage = call[s].stage
                             \/ call'[s].stage \notin OpeningStages
                             \/ call[s].stage = "open" /\ call'[s].stage = "lower"
  PROVE  FenceInv'
<1> USE DEF FenceInv, Aged, OpeningStages
<1>1. Lasting'
  BY DEF TypeOK, Lasting
<1>2. OpeningsAged'
  BY DEF OpeningsAged
<1>3. OverlapsMixed'
  BY DEF OverlapsMixed
<1>4. FlagMeant'
  BY DEF TypeOK, FlagMeant, Lasting
<1> QED
  BY <1>1, <1>2, <1>3, <1>4

\* The steps of a binder that have nothing to do with the flag file.
LEMMA BinderQuiet ==
  ASSUME TypeOK, FenceInv, NEW s \in Services,
         \/ SetConfig(s) \/ TestRemoval(s) \/ Unset(s) \/ Hit(s) \/ Miss(s) \/ Unavailable(s)
         \/ NoLibrary(s) \/ \E i \in Ids, o \in {"live", "dead"} : OpenNative(s, i, o)
         \/ Check(s) \/ Work(s) \/ CloseBlock(s)
  PROVE  FenceInv'
<1> USE DEF At, disk, fence, OpeningStages, Stages
<1>1. UNCHANGED <<flag, now, began, mixed, crash>> /\ mtime' \in {mtime, now}
  BY DEF SetConfig, TestRemoval, Unset, Hit, Miss, Unavailable, NoLibrary, OpenNative, Check,
         Work, CloseBlock, Touch
<1>2. CASE Return(s)
  <2>1. \A t \in Services : call'[t].stage = call[t].stage \/ call'[t].stage = "none"
    BY <1>2, ReturnIs DEF NoCall
  <2> QED
    BY <1>1, <2>1, QuietKeeps
<1>3. ASSUME NEW x \in Stages \ {"replace", "raise", "open", "lower"}, Goto(s, x),
             call[s].stage # "none"
      PROVE  FenceInv'
  <2>1. \A t \in Services : call'[t].stage = call[t].stage \/ call'[t].stage = x
    BY <1>3, GotoIs
  <2> QED
    BY <1>1, <1>3, <2>1, QuietKeeps
<1>4. CASE SetConfig(s) \/ TestRemoval(s) \/ Unset(s) \/ Unavailable(s) \/ Check(s) \/ Work(s)
           \/ CloseBlock(s)
  BY <1>2, <1>3, <1>4
  DEF SetConfig, TestRemoval, Unset, Unavailable, Check, Work, CloseBlock
<1>5. CASE Miss(s)
  BY <1>2, <1>3, <1>5, ConfiguredTypes DEF Miss
<1>6. CASE Hit(s)
  <2>1. map[s][call[s].block] \in Ids /\ call[s].stage # "none"
    BY <1>6, ConfiguredTypes, InCall DEF Hit, TypeOK
  <2>2. Obtain(s, map[s][call[s].block], "got")
    BY <1>6 DEF Hit, Got, Obtain
  <2>3. \A t \in Services : call'[t].stage = call[t].stage \/ call'[t].stage = "got"
    BY <2>1, <2>2, ObjectIs
  <2> QED
    BY <1>1, <2>3, QuietKeeps
<1>7. CASE NoLibrary(s)
  <2>1. /\ call[s].stage = "open" /\ call'[s].stage = "lower"
        /\ \A t \in Services \ {s} : call'[t] = call[t]
    BY <1>7, GotoIs DEF NoLibrary
  <2> QED
    BY <1>1, <2>1, QuietKeeps
<1>8. ASSUME NEW i \in Ids, NEW o \in {"live", "dead"}, OpenNative(s, i, o)
      PROVE  FenceInv'
  <2>1. call[s].stage = "open" /\ Obtain(s, i, "lower")
    BY <1>8 DEF OpenNative, Obtain
  <2>2. call'[s].stage = "lower" /\ \A t \in Services \ {s} : call'[t] = call[t]
    BY <2>1, ObjectIs
  <2> QED
    BY <1>1, <2>1, <2>2, QuietKeeps
<1> QED
  BY <1>4, <1>5, <1>6, <1>7, <1>8

\* The steps of a constructor at the flag file, where these succeed.
LEMMA FlagSteps ==
  ASSUME ~FlagFails, TypeOK, FenceInv, NEW s \in Services,
         Pass(s) \/ Replace(s) \/ Raise(s) \/ Lower(s)
  PROVE  FenceInv'
<1> USE DEF At, OpeningStages
<1>1. CASE Pass(s)
  <2>1. Aged /\ Aged'
    BY <1>1, FenceStops DEF Pass, Aged
  <2>2. /\ call[s].stage = "examine" /\ \A t \in Services \ {s} : call'[t] = call[t]
        /\ call'[s].stage = IF flag THEN "replace" ELSE "raise"
    BY <1>1, GotoIs DEF Pass, Stages
  <2>3. /\ \A t \in Services : call[t].stage \in OpeningStages => t \in mixed' /\ s \in mixed'
        /\ mixed \subseteq mixed'
    BY <1>1 DEF Pass, Opening
  <2>4. began' = [began EXCEPT ![s] = now] /\ UNCHANGED <<flag, mtime, now, crash>>
    BY <1>1 DEF Pass
  <2>5. Lasting'
    BY <2>1, <2>2, <2>3, <2>4 DEF FenceInv, Lasting, OpeningsAged, TypeOK, Aged
  <2>6. OpeningsAged'
    BY <2>1, <2>2, <2>3, <2>4 DEF FenceInv, OpeningsAged, TypeOK, Aged
  <2>7. OverlapsMixed'
    BY <2>1, <2>2, <2>3, <2>4 DEF FenceInv, OverlapsMixed, TypeOK
  <2>8. FlagMeant'
    BY <2>1, <2>2, <2>3, <2>4 DEF FenceInv, FlagMeant, OverlapsMixed, OpeningsAged, Lasting, TypeOK
  <2> QED
    BY <2>5, <2>6, <2>7, <2>8 DEF FenceInv
<1>2. CASE Replace(s)
  <2>1. /\ call[s].stage = "replace" /\ \A t \in Services \ {s} : call'[t] = call[t]
        /\ call'[s].stage = IF flag THEN "raise" ELSE "open"
    BY <1>2, GotoIs DEF Replace, Stages
  <2>2. ~flag' /\ mtime' \in {mtime, now} /\ UNCHANGED <<began, mixed, now, crash>>
    BY <1>2 DEF Replace
  <2>5. Lasting'
    BY <2>1, <2>2 DEF FenceInv, Lasting, OpeningsAged, TypeOK, Aged
  <2>6. OpeningsAged'
    BY <2>1, <2>2 DEF FenceInv, OpeningsAged, TypeOK, Aged
  <2>7. OverlapsMixed'
    BY <2>1, <2>2 DEF FenceInv, OverlapsMixed, TypeOK
  <2>8. FlagMeant'
    BY <2>1, <2>2 DEF FenceInv, FlagMeant, OverlapsMixed, OpeningsAged, Lasting, TypeOK
  <2> QED
    BY <2>5, <2>6, <2>7, <2>8 DEF FenceInv
<1>3. CASE Raise(s)
  <2>1. /\ call[s].stage = "raise" /\ \A t \in Services \ {s} : call'[t] = call[t]
        /\ call'[s].stage = "open"
    BY <1>3, GotoIs DEF Raise, Stages
  <2>2. /\ flag' /\ mtime' = IF flag THEN mtime ELSE now
        /\ UNCHANGED <<began, mixed, now, crash>>
    BY <1>3 DEF Raise
  <2>5. Lasting'
    BY <2>1, <2>2 DEF FenceInv, Lasting, OpeningsAged, TypeOK, Aged
  <2>6. OpeningsAged'
    BY <2>1, <2>2 DEF FenceInv, OpeningsAged, TypeOK, Aged
  <2>7. OverlapsMixed'
    BY <2>1, <2>2 DEF FenceInv, OverlapsMixed, TypeOK
  <2>8. FlagMeant'
    BY <2>1, <2>2 DEF FenceInv, FlagMeant, OverlapsMixed, OpeningsAged, Lasting, TypeOK
  <2> QED
    BY <2>5, <2>6, <2>7, <2>8 DEF FenceInv
<1>4. CASE Lower(s)
  <2>1. call[s].stage = "lower" /\ (Return(s) \/ Goto(s, "got"))
    BY <1>4 DEF Lower
  <2>2. call'[s].stage \in {"none", "got"} /\ \A t \in Services \ {s} : call'[t] = call[t]
    BY <2>1, ReturnIs, GotoIs DEF NoCall, Stages
  <2>3. /\ ~flag' /\ mtime' \in {mtime, now} /\ UNCHANGED <<now, crash>>
        /\ began' = [began EXCEPT ![s] = 0] /\ mixed' = mixed \ {s}
    BY <1>4 DEF Lower
  <2>5. Lasting'
    BY <2>1, <2>2, <2>3 DEF FenceInv, Lasting, OpeningsAged, TypeOK, Aged
  <2>6. OpeningsAged'
    BY <2>1, <2>2, <2>3 DEF FenceInv, OpeningsAged, TypeOK, Aged
  <2>7. OverlapsMixed'
    BY <2>1, <2>2, <2>3 DEF FenceInv, OverlapsMixed, TypeOK
  <2>8. FlagMeant'
    BY <2>1, <2>2, <2>3 DEF FenceInv, FlagMeant, OverlapsMixed, OpeningsAged, Lasting, TypeOK
  <2> QED
    BY <2>5, <2>6, <2>7, <2>8 DEF FenceInv
<1> QED
  BY <1>1, <1>2, <1>3, <1>4

\* The process dies: in an opening that no other overlapped, under its flag.
LEMMA CrashKeeps ==
  ASSUME TypeOK, FenceInv, NEW s \in Services, OpenCrash(s)
  PROVE  FenceInv'
<1>1. Aged /\ (s \notin mixed => flag /\ mtime >= began[s]) /\ began[s] \in Nat
  BY DEF OpenCrash, At, FenceInv, OpeningsAged, FlagMeant, OpeningStages, TypeOK
<1>2. mtime' \in {mtime, now} /\ mtime <= now /\ UNCHANGED <<flag, now>>
  BY DEF OpenCrash, Touch, FenceInv, Lasting
<1>3. \A t \in Services : call'[t].stage = "none"
  BY DEF OpenCrash, Vanished, NoCall
<1>4. crash' = IF s \in mixed THEN crash ELSE began[s]
  BY DEF OpenCrash
<1>5. Aged' \/ (flag' /\ mtime' >= crash')
  BY <1>1, <1>2, <1>4 DEF Aged, TypeOK
<1> QED
  BY <1>2, <1>3, <1>5 DEF FenceInv, Lasting, OpeningsAged, OverlapsMixed, FlagMeant, OpeningStages, TypeOK

\* With flag files that can be created and deleted, an opening that killed the
\* process, and that no other overlapped, is not followed by another within a
\* day, whatever calls are in flight when a service is destroyed.
THEOREM FenceHolds ==
  ASSUME ~FlagFails
  PROVE  Spec => CrashLoopBroken
<1>1. Init => FenceInv
  BY ServiceAssumption DEF Init, FenceInv, Lasting, OpeningsAged, OverlapsMixed, FlagMeant, Aged, Longago, NoCall, OpeningStages
<1>2. TypeOK /\ FenceInv /\ [Next]_vars => FenceInv'
  <2> SUFFICES ASSUME TypeOK, FenceInv, [Next]_vars PROVE FenceInv'
    OBVIOUS
  <2> USE DEF disk, fence
  <2>1. CASE UNCHANGED <<flag, mtime, now, began, mixed, crash, call>>
    BY <2>1, QuietKeeps
  <2>2. ASSUME NEW s \in Services, NEW op \in Ops, NEW b \in Blocks,
               NEW c \in Configs \cup {NoConf}, Begin(s, op, b, c)
        PROVE  FenceInv'
    <3>1. UNCHANGED <<flag, mtime, now, began, mixed, crash>>
      BY <2>2 DEF Begin
    <3>2. \A t \in Services : call'[t].stage = call[t].stage \/ call'[t].stage \in {"begin", "enter"}
      BY <2>2 DEF Begin, TypeOK, CallsOK
    <3> QED
      BY <3>1, <3>2, QuietKeeps DEF OpeningStages
  <2>3. ASSUME NEW s \in Services, Step(s)
        PROVE  FenceInv'
    BY <2>1, <2>2, <2>3, BinderQuiet, FlagSteps, CrashKeeps
    DEF Step, Resolve, Create, DestroyBegin, DestroyEnd, DestroySkip
  <2>4. CASE Kill \/ Reboot
    <3>1. \A t \in Services : call'[t].stage = "none"
      BY <2>4 DEF Kill, Reboot, Vanished, NoCall
    <3>2. UNCHANGED <<flag, mtime, now, crash>>
      BY <2>4 DEF Kill, Reboot
    <3> QED
      BY <3>1, <3>2 DEF FenceInv, Lasting, OpeningsAged, OverlapsMixed, FlagMeant, Aged, OpeningStages
  <2>5. CASE Receive
    <3>1. CASE UNCHANGED <<flag, mtime, mixed, crash>>
      BY <2>1, <2>5, <3>1 DEF Receive
    <3>2. CASE /\ ~flag' /\ crash' = Longago /\ mtime' = IF flag THEN now ELSE mtime
               /\ mixed' = IF flag THEN mixed \cup Opening ELSE mixed
      <4>1. Aged' /\ mtime' <= now' /\ UNCHANGED <<call, began, now>>
        BY <2>5, <3>2, ServiceAssumption DEF Receive, Aged, Longago, TypeOK, FenceInv, Lasting
      <4>2. CASE flag
        BY <3>2, <4>1, <4>2 DEF FenceInv, Lasting, OpeningsAged, OverlapsMixed, FlagMeant, Opening, OpeningStages
      <4>3. CASE ~flag
        BY <3>2, <4>1, <4>3 DEF FenceInv, Lasting, OpeningsAged, OverlapsMixed, FlagMeant, TypeOK
      <4> QED
        BY <4>2, <4>3
    <3> QED
      BY <2>5, <3>1, <3>2 DEF Receive
  <2>6. CASE Tick
    <3>1. now' = now + 1 /\ UNCHANGED <<flag, mtime, began, mixed, crash, call>>
      BY <2>6 DEF Tick
    <3> QED
      BY <3>1, ServiceAssumption DEF FenceInv, Lasting, OpeningsAged, OverlapsMixed, FlagMeant, Aged, TypeOK
  <2> QED
    BY <2>1, <2>3, <2>4, <2>5, <2>6 DEF Next, DestroyClose, vars
<1>3. TypeOK /\ FenceInv
        /\ (\E s \in Services : \/ \E i \in Ids, o \in {"live", "dead"} : OpenNative(s, i, o)
                                \/ OpenCrash(s))
        => now - crash >= Day
  BY DEF OpenNative, OpenCrash, At, FenceInv, OpeningsAged, OpeningStages, Aged
<1> QED
  BY <1>1, <1>2, <1>3, TypeCorrect, PTL DEF Spec, CrashLoopBroken

---------------------------------------------------------------------------
(* One call at a time *)

\* Where no call outlives its service, calls are those of the one service that
\* is up.
Alone ==
  /\ \A s \in Services : call[s] # NoCall => life[s] = "up"
  /\ \A s, t \in Services : life[s] \in {"up", "destroying"} /\ life[t] \in {"up", "destroying"}
                              => s = t

\* What a step of a call leaves alone.
LEMMA StepOfCall ==
  ASSUME TypeOK, NEW s \in Services, Resolve(s) \/ Check(s) \/ Work(s) \/ CloseBlock(s)
  PROVE  \/ Vanished
         \/ /\ call[s] # NoCall /\ life' = life
            /\ \A t \in Services \ {s} : call'[t] = call[t]
<1> USE DEF At, services, NoCall
<1>1. ASSUME NEW x \in Stages, Goto(s, x), call[s].stage # "none"
      PROVE  \A t \in Services \ {s} : call'[t] = call[t]
  BY <1>1, GotoIs
<1>2. ASSUME Return(s)
      PROVE  \A t \in Services \ {s} : call'[t] = call[t]
  BY <1>2, ReturnIs
<1>3. ASSUME NEW i \in Ids, NEW x \in Stages, Obtain(s, i, x), call[s].stage # "none"
      PROVE  \A t \in Services \ {s} : call'[t] = call[t]
  BY <1>3, ObjectIs
<1>4. CASE SetConfig(s) \/ TestRemoval(s) \/ Unset(s) \/ Unavailable(s) \/ Pass(s)
  BY <1>1, <1>2, <1>4 DEF SetConfig, TestRemoval, Unset, Unavailable, Pass, Stages
<1>5. CASE Replace(s) \/ Raise(s) \/ NoLibrary(s) \/ Lower(s)
  BY <1>1, <1>2, <1>5 DEF Replace, Raise, NoLibrary, Lower, Stages
<1>6. CASE Miss(s)
  BY <1>1, <1>2, <1>6, ConfiguredTypes DEF Miss, Stages
<1>7. CASE Hit(s)
  <2>1. map[s][call[s].block] \in Ids /\ call[s].stage # "none"
    BY <1>7, ConfiguredTypes, InCall DEF Hit, TypeOK
  <2>2. Obtain(s, map[s][call[s].block], "got") /\ life' = life
    BY <1>7 DEF Hit, Got, Obtain
  <2>3. \A t \in Services \ {s} : call'[t] = call[t]
    BY <1>3, <2>1, <2>2 DEF Stages
  <2> QED
    BY <2>1, <2>2, <2>3
<1>8. ASSUME NEW i \in Ids, NEW o \in {"live", "dead"}, OpenNative(s, i, o)
      PROVE  /\ call[s] # NoCall /\ life' = life
             /\ \A t \in Services \ {s} : call'[t] = call[t]
  <2>1. Obtain(s, i, "lower") /\ life' = life /\ call[s].stage = "open"
    BY <1>8 DEF OpenNative, Obtain
  <2>2. \A t \in Services \ {s} : call'[t] = call[t]
    BY <1>3, <2>1 DEF Stages
  <2> QED
    BY <2>1, <2>2
<1>9. CASE Check(s) \/ Work(s) \/ CloseBlock(s)
  BY <1>1, <1>2, <1>9 DEF Check, Work, CloseBlock, Stages
<1>10. CASE OpenCrash(s)
  BY <1>10 DEF OpenCrash
<1> QED
  BY <1>4, <1>5, <1>6, <1>7, <1>8, <1>9, <1>10 DEF Resolve

LEMMA BeginIs ==
  ASSUME TypeOK, NEW s \in Services, NEW op \in Ops, NEW b \in Blocks,
         NEW c \in Configs \cup {NoConf}, Begin(s, op, b, c)
  PROVE  /\ call[s] = NoCall /\ \A t \in Services \ {s} : call'[t] = call[t]
         /\ call'[s].op = op /\ call'[s].block = b /\ call'[s].obj = NoObj
         /\ call'[s].stage = IF op \in Removals \cup {"setBlockConfig"} THEN "begin" ELSE "enter"
BY DEF Begin, TypeOK, CallsOK

LEMMA AloneHolds ==
  ASSUME ~InFlight
  PROVE  Spec => []Alone
<1>1. Init => Alone
  BY DEF Init, Alone
<1>2. TypeOK /\ Alone /\ [Next]_vars => Alone'
  <2> SUFFICES ASSUME TypeOK, Alone, [Next]_vars PROVE Alone'
    OBVIOUS
  <2> USE DEF services
  <2>1. CASE UNCHANGED <<call, life>>
    BY <2>1 DEF Alone
  <2>2. CASE Vanished
    BY <2>2 DEF Vanished, Alone
  <2>3. ASSUME NEW s \in Services, NEW op \in Ops, NEW b \in Blocks,
               NEW c \in Configs \cup {NoConf}, Begin(s, op, b, c)
        PROVE  Alone'
    <3>1. life[s] = "up" /\ life' = life
      BY <2>3 DEF Begin
    <3> QED
      BY <2>3, <3>1, BeginIs DEF Alone
  <2>4. ASSUME NEW s \in Services, Resolve(s) \/ Check(s) \/ Work(s) \/ CloseBlock(s)
        PROVE  Alone'
    BY <2>2, <2>4, StepOfCall DEF Alone
  <2>5. ASSUME NEW s \in Services, Create(s) \/ DestroyBegin(s) \/ DestroyEnd(s)
        PROVE  Alone'
    BY <2>5 DEF Create, DestroyBegin, DestroyEnd, Alone, TypeOK
  <2>6. ASSUME NEW s \in Services, Step(s)
        PROVE  Alone'
    BY <2>1, <2>3, <2>4, <2>5, <2>6 DEF Step, DestroySkip
  <2> QED
    BY <2>1, <2>2, <2>6 DEF Next, DestroyClose, Kill, Reboot, Receive, Tick, vars
<1> QED
  BY <1>1, <1>2, TypeCorrect, PTL DEF Spec

---------------------------------------------------------------------------
(* Removals *)

\* The preferences hold what clients asked last, and are written for a block
\* that has no entry only.
AskedInv ==
  /\ \A b \in Blocks : asked[b] # NoConf => conf[b] = asked[b]
  /\ \A s \in Services : call[s].stage = "store" => conf[call[s].block] = NoConf
  /\ RemovalsPermitted

\* Steps that leave the preferences alone, and calls at or before a stage that
\* needs no permission.
LEMMA AskedQuiet ==
  ASSUME TypeOK, AskedInv, UNCHANGED prefs,
         \A s \in Services :
           \/ /\ call'[s].op = call[s].op /\ call'[s].block = call[s].block
              /\ call'[s].stage = "store" => call[s].stage = "store"
              /\ call'[s].stage # "begin" => call[s].stage # "begin"
           \/ call'[s].stage = "begin"
           \/ call'[s].op \notin Removals /\ call'[s].stage # "store"
  PROVE  AskedInv'
BY DEF AskedInv, RemovalsPermitted, prefs, TypeOK

\* Once it is alone, a call disturbs no other.
LEMMA AskedStep ==
  ASSUME ~InFlight, TypeOK, Alone, AskedInv, NEW s \in Services,
         Resolve(s) \/ Check(s) \/ Work(s) \/ CloseBlock(s)
  PROVE  AskedInv'
<1> USE DEF At, prefs, NoCall, Removals
<1>1. CASE Vanished
  <2>1. UNCHANGED prefs
    BY <1>1, InCall DEF Resolve, SetConfig, TestRemoval, Unset, Hit, Miss, Unavailable, Pass,
       Replace, Raise, OpenNative, NoLibrary, OpenCrash, Lower, Check, Work, CloseBlock,
       Configured, Vanished, services
  <2> QED
    BY <1>1, <2>1, AskedQuiet DEF Vanished
<1>2. CASE ~Vanished
  <2>1. /\ call[s] # NoCall /\ call[s] \in Calls /\ call[s].block \in Blocks
        /\ \A t \in Services \ {s} : call[t] = NoCall /\ call'[t] = NoCall
    BY <1>2, StepOfCall, InCall DEF Alone, TypeOK, CallsOK, Calls
  <2>2. ASSUME Return(s), UNCHANGED prefs
        PROVE  AskedInv'
    BY <2>1, <2>2, ReturnIs, AskedQuiet
  <2>3. ASSUME NEW x \in Stages \ {"begin", "store"}, call[s].stage \notin {"none", "begin"},
               Goto(s, x), UNCHANGED prefs
        PROVE  AskedInv'
    BY <2>1, <2>3, GotoIs, AskedQuiet
  <2>4. CASE SetConfig(s)
    <3>1. /\ call'[s].op = "setBlockConfig" /\ call'[s].stage = "enter"
      BY <2>4, GotoIs DEF SetConfig, Stages
    <3>2. \A b \in Blocks : asked'[b] # NoConf => conf'[b] = asked'[b]
      BY <2>1, <2>4 DEF SetConfig, AskedInv, TypeOK
    <3> QED
      BY <2>1, <3>1, <3>2 DEF AskedInv, RemovalsPermitted
  <2>5. CASE TestRemoval(s)
    <3>1. CASE Own(s) \in Removable
      <4>1. /\ call'[s].op = call[s].op /\ call'[s].block = call[s].block
            /\ call'[s].stage = "enter"
        BY <2>5, <3>1, GotoIs DEF TestRemoval, Stages
      <4>2. asked[call[s].block] \in Removable \cup {NoConf}
        BY <2>1, <3>1 DEF Own, AskedInv
      <4> QED
        BY <2>1, <2>5, <4>1, <4>2 DEF TestRemoval, AskedInv, RemovalsPermitted
    <3> QED
      BY <2>2, <2>5, <3>1 DEF TestRemoval
  <2>6. CASE Unset(s)
    <3>1. /\ call'[s].op = call[s].op /\ call'[s].block = call[s].block
          /\ call[s].stage = "enter" /\ call'[s].stage = "store"
          /\ conf'[call[s].block] = NoConf
      BY <2>6, GotoIs DEF Unset, Stages
    <3> QED
      BY <2>1, <2>6, <3>1 DEF Unset, AskedInv, RemovalsPermitted
  <2>7. ASSUME Configured(s), NEW x \in {"none", "got", "examine"},
               x = "none" => call'[s] = NoCall,
               x # "none" => /\ call'[s].op = call[s].op /\ call'[s].block = call[s].block
                             /\ call'[s].stage = x
        PROVE  AskedInv'
    <3>1. asked' = asked /\ call[s].stage \in {"enter", "store"}
      BY <2>7, ConfiguredTypes
    <3>2. \A b \in Blocks : asked'[b] # NoConf => conf'[b] = asked'[b]
      BY <2>1, <2>7, <3>1 DEF Configured, AskedInv, TypeOK
    <3> QED
      BY <2>1, <2>7, <3>1, <3>2 DEF AskedInv, RemovalsPermitted
  <2>8. CASE Hit(s)
    <3>1. map[s][call[s].block] \in Ids /\ call[s].stage # "none"
      BY <2>8, ConfiguredTypes, InCall DEF Hit, TypeOK
    <3>2. Obtain(s, map[s][call[s].block], "got")
      BY <2>8 DEF Hit, Got, Obtain
    <3>3. /\ call'[s].op = call[s].op /\ call'[s].block = call[s].block /\ call'[s].stage = "got"
      BY <3>1, <3>2, ObjectIs DEF Stages
    <3> QED
      BY <2>7, <2>8, <3>3 DEF Hit
  <2>9. CASE Miss(s)
    <3>1. call[s].stage # "none"
      BY <2>9, ConfiguredTypes DEF Miss
    <3>2. CASE Return(s)
      BY <2>7, <2>9, <3>2, ReturnIs DEF Miss
    <3>3. CASE Goto(s, "examine")
      BY <2>7, <2>9, <3>1, <3>3, GotoIs DEF Miss, Stages
    <3> QED
      BY <2>9, <3>2, <3>3 DEF Miss
  <2>10. CASE Unavailable(s) \/ Pass(s) \/ Replace(s) \/ Raise(s) \/ NoLibrary(s) \/ Lower(s)
    BY <2>2, <2>3, <2>10 DEF Unavailable, Pass, Replace, Raise, NoLibrary, Lower, Stages
  <2>11. ASSUME NEW i \in Ids, NEW o \in {"live", "dead"}, OpenNative(s, i, o)
         PROVE  AskedInv'
    <3>1. call[s].stage = "open" /\ Obtain(s, i, "lower") /\ UNCHANGED prefs
      BY <2>11 DEF OpenNative, Obtain
    <3>2. /\ call'[s].op = call[s].op /\ call'[s].block = call[s].block /\ call'[s].stage = "lower"
      BY <3>1, ObjectIs DEF Stages
    <3> QED
      BY <2>1, <3>1, <3>2, AskedQuiet
  <2>12. CASE Check(s) \/ Work(s) \/ CloseBlock(s)
    BY <2>2, <2>3, <2>12 DEF Check, Work, CloseBlock, Stages
  <2>13. CASE OpenCrash(s)
    BY <1>2, <2>13 DEF OpenCrash
  <2> QED
    BY <2>4, <2>5, <2>6, <2>8, <2>9, <2>10, <2>11, <2>12, <2>13 DEF Resolve
<1> QED
  BY <1>1, <1>2

\* Where no call outlives its service, remove and removeBlock pass their test
\* only on blocks whose removal no client forbade: the configuration that
\* setBlockConfig was last given for the block is the one they go by.
THEOREM RemovalsArePermitted ==
  ASSUME ~InFlight
  PROVE  Spec => []RemovalsPermitted
<1>1. Init => AskedInv
  BY DEF Init, AskedInv, RemovalsPermitted, NoCall, Removals
<1>2. TypeOK /\ Alone /\ AskedInv /\ [Next]_vars => AskedInv'
  <2> SUFFICES ASSUME TypeOK, Alone, AskedInv, [Next]_vars PROVE AskedInv'
    OBVIOUS
  <2>1. CASE UNCHANGED <<prefs, call>>
    BY <2>1, AskedQuiet
  <2>2. CASE Vanished /\ UNCHANGED prefs
    BY <2>2, AskedQuiet DEF Vanished, NoCall, Removals
  <2>3. ASSUME NEW s \in Services, NEW op \in Ops, NEW b \in Blocks,
               NEW c \in Configs \cup {NoConf}, Begin(s, op, b, c)
        PROVE  AskedInv'
    <3>1. UNCHANGED prefs
      BY <2>3 DEF Begin
    <3> QED
      BY <2>3, <3>1, BeginIs, AskedQuiet
  <2>4. ASSUME NEW s \in Services, Step(s)
        PROVE  AskedInv'
    BY <2>1, <2>3, <2>4, AskedStep DEF Step, Create, DestroyBegin, DestroyEnd, DestroySkip
  <2> QED
    BY <2>1, <2>2, <2>4 DEF Next, DestroyClose, Kill, Reboot, Receive, Tick, vars
<1>3. AskedInv => RemovalsPermitted
  BY DEF AskedInv
<1> QED
  BY <1>1, <1>2, <1>3, TypeCorrect, AloneHolds, PTL DEF Spec

---------------------------------------------------------------------------
(* The map and the open stores *)

Living(s) == life[s] \in {"up", "destroying"}
\* The stages of a call whose block has no object in the map yet.
Missing(s) == call[s].stage \in {"examine", "replace", "raise", "open", "lower"}

\* Where an open store can be found.
Home(s, i) == \/ block[i] \in Blocks /\ map[s][block[i]] = i
              \/ call[s].stage = "lower" /\ call[s].obj = i

\* The map refers to objects of the right block.
MapMatches == \A s \in Services : \A b \in Blocks : map[s][b] # NoObj => block[map[s][b]] = b
LowerMatches ==
  \A s \in Services : call[s].stage = "lower" /\ call[s].obj # NoObj
                        => block[call[s].obj] = call[s].block
MissingIs == \A s \in Services : Missing(s) => map[s][call[s].block] = NoObj
OpenIsHome == \A i \in Ids : Open(i) => \E s \in Services : Living(s) /\ Home(s, i)
ClosingAll == \A s \in Services : life[s] = "destroying" => \A i \in Ids : Open(i) => i \in todo

\* Where no call outlives its service: the living service has each open store
\* in its map, under its block, or is about to enter it there, and a
\* destruction has still to close the stores that are open.
MapInv == MapMatches /\ LowerMatches /\ MissingIs /\ OpenIsHome /\ ClosingAll /\ NoFileUnlinked

\* No block is opened twice.
LEMMA OneStoreABlock ==
  ASSUME Alone, MapInv, NEW i \in Ids, NEW j \in Ids, Open(i), Open(j), block[i] = block[j]
  PROVE  i = j
<1>1. PICK s \in Services : Living(s) /\ Home(s, i)
  BY DEF MapInv, OpenIsHome
<1>2. PICK t \in Services : Living(t) /\ Home(t, j)
  BY DEF MapInv, OpenIsHome
<1>3. s = t
  BY <1>1, <1>2 DEF Alone, Living
<1> QED
  BY <1>1, <1>2, <1>3, ServiceAssumption
  DEF Home, MapInv, LowerMatches, MissingIs, Missing

\* An open store is in the map of the service that a call, not about to enter an
\* object, belongs to, or that is being destroyed.
LEMMA OpenInMap ==
  ASSUME TypeOK, Alone, MapInv, NEW s \in Services, Living(s), call[s].stage # "lower",
         NEW i \in Ids, Open(i)
  PROVE  block[i] \in Blocks /\ map[s][block[i]] = i /\ i \in Mapped(s)
<1>1. PICK t \in Services : Living(t) /\ Home(t, i)
  BY DEF MapInv, OpenIsHome
<1>2. s = t
  BY <1>1 DEF Alone, Living
<1> QED
  BY <1>1, <1>2, ServiceAssumption DEF Home, Mapped

\* Steps that open no store, and leave objects, map and life alone.
LEMMA MapQuiet ==
  ASSUME TypeOK, MapInv, UNCHANGED <<life, map, block, native, todo>>,
         \A s \in Services :
           \/ call'[s] = call[s]
           \/ /\ call[s].stage # "lower"
              /\ call'[s].stage \notin {"lower", "examine", "replace", "raise", "open"}
           \/ /\ call[s].stage # "lower" /\ call'[s].block = call[s].block
              /\ call'[s].obj = call[s].obj /\ call'[s].stage # "lower"
              /\ Missing(s) \/ map[s][call[s].block] = NoObj
           \/ /\ call[s].stage = "open" /\ call'[s].block = call[s].block /\ call'[s].obj = NoObj
  PROVE  MapInv'
<1>1. MapMatches' /\ NoFileUnlinked' /\ ClosingAll'
  BY DEF MapInv, MapMatches, NoFileUnlinked, ClosingAll, Open
<1>2. LowerMatches'
  BY DEF MapInv, LowerMatches
<1>3. MissingIs'
  BY DEF MapInv, MissingIs, Missing
<1>4. OpenIsHome'
  BY DEF MapInv, OpenIsHome, Home, Living, Open
<1> QED
  BY <1>1, <1>2, <1>3, <1>4 DEF MapInv

\* The miss of a block: the sweep closes what it forgets.
LEMMA MissKeeps ==
  ASSUME ~InFlight, TypeOK, Alone, MapInv, NEW s \in Services, Miss(s)
  PROVE  MapInv'
<1>1. /\ call[s].stage \in {"enter", "store"} /\ call[s].block \in Blocks /\ call[s] # NoCall
      /\ map[s][call[s].block] = NoObj /\ map' = [map EXCEPT ![s] = Kept(s)]
      /\ CloseAll(Gone(s)) /\ UNCHANGED <<life, todo, block>>
  BY ConfiguredTypes, InCall DEF Miss, NoCall
<1>2. life[s] = "up" /\ \A t \in Services \ {s} : call[t] = NoCall /\ life[t] # "up" /\ life[t] # "destroying"
  BY <1>1 DEF Alone
<1>3. /\ call'[s].stage \in {"none", "examine"}
      /\ call'[s].stage = "examine" => call'[s].block = call[s].block
      /\ \A t \in Services \ {s} : call'[t] = call[t]
  BY <1>1, ReturnIs, GotoIs DEF Miss, NoCall, Stages
<1>4. \A b \in Blocks : map'[s][b] \in {map[s][b], NoObj}
  BY <1>1, GoneTypes DEF Kept, NoMap, TypeOK
<1>5. \A t \in Services \ {s} : map'[t] = map[t]
  BY <1>1 DEF TypeOK
<1>6. MapMatches'
  BY <1>1, <1>4, <1>5 DEF MapInv, MapMatches
<1>7. LowerMatches'
  BY <1>2, <1>3 DEF LowerMatches, NoCall
<1>8. MissingIs'
  BY <1>1, <1>2, <1>3, <1>4 DEF MissingIs, Missing, NoCall
<1>9. \A i \in Ids : Open(i)' => Open(i) /\ i \notin Gone(s)
  BY <1>1 DEF CloseAll, Open
<1>10. OpenIsHome'
  <2> SUFFICES ASSUME NEW i \in Ids, Open(i)' PROVE Living(s)' /\ Home(s, i)'
    BY DEF OpenIsHome
  <2>1. Open(i) /\ i \notin Gone(s) /\ block[i] \in Blocks /\ map[s][block[i]] = i /\ i \in Mapped(s)
    BY <1>1, <1>2, <1>9, OpenInMap DEF Living
  <2>2. map'[s] = map[s]
    BY <1>1, <2>1 DEF Gone, Kept, TypeOK
  <2> QED
    BY <1>1, <1>2, <2>1, <2>2 DEF Home, Living
<1>11. ClosingAll'
  BY <1>1, <1>2 DEF ClosingAll
<1>12. NoFileUnlinked'
  BY <1>1 DEF MapInv, NoFileUnlinked, CloseAll
<1> QED
  BY <1>6, <1>7, <1>8, <1>10, <1>11, <1>12 DEF MapInv

\* An opening finds no other store of its block open.
LEMMA OpenKeeps ==
  ASSUME ~InFlight, TypeOK, Alone, MapInv, NEW s \in Services, NEW i \in Ids,
         NEW o \in {"live", "dead"}, OpenNative(s, i, o)
  PROVE  MapInv'
<1>1. /\ call[s].stage = "open" /\ call[s].block \in Blocks /\ call[s] # NoCall
      /\ i \in Free /\ UNCHANGED <<life, map, todo>> /\ block' = [block EXCEPT ![i] = call[s].block]
  BY InCall DEF OpenNative, At, NoCall, services
<1>2. life[s] = "up" /\ \A t \in Services \ {s} : call[t] = NoCall /\ life[t] # "up" /\ life[t] # "destroying"
  BY <1>1 DEF Alone
<1>3. /\ call'[s].stage = "lower" /\ call'[s].block = call[s].block /\ call'[s].obj = i
      /\ \A t \in Services \ {s} : call'[t] = call[t]
  <2>1. Obtain(s, i, "lower")
    BY DEF OpenNative, Obtain
  <2> QED
    BY <1>1, <2>1, ObjectIs DEF Stages
<1>4. ~Open(i) /\ \A t \in Services : \A b \in Blocks : map[t][b] # i
  BY <1>1, ServiceAssumption DEF Free, Mapped
<1>5. \A j \in Ids : Open(j) => /\ j # i /\ block[j] \in Blocks /\ map[s][block[j]] = j
                               /\ block[j] # call[s].block
  BY <1>1, <1>2, <1>4, OpenInMap, ServiceAssumption DEF Living, MapInv, MissingIs, Missing
<1>6. native'[i] = o /\ \A j \in Ids \ {i} : native'[j] = native[j]
  BY <1>5 DEF OpenNative
<1>7. block'[i] = call[s].block /\ \A j \in Ids \ {i} : block'[j] = block[j]
  BY <1>1 DEF TypeOK
<1>8. MapMatches'
  BY <1>1, <1>4, <1>7, ServiceAssumption DEF MapInv, MapMatches, TypeOK
<1>9. LowerMatches'
  BY <1>2, <1>3, <1>7 DEF LowerMatches, NoCall
<1>10. MissingIs'
  BY <1>1, <1>2, <1>3 DEF MapInv, MissingIs, Missing, NoCall
<1>11. OpenIsHome'
  <2> SUFFICES ASSUME NEW j \in Ids, Open(j)' PROVE Living(s)' /\ Home(s, j)'
    BY DEF OpenIsHome
  <2>1. j # i => Open(j)
    BY <1>6 DEF Open
  <2> QED
    BY <1>1, <1>2, <1>3, <1>5, <1>7, <2>1 DEF Home, Living
<1>12. ClosingAll'
  BY <1>1, <1>2 DEF ClosingAll
<1>13. NoFileUnlinked'
  BY <1>6 DEF MapInv, NoFileUnlinked
<1> QED
  BY <1>8, <1>9, <1>10, <1>11, <1>12, <1>13 DEF MapInv

\* ... and its object is entered.
LEMMA LowerKeeps ==
  ASSUME ~InFlight, TypeOK, Alone, MapInv, NEW s \in Services, Lower(s)
  PROVE  MapInv'
<1>1. call[s].stage = "lower" /\ call[s].block \in Blocks /\ call[s] # NoCall
      /\ UNCHANGED <<life, block, native>>
  BY InCall DEF Lower, At, NoCall
<1>2. life[s] = "up" /\ \A t \in Services \ {s} : call[t] = NoCall /\ life[t] # "up" /\ life[t] # "destroying"
  BY <1>1 DEF Alone
<1>3. /\ call'[s].stage \in {"none", "got"}
      /\ \A t \in Services \ {s} : call'[t] = call[t]
  BY <1>1, ReturnIs, GotoIs DEF Lower, NoCall, Stages
<1>4. LowerMatches' /\ MissingIs'
  BY <1>2, <1>3 DEF LowerMatches, MissingIs, Missing, NoCall
<1>5. NoFileUnlinked' /\ ClosingAll'
  BY <1>1, <1>2 DEF MapInv, NoFileUnlinked, ClosingAll
<1>6. /\ \A t \in Services \ {s} : map'[t] = map[t]
      /\ \A b \in Blocks \ {call[s].block} : map'[s][b] = map[s][b]
      /\ map'[s][call[s].block] = call[s].obj
  <2>1. CASE call[s].obj = NoObj
    BY <1>1, <2>1 DEF Lower, MapInv, MissingIs, Missing
  <2>2. CASE call[s].obj # NoObj
    BY <1>1, <2>2 DEF Lower, TypeOK
  <2> QED
    BY <2>1, <2>2
<1>7. MapMatches'
  BY <1>1, <1>6 DEF MapInv, MapMatches, LowerMatches
<1>8. OpenIsHome'
  <2> SUFFICES ASSUME NEW i \in Ids, Open(i)' PROVE Living(s)' /\ Home(s, i)'
    BY DEF OpenIsHome
  <2>1. Open(i)
    BY <1>1 DEF Open
  <2>2. PICK t \in Services : Living(t) /\ Home(t, i)
    BY <2>1 DEF MapInv, OpenIsHome
  <2>3. t = s
    BY <1>2, <2>2 DEF Living
  <2>4. CASE call[s].obj = i
    BY <1>1, <1>2, <1>6, <2>4, ServiceAssumption DEF Home, Living, MapInv, LowerMatches
  <2>5. CASE block[i] \in Blocks /\ map[s][block[i]] = i
    BY <1>1, <1>2, <1>6, <2>5, ServiceAssumption DEF Home, Living, MapInv, MissingIs, Missing
  <2> QED
    BY <2>2, <2>3, <2>4, <2>5 DEF Home
<1> QED
  BY <1>4, <1>5, <1>7, <1>8 DEF MapInv

\* The steps of a call.
LEMMA CallKeepsMap ==
  ASSUME ~InFlight, TypeOK, Alone, MapInv, NEW s \in Services,
         Resolve(s) \/ Check(s) \/ Work(s) \/ CloseBlock(s)
  PROVE  MapInv'
<1> USE DEF At, services, objects, NoCall
<1>1. ASSUME Return(s), call[s].stage # "lower", UNCHANGED <<life, map, block, native, todo>>
      PROVE  MapInv'
  BY <1>1, ReturnIs, MapQuiet
<1>2. ASSUME NEW x \in Stages \ {"lower"}, call[s].stage \notin {"none", "lower"}, Goto(s, x),
             x \in {"examine", "replace", "raise", "open"} => Missing(s),
             UNCHANGED <<life, map, block, native, todo>>
      PROVE  MapInv'
  BY <1>2, GotoIs, MapQuiet
<1>3. CASE SetConfig(s) \/ TestRemoval(s) \/ Unset(s) \/ Unavailable(s) \/ Pass(s)
  BY <1>1, <1>2, <1>3 DEF SetConfig, TestRemoval, Unset, Unavailable, Pass, Stages, Missing
<1>4. CASE Replace(s) \/ Raise(s)
  BY <1>2, <1>4 DEF Replace, Raise, Stages, Missing
<1>5. CASE Check(s) \/ Work(s)
  BY <1>1, <1>2, <1>5 DEF Check, Work, Stages, Missing
<1>6. CASE Hit(s)
  <2>1. map[s][call[s].block] \in Ids /\ call[s].stage \in {"enter", "store"}
    BY <1>6, ConfiguredTypes, InCall DEF Hit, TypeOK
  <2>2. Obtain(s, map[s][call[s].block], "got") /\ UNCHANGED <<life, map, block, native, todo>>
    BY <1>6 DEF Hit, Got, Obtain
  <2>3. call'[s].stage = "got" /\ \A t \in Services \ {s} : call'[t] = call[t]
    BY <2>1, <2>2, ObjectIs DEF Stages
  <2> QED
    BY <2>1, <2>2, <2>3, MapQuiet
<1>7. CASE NoLibrary(s)
  <2>1. /\ call[s].stage = "open" /\ call'[s].stage = "lower" /\ call'[s].obj = call[s].obj
        /\ call'[s].block = call[s].block /\ \A t \in Services \ {s} : call'[t] = call[t]
    BY <1>7, GotoIs DEF NoLibrary, Stages
  <2>2. call'[s].obj = NoObj
    BY <2>1, InCall
  <2>3. UNCHANGED <<life, map, block, native, todo>>
    BY <1>7 DEF NoLibrary
  <2> QED
    BY <2>1, <2>2, <2>3, MapQuiet
<1>8. CASE CloseBlock(s)
  <2>1. /\ \A i \in Ids : Open(i)' => Open(i)
        /\ NoFileUnlinked'
    BY <1>8 DEF CloseBlock, CloseAll, Open, NoFileUnlinked, MapInv
  <2>2. call'[s] = NoCall /\ call[s].stage = "got" /\ \A t \in Services \ {s} : call'[t] = call[t]
    BY <1>8, ReturnIs DEF CloseBlock
  <2>3. UNCHANGED <<life, map, block, todo>>
    BY <1>8 DEF CloseBlock
  <2>4. MapMatches' /\ LowerMatches' /\ MissingIs'
    BY <2>2, <2>3 DEF MapInv, MapMatches, LowerMatches, MissingIs, Missing
  <2>5. OpenIsHome' /\ ClosingAll'
    BY <2>1, <2>2, <2>3 DEF MapInv, OpenIsHome, ClosingAll, Living, Home
  <2> QED
    BY <2>1, <2>4, <2>5 DEF MapInv
<1>9. CASE OpenCrash(s)
  BY <1>9 DEF OpenCrash, Vanished, NoMap, MapInv, MapMatches, LowerMatches, MissingIs, Missing,
     OpenIsHome, ClosingAll, NoFileUnlinked, Open
<1> QED
  BY <1>3, <1>4, <1>5, <1>6, <1>7, <1>8, <1>9, MissKeeps, OpenKeeps, LowerKeeps DEF Resolve

\* The steps of the service.
LEMMA ServiceKeepsMap ==
  ASSUME ~InFlight, TypeOK, Alone, MapInv, NEW s \in Services,
         \/ Create(s) \/ DestroyBegin(s) \/ DestroyEnd(s)
         \/ \E i \in Ids : DestroySkip(s, i) \/ DestroyClose(i)
  PROVE  MapInv'
<1> USE DEF objects, NoCall
<1>1. CASE Create(s)
  <2>1. \A i \in Ids : ~Open(i)
    BY <1>1 DEF Create, MapInv, OpenIsHome, Living
  <2>2. /\ map'[s] = NoMap /\ \A t \in Services \ {s} : map'[t] = map[t]
        /\ call[s] = NoCall /\ UNCHANGED <<call, todo, block, native>>
    BY <1>1 DEF Create, TypeOK
  <2>3. MapMatches' /\ LowerMatches' /\ MissingIs'
    BY <2>2 DEF NoMap, MapInv, MapMatches, LowerMatches, MissingIs, Missing
  <2> QED
    BY <2>1, <2>2, <2>3 DEF MapInv, OpenIsHome, ClosingAll, NoFileUnlinked, Open
<1>2. CASE DestroyBegin(s)
  <2>1. /\ life[s] = "up" /\ call[s] = NoCall /\ todo' = Mapped(s) /\ life' = [life EXCEPT ![s] = "destroying"]
        /\ UNCHANGED <<map, call, block, native>>
    BY <1>2 DEF DestroyBegin
  <2>2. \A i \in Ids : Open(i) => i \in Mapped(s) /\ block[i] \in Blocks /\ map[s][block[i]] = i
    BY <2>1, OpenInMap DEF Living
  <2>3. MapMatches' /\ LowerMatches' /\ MissingIs' /\ NoFileUnlinked'
    BY <2>1 DEF MapInv, MapMatches, LowerMatches, MissingIs, Missing, NoFileUnlinked
  <2>4. OpenIsHome' /\ ClosingAll'
    BY <2>1, <2>2 DEF OpenIsHome, ClosingAll, Open, Living, Home, TypeOK
  <2> QED
    BY <2>3, <2>4 DEF MapInv
<1>3. CASE DestroyEnd(s)
  <2>1. /\ life[s] = "destroying" /\ todo = {} /\ \A t \in Services \ {s} : map'[t] = map[t]
        /\ call[s] = NoCall /\ map'[s] = NoMap /\ UNCHANGED <<call, todo, block, native>>
    BY <1>3 DEF DestroyEnd, TypeOK, Alone
  <2>2. \A i \in Ids : ~Open(i)
    BY <2>1 DEF MapInv, ClosingAll
  <2>3. MapMatches' /\ LowerMatches' /\ MissingIs'
    BY <2>1 DEF NoMap, MapInv, MapMatches, LowerMatches, MissingIs, Missing
  <2> QED
    BY <2>1, <2>2, <2>3 DEF MapInv, OpenIsHome, ClosingAll, NoFileUnlinked, Open
<1>4. ASSUME NEW i \in Ids, DestroySkip(s, i)
      PROVE  MapInv'
  <2>1. /\ life[s] = "destroying" /\ i \notin Mapped(s) /\ todo' = todo \ {i}
        /\ UNCHANGED <<life, map, call, block, native>>
    BY <1>4 DEF DestroySkip
  <2>2. ~Open(i)
    BY <2>1, OpenInMap DEF Alone, Living
  <2>3. MapMatches' /\ LowerMatches' /\ MissingIs' /\ NoFileUnlinked'
    BY <2>1 DEF MapInv, MapMatches, LowerMatches, MissingIs, Missing, NoFileUnlinked
  <2>4. OpenIsHome' /\ ClosingAll'
    BY <2>1, <2>2 DEF MapInv, OpenIsHome, ClosingAll, Open, Living, Home
  <2> QED
    BY <2>3, <2>4 DEF MapInv
<1>5. ASSUME NEW i \in Ids, DestroyClose(i)
      PROVE  MapInv'
  <2>1. /\ todo' = todo \ {i} /\ UNCHANGED <<life, map, call, block>>
        /\ ~Open(i)' /\ \A j \in Ids : Open(j)' => Open(j)
        /\ NoFileUnlinked'
    BY <1>5 DEF DestroyClose, CloseAll, Open, MapInv, NoFileUnlinked
  <2>2. MapMatches' /\ LowerMatches' /\ MissingIs'
    BY <2>1 DEF MapInv, MapMatches, LowerMatches, MissingIs, Missing
  <2>3. OpenIsHome' /\ ClosingAll'
    BY <2>1 DEF MapInv, OpenIsHome, ClosingAll, Living, Home
  <2> QED
    BY <2>1, <2>2, <2>3 DEF MapInv
<1> QED
  BY <1>1, <1>2, <1>3, <1>4, <1>5

LEMMA MapInvStep ==
  ASSUME ~InFlight, TypeOK, Alone, MapInv, [Next]_vars
  PROVE  MapInv'
<1> USE DEF services, objects
<1>1. CASE UNCHANGED <<life, map, block, native, todo, call>>
  BY <1>1, MapQuiet
<1>2. ASSUME NEW s \in Services, NEW op \in Ops, NEW b \in Blocks,
             NEW c \in Configs \cup {NoConf}, Begin(s, op, b, c)
      PROVE  MapInv'
  <2>1. UNCHANGED <<life, map, block, native, todo>>
    BY <1>2 DEF Begin
  <2>2. call[s].stage = "none" /\ call'[s].stage \in {"begin", "enter"}
        /\ \A t \in Services \ {s} : call'[t] = call[t]
    BY <1>2, BeginIs DEF NoCall
  <2>3. \A t \in Services :
          \/ call'[t] = call[t]
          \/ /\ call[t].stage # "lower"
             /\ call'[t].stage \notin {"lower", "examine", "replace", "raise", "open"}
    BY <2>2
  <2> QED
    BY <2>1, <2>3, MapQuiet
<1>3. ASSUME NEW s \in Services, Step(s)
      PROVE  MapInv'
  BY <1>2, <1>3, CallKeepsMap, ServiceKeepsMap DEF Step
<1>4. CASE Vanished
  BY <1>4 DEF Vanished, NoMap, NoCall, MapInv, MapMatches, LowerMatches, MissingIs, Missing,
     OpenIsHome, ClosingAll, NoFileUnlinked, Open
<1>5. ASSUME NEW i \in Ids, DestroyClose(i)
      PROVE  MapInv'
  <2>1. CASE Services = {}
    BY <1>5, <2>1 DEF DestroyClose, CloseAll, MapInv, MapMatches, LowerMatches, MissingIs,
       OpenIsHome, ClosingAll, NoFileUnlinked, Open
  <2> QED
    BY <1>5, <2>1, ServiceKeepsMap
<1> QED
  BY <1>1, <1>3, <1>4, <1>5 DEF Next, Kill, Reboot, Receive, Tick, vars

LEMMA MapInvHolds ==
  ASSUME ~InFlight
  PROVE  Spec => []MapInv
<1>1. Init => MapInv
  BY DEF Init, NoMap, NoCall, MapInv, MapMatches, LowerMatches, MissingIs, Missing, OpenIsHome,
     ClosingAll, NoFileUnlinked, Open
<1>2. TypeOK /\ Alone /\ MapInv /\ [Next]_vars => MapInv'
  BY MapInvStep
<1> QED
  BY <1>1, <1>2, TypeCorrect, AloneHolds, PTL DEF Spec

\* Where clients do not unbind, or die, within a call, every open store is the
\* one the map holds for its block, or about to be entered there: no store is
\* leaked or opened twice.
THEOREM OpenStoresMapped ==
  ASSUME ~InFlight
  PROVE  Spec => []OpenIsMapped
<1>1. Alone /\ MapInv => OpenIsMapped
  BY OneStoreABlock DEF OpenIsMapped, MapInv, OpenIsHome, Home, At
<1> QED
  BY <1>1, AloneHolds, MapInvHolds, PTL

\* ... and none loses its file to a second opening.
THEOREM NoFileIsUnlinked ==
  ASSUME ~InFlight
  PROVE  Spec => []NoFileUnlinked
<1>1. MapInv => NoFileUnlinked
  BY DEF MapInv
<1> QED
  BY <1>1, MapInvHolds, PTL

---------------------------------------------------------------------------
(* Freed stores *)

\* Where no client closes a block: what the map of a living service refers to,
\* and what a destruction has still to close, is not freed, and a call works on
\* an object of the map, or on the one it has opened.
MapUsable ==
  \A s \in Services : life[s] = "up" =>
    \A b \in Blocks : map[s][b] # NoObj => native[map[s][b]] # "freed"
TodoUsable ==
  /\ \A i \in todo : native[i] # "freed"
  /\ todo # {} => \E s \in Services : life[s] = "destroying"
CallsUsable ==
  \A s \in Services :
    /\ call[s].stage \in {"got", "native"} => \E b \in Blocks : map[s][b] = call[s].obj
    /\ call[s].stage = "lower" /\ call[s].obj # NoObj => native[call[s].obj] # "freed"
UseInv == NoFreedStoreUsed /\ MapUsable /\ TodoUsable /\ CallsUsable

\* Steps that leave the objects and the map alone.
LEMMA UseQuiet ==
  ASSUME TypeOK, UseInv, UNCHANGED <<life, map, native, todo, ub>>,
         \A s \in Services :
           \/ call'[s] = call[s]
           \/ call'[s].stage \notin {"lower", "got", "native"}
           \/ call'[s].stage = "native" /\ call[s].stage = "got" /\ call'[s].obj = call[s].obj
           \/ call'[s].stage = "got" /\ \E b \in Blocks : map[s][b] = call'[s].obj
           \/ call'[s].stage = "lower" /\ call'[s].obj = NoObj
  PROVE  UseInv'
<1>1. NoFreedStoreUsed' /\ MapUsable' /\ TodoUsable'
  BY DEF UseInv, NoFreedStoreUsed, MapUsable, TodoUsable
<1>2. CallsUsable'
  BY DEF UseInv, CallsUsable
<1> QED
  BY <1>1, <1>2 DEF UseInv

\* The steps of a call, which is alone.
LEMMA CallKeepsUse ==
  ASSUME ~InFlight, "closeBlock" \notin Ops, TypeOK, Alone, UseInv, NEW s \in Services,
         Resolve(s) \/ Check(s) \/ Work(s) \/ CloseBlock(s), ~Vanished
  PROVE  UseInv'
<1> USE DEF At, services, objects, NoCall
<1>1. call[s] # NoCall /\ \A t \in Services \ {s} : call[t] = NoCall /\ call'[t] = NoCall
  BY StepOfCall DEF Alone
<1>2. life[s] = "up" /\ todo = {} /\ call[s].block \in Blocks
  BY <1>1 DEF Alone, UseInv, TodoUsable, TypeOK, CallsOK, Calls
<1>3. ASSUME Return(s), UNCHANGED <<life, map, native, todo, ub>>
      PROVE  UseInv'
  BY <1>1, <1>3, ReturnIs, UseQuiet
<1>4. ASSUME NEW x \in Stages \ {"lower", "got", "native"}, call[s].stage # "none", Goto(s, x),
             UNCHANGED <<life, map, native, todo, ub>>
      PROVE  UseInv'
  BY <1>1, <1>4, GotoIs, UseQuiet
<1>5. CASE SetConfig(s) \/ TestRemoval(s) \/ Unset(s) \/ Unavailable(s) \/ Pass(s)
           \/ Replace(s) \/ Raise(s)
  BY <1>3, <1>4, <1>5
  DEF SetConfig, TestRemoval, Unset, Unavailable, Pass, Replace, Raise, Stages
<1>6. CASE Hit(s)
  <2>1. map[s][call[s].block] \in Ids /\ call[s].stage \in {"enter", "store"}
    BY <1>6, ConfiguredTypes, InCall DEF Hit, TypeOK
  <2>2. Obtain(s, map[s][call[s].block], "got") /\ UNCHANGED <<life, map, native, todo, ub>>
    BY <1>6 DEF Hit, Got, Obtain
  <2>3. call'[s].stage = "got" /\ call'[s].obj = map[s][call[s].block]
    BY <2>1, <2>2, ObjectIs DEF Stages
  <2> QED
    BY <1>1, <1>2, <2>2, <2>3, UseQuiet
<1>7. CASE Miss(s)
  <2>1. /\ call'[s].stage \in {"none", "examine"} /\ CloseAll(Gone(s))
        /\ map' = [map EXCEPT ![s] = Kept(s)] /\ UNCHANGED <<life, todo>>
    BY <1>7, ConfiguredTypes, ReturnIs, GotoIs DEF Miss, Stages
  <2>2. NoFreedStoreUsed'
    BY <1>2, <2>1 DEF CloseAll, Gone, Mapped, UseInv, NoFreedStoreUsed, MapUsable
  <2>3. MapUsable'
    <3> SUFFICES ASSUME NEW t \in Services, life[t] = "up", NEW b \in Blocks, map'[t][b] # NoObj
                 PROVE  native'[map'[t][b]] # "freed"
      BY <2>1 DEF MapUsable
    <3>1. t = s
      BY <1>2 DEF Alone
    <3>2. map'[s] = map[s] /\ Gone(s) = {}
      BY <2>1, <3>1 DEF Kept, Gone, NoMap, TypeOK
    <3>3. native' = [i \in Ids |-> native[i]] /\ map[s][b] \in Ids
      BY <2>1, <3>1, <3>2 DEF CloseAll, TypeOK
    <3> QED
      BY <1>2, <3>1, <3>2, <3>3 DEF UseInv, MapUsable
  <2>4. TodoUsable' /\ CallsUsable'
    BY <1>1, <1>2, <2>1 DEF TodoUsable, CallsUsable
  <2> QED
    BY <2>2, <2>3, <2>4 DEF UseInv
<1>8. CASE NoLibrary(s)
  <2>1. call'[s].stage = "lower" /\ call'[s].obj = NoObj
    BY <1>8, GotoIs, InCall DEF NoLibrary, Stages
  <2>2. UNCHANGED <<life, map, native, todo, ub>>
    BY <1>8 DEF NoLibrary
  <2> QED
    BY <1>1, <2>1, <2>2, UseQuiet
<1>9. ASSUME NEW i \in Ids, NEW o \in {"live", "dead"}, OpenNative(s, i, o)
      PROVE  UseInv'
  <2>1. call[s].stage = "open" /\ Obtain(s, i, "lower") /\ UNCHANGED <<life, map, todo, ub>>
    BY <1>9 DEF OpenNative, Obtain
  <2>2. call'[s].stage = "lower" /\ call'[s].obj = i
    BY <2>1, ObjectIs DEF Stages
  <2>3. native'[i] = o /\ \A j \in Ids : native'[j] = "freed" => native[j] = "freed"
    BY <1>9 DEF OpenNative
  <2>4. NoFreedStoreUsed' /\ TodoUsable'
    BY <1>2, <2>1 DEF UseInv, NoFreedStoreUsed, TodoUsable
  <2>5. MapUsable'
    BY <2>1, <2>3 DEF UseInv, MapUsable, TypeOK
  <2>6. CallsUsable'
    BY <1>1, <2>2, <2>3 DEF CallsUsable
  <2> QED
    BY <2>4, <2>5, <2>6 DEF UseInv
<1>10. CASE Lower(s)
  <2>1. call[s].stage = "lower" /\ UNCHANGED <<life, native, ub>>
    BY <1>10 DEF Lower
  <2>2. CASE call[s].obj = NoObj
    BY <1>3, <1>10, <2>1, <2>2 DEF Lower
  <2>3. CASE call[s].obj # NoObj
    <3>1. Goto(s, "got") /\ todo' = todo
          /\ map' = [map EXCEPT ![s] = [@ EXCEPT ![call[s].block] = call[s].obj]]
      BY <1>2, <1>10, <2>3 DEF Lower
    <3>2. call'[s].stage = "got" /\ call'[s].obj = call[s].obj
      BY <2>1, <3>1, GotoIs DEF Stages
    <3>3. /\ map'[s][call[s].block] = call[s].obj
          /\ \A b \in Blocks \ {call[s].block} : map'[s][b] = map[s][b]
          /\ \A t \in Services \ {s} : map'[t] = map[t]
      BY <1>2, <3>1 DEF TypeOK
    <3>4. MapUsable'
      BY <2>1, <2>3, <3>3 DEF UseInv, MapUsable, CallsUsable
    <3>5. NoFreedStoreUsed' /\ TodoUsable' /\ CallsUsable'
      BY <1>1, <1>2, <2>1, <3>1, <3>2, <3>3 DEF UseInv, NoFreedStoreUsed, TodoUsable, CallsUsable
    <3> QED
      BY <3>4, <3>5 DEF UseInv
  <2> QED
    BY <2>2, <2>3
<1>11. CASE Check(s)
  <2>1. CASE Return(s)
    BY <1>3, <1>11, <2>1 DEF Check
  <2>2. CASE Goto(s, "native")
    <3>1. call'[s].stage = "native" /\ call[s].stage = "got" /\ call'[s].obj = call[s].obj
      BY <1>11, <2>2, GotoIs DEF Check, Stages
    <3> QED
      BY <1>1, <1>11, <3>1, UseQuiet DEF Check
  <2> QED
    BY <1>11, <2>1, <2>2 DEF Check
<1>12. CASE Work(s)
  <2>1. call[s].stage \in {"got", "native"} /\ call[s].obj \in Ids
    BY <1>12 DEF Work, TypeOK, CallsOK
  <2>2. native[call[s].obj] # "freed"
    BY <1>2, <2>1, ServiceAssumption DEF UseInv, CallsUsable, MapUsable
  <2>3. Return(s) /\ UNCHANGED <<life, map, native, todo, ub>>
    BY <1>12, <2>2 DEF Work, UseInv, NoFreedStoreUsed, TypeOK
  <2> QED
    BY <1>3, <2>3
<1>13. ~CloseBlock(s)
  BY InCall DEF CloseBlock
<1>14. ~OpenCrash(s)
  BY DEF OpenCrash
<1> QED
  BY <1>5, <1>6, <1>7, <1>8, <1>9, <1>10, <1>11, <1>12, <1>13, <1>14 DEF Resolve

LEMMA UseInvStep ==
  ASSUME ~InFlight, "closeBlock" \notin Ops, TypeOK, Alone, UseInv, [Next]_vars
  PROVE  UseInv'
<1> USE DEF services, objects
<1>1. CASE UNCHANGED <<life, map, native, todo, ub, call>>
  BY <1>1, UseQuiet
<1>2. ASSUME NEW s \in Services, NEW op \in Ops, NEW b \in Blocks,
             NEW c \in Configs \cup {NoConf}, Begin(s, op, b, c)
      PROVE  UseInv'
  <2>1. UNCHANGED <<life, map, native, todo, ub>>
    BY <1>2 DEF Begin
  <2>2. \A t \in Services : call'[t] = call[t] \/ call'[t].stage \in {"begin", "enter"}
    BY <1>2, BeginIs
  <2> QED
    BY <2>1, <2>2, UseQuiet
<1>3. CASE Vanished
  BY <1>3 DEF Vanished, NoMap, NoCall, UseInv, NoFreedStoreUsed, MapUsable, TodoUsable,
     CallsUsable
<1>4. ASSUME NEW s \in Services, Resolve(s) \/ Check(s) \/ Work(s) \/ CloseBlock(s)
      PROVE  UseInv'
  BY <1>3, <1>4, CallKeepsUse
<1>5. ASSUME NEW s \in Services, Create(s)
      PROVE  UseInv'
  <2>1. /\ life' = [life EXCEPT ![s] = "up"] /\ \A t \in Services : life[t] \in {"none", "gone"}
        /\ map' = [map EXCEPT ![s] = NoMap] /\ UNCHANGED <<call, todo, native, ub>>
    BY <1>5 DEF Create
  <2>2. todo = {} /\ \A t \in Services : call[t] = NoCall
    BY <2>1 DEF UseInv, TodoUsable, Alone
  <2>3. MapUsable'
    BY <2>1 DEF MapUsable, NoMap, TypeOK
  <2> QED
    BY <2>1, <2>2, <2>3 DEF UseInv, NoFreedStoreUsed, TodoUsable, CallsUsable, NoCall
<1>6. ASSUME NEW s \in Services, DestroyBegin(s)
      PROVE  UseInv'
  <2>1. /\ life[s] = "up" /\ life' = [life EXCEPT ![s] = "destroying"] /\ todo' = Mapped(s)
        /\ UNCHANGED <<call, map, native, ub>>
    BY <1>6 DEF DestroyBegin
  <2>2. TodoUsable'
    BY <2>1 DEF UseInv, MapUsable, TodoUsable, Mapped, TypeOK
  <2> QED
    BY <2>1, <2>2 DEF UseInv, NoFreedStoreUsed, MapUsable, CallsUsable, TypeOK
<1>7. ASSUME NEW s \in Services, DestroyEnd(s)
      PROVE  UseInv'
  <2>1. /\ life[s] = "destroying" /\ life' = [life EXCEPT ![s] = "gone"] /\ todo' = {}
        /\ map' = [map EXCEPT ![s] = NoMap] /\ UNCHANGED <<call, native, ub>>
    BY <1>7 DEF DestroyEnd
  <2>2. \A t \in Services : call[t] = NoCall
    BY <2>1 DEF Alone
  <2>3. MapUsable'
    BY <2>1 DEF UseInv, MapUsable, TypeOK
  <2> QED
    BY <2>1, <2>2, <2>3 DEF UseInv, NoFreedStoreUsed, TodoUsable, CallsUsable, NoCall
<1>8. ASSUME NEW s \in Services, NEW i \in Ids, DestroySkip(s, i)
      PROVE  UseInv'
  <2>1. todo' = todo \ {i} /\ UNCHANGED <<life, call, map, native, ub>>
    BY <1>8 DEF DestroySkip
  <2> QED
    BY <2>1 DEF UseInv, NoFreedStoreUsed, MapUsable, TodoUsable, CallsUsable
<1>9. ASSUME NEW i \in Ids, DestroyClose(i)
      PROVE  UseInv'
  <2>1. PICK s \in Services : life[s] = "destroying"
    BY <1>9 DEF DestroyClose, UseInv, TodoUsable
  <2>2. \A t \in Services : life[t] # "up" /\ call[t] = NoCall
    BY <2>1 DEF Alone
  <2>3. /\ i \in todo /\ CloseAll({i}) /\ todo' = todo \ {i} /\ UNCHANGED <<life, call, map>>
    BY <1>9 DEF DestroyClose
  <2>4. NoFreedStoreUsed' /\ \A j \in todo' : native'[j] # "freed"
    BY <2>3 DEF CloseAll, UseInv, NoFreedStoreUsed, TodoUsable, TypeOK
  <2> QED
    BY <2>1, <2>2, <2>3, <2>4 DEF UseInv, MapUsable, TodoUsable, CallsUsable, NoCall
<1>10. ASSUME NEW s \in Services, Step(s)
       PROVE  UseInv'
  BY <1>2, <1>4, <1>5, <1>6, <1>7, <1>8, <1>10 DEF Step
<1> QED
  BY <1>1, <1>3, <1>9, <1>10 DEF Next, Kill, Reboot, Receive, Tick, vars

\* Where no client closes a block, or unbinds, or dies within a call, no native
\* store is used or freed after it has been freed, by the sweep of getCacheImp
\* and onDestroy neither.
THEOREM FreedStoresUnused ==
  ASSUME ~InFlight, "closeBlock" \notin Ops
  PROVE  Spec => []NoFreedStoreUsed
<1>1. Init => UseInv
  BY DEF Init, NoMap, NoCall, UseInv, NoFreedStoreUsed, MapUsable, TodoUsable, CallsUsable
<1>2. TypeOK /\ Alone /\ UseInv /\ [Next]_vars => UseInv'
  BY UseInvStep
<1>3. UseInv => NoFreedStoreUsed
  BY DEF UseInv
<1> QED
  BY <1>1, <1>2, <1>3, TypeCorrect, AloneHolds, PTL DEF Spec

---------------------------------------------------------------------------
(* How many stores are open *)

InUse(s) == {b \in Blocks : map[s][b] # NoObj}

\* A map never holds more than one block above Limit: it is swept before the
\* next one comes in.
Bounded(s) == Cardinality(InUse(s)) <= IF Missing(s) THEN Limit ELSE Limit + 1
MapBounded == \A s \in Services : Bounded(s)

LEMMA InUseFinite ==
  ASSUME NEW s \in Services
  PROVE  IsFiniteSet(InUse(s)) /\ Cardinality(InUse(s)) \in Nat
BY ServiceAssumption, FS_Subset, FS_CardinalityType DEF InUse

\* One block more.
LEMMA OneMore ==
  ASSUME NEW S, NEW b, IsFiniteSet(S), Cardinality(S) \in Nat
  PROVE  /\ IsFiniteSet(S \cup {b}) /\ Cardinality(S \cup {b}) \in Nat
         /\ Cardinality(S \cup {b}) <= Cardinality(S) + 1
BY FS_AddElement

\* Forgetting blocks keeps the bound.
LEMMA FewerKeep ==
  ASSUME NEW s \in Services, Bounded(s), InUse(s)' \subseteq InUse(s), Missing(s)' => Missing(s)
  PROVE  Bounded(s)'
<1>1. IsFiniteSet(InUse(s)') /\ Cardinality(InUse(s)') <= Cardinality(InUse(s))
  BY InUseFinite, FS_Subset
<1>2. Cardinality(InUse(s)') \in Nat
  BY <1>1, FS_CardinalityType
<1> QED
  BY <1>1, <1>2, InUseFinite, ServiceAssumption DEF Bounded

\* A miss leaves Limit blocks at most.
LEMMA MissBounded ==
  ASSUME TypeOK, NEW s \in Services, Miss(s)
  PROVE  Bounded(s)'
<1>1. map'[s] = Kept(s)
  BY DEF Miss, TypeOK
<1>2. CASE Swept(s)
  <2>1. InUse(s)' = {}
    BY <1>1, <1>2 DEF Kept, InUse, NoMap
  <2> QED
    BY <2>1, FS_EmptySet, ServiceAssumption DEF Bounded
<1>3. CASE ~Swept(s)
  <2>1. InUse(s)' = InUse(s)
    BY <1>1, <1>3 DEF Kept, InUse
  <2>2. ~(Cardinality(InUse(s)) > Limit)
    BY <1>3 DEF Swept, InUse
  <2> QED
    BY <2>1, <2>2, InUseFinite, ServiceAssumption DEF Bounded
<1> QED
  BY <1>2, <1>3

\* An opening adds one block to them.
LEMMA LowerBounded ==
  ASSUME TypeOK, NEW s \in Services, Bounded(s), Lower(s)
  PROVE  Bounded(s)'
<1>1. /\ IsFiniteSet(InUse(s) \cup {call[s].block})
      /\ Cardinality(InUse(s) \cup {call[s].block}) \in Nat
      /\ Cardinality(InUse(s) \cup {call[s].block}) <= Cardinality(InUse(s)) + 1
  BY InUseFinite, OneMore
<1>2. InUse(s)' \subseteq InUse(s) \cup {call[s].block}
  BY DEF Lower, InUse, TypeOK
<1>3. IsFiniteSet(InUse(s)') /\ Cardinality(InUse(s)') <= Cardinality(InUse(s) \cup {call[s].block})
  BY <1>1, <1>2, FS_Subset
<1>4. Cardinality(InUse(s)') \in Nat
  BY <1>3, FS_CardinalityType
<1>5. Missing(s) /\ ~Missing(s)'
  <2>1. Missing(s) /\ s \in DOMAIN call /\ call[s].stage \in {"lower"} /\ call[s] # NoCall
    BY DEF Lower, At, Missing, NoCall, TypeOK, CallsOK
  <2>2. call[s] \in Calls
    BY <2>1 DEF TypeOK, CallsOK
  <2>3. CASE Return(s)
    BY <2>1, <2>3 DEF Return, Missing, NoCall
  <2>4. CASE Goto(s, "got")
    BY <2>1, <2>2, <2>4 DEF Goto, Missing, Calls
  <2> QED
    BY <2>1, <2>3, <2>4 DEF Lower
<1> QED
  BY <1>1, <1>3, <1>4, <1>5, InUseFinite, ServiceAssumption DEF Bounded

\* All other steps leave a map, or forget it.
LEMMA OthersBounded ==
  ASSUME TypeOK, [Next]_vars, NEW s \in Services, ~Miss(s), ~Lower(s)
  PROVE  InUse(s)' \subseteq InUse(s) /\ (Missing(s)' => Missing(s))
<1> USE DEF services, objects, InUse, Missing, At
<1>1. CASE map' = map /\ call' = call
  BY <1>1
<1>2. CASE Vanished
  BY <1>2 DEF Vanished, NoMap, NoCall
<1>3. ASSUME NEW t \in Services, NEW op \in Ops, NEW b \in Blocks,
             NEW c \in Configs \cup {NoConf}, Begin(t, op, b, c)
      PROVE  map' = map /\ (Missing(s)' => Missing(s))
  BY <1>3 DEF Begin, TypeOK, CallsOK
<1>4. ASSUME NEW t \in Services, Resolve(t) \/ Check(t) \/ Work(t) \/ CloseBlock(t), ~Vanished
      PROVE  InUse(s)' \subseteq InUse(s) /\ (Missing(s)' => Missing(s))
  <2>1. CASE s # t
    <3>1. call'[s] = call[s]
      BY <1>4, <2>1, StepOfCall
    <3>2. map'[s] = map[s]
      BY <1>4, <2>1
      DEF Resolve, SetConfig, TestRemoval, Unset, Hit, Miss, Unavailable, Pass, Replace, Raise,
          OpenNative, NoLibrary, OpenCrash, Lower, Check, Work, CloseBlock, TypeOK
    <3> QED
      BY <3>1, <3>2
  <2>2. CASE s = t
    <3>1. map' = map
      BY <1>4, <2>2
      DEF Resolve, SetConfig, TestRemoval, Unset, Hit, Unavailable, Pass, Replace, Raise,
          OpenNative, NoLibrary, OpenCrash, Check, Work, CloseBlock
    <3>2. CASE SetConfig(s) \/ TestRemoval(s) \/ Unset(s) \/ Hit(s) \/ Unavailable(s)
      <4>1. call[s].stage # "none"
        BY <3>2 DEF SetConfig, TestRemoval, Unset, Hit, Configured, Unavailable
      <4>2. call[s] \in Calls /\ s \in DOMAIN call
        BY <4>1, InCall DEF TypeOK, CallsOK
      <4>3. CASE Return(s)
        BY <3>1, <4>2, <4>3 DEF Return, NoCall
      <4>4. ASSUME NEW x \in {"enter", "store"}, Goto(s, x)
            PROVE  ~Missing(s)'
        BY <4>2, <4>4 DEF Goto, Calls
      <4>5. ASSUME NEW x, Got(s, x)
            PROVE  ~Missing(s)'
        BY <4>2, <4>5 DEF Got, Calls
      <4> QED
        BY <3>1, <3>2, <4>3, <4>4, <4>5 DEF SetConfig, TestRemoval, Unset, Hit, Unavailable
    <3>3. CASE Pass(s) \/ Replace(s) \/ Raise(s) \/ NoLibrary(s)
      BY <3>3 DEF Pass, Replace, Raise, NoLibrary, Goto, TypeOK, CallsOK
    <3>4. CASE \E i \in Ids, o \in {"live", "dead"} : OpenNative(s, i, o)
      BY <3>4 DEF OpenNative, TypeOK, CallsOK
    <3>5. CASE Check(s) \/ Work(s) \/ CloseBlock(s)
      <4>1. call[s] \in Calls /\ s \in DOMAIN call
        BY <3>5, InCall DEF Check, Work, CloseBlock, TypeOK, CallsOK
      <4>2. CASE Return(s)
        BY <3>1, <4>1, <4>2 DEF Return, NoCall
      <4>3. CASE Goto(s, "native")
        BY <3>1, <4>1, <4>3 DEF Goto, Calls
      <4> QED
        BY <3>5, <4>2, <4>3 DEF Check, Work, CloseBlock
    <3> QED
      BY <1>4, <2>2, <3>1, <3>2, <3>3, <3>4, <3>5 DEF Resolve, OpenCrash
  <2> QED
    BY <2>1, <2>2
<1>5. ASSUME NEW t \in Services, Create(t) \/ DestroyBegin(t) \/ DestroyEnd(t)
      PROVE  call' = call /\ InUse(s)' \subseteq InUse(s)
  BY <1>5 DEF Create, DestroyBegin, DestroyEnd, NoMap, TypeOK
<1>6. ASSUME NEW t \in Services, NEW i \in Ids, DestroySkip(t, i) \/ DestroyClose(i)
      PROVE  call' = call /\ map' = map
  BY <1>6 DEF DestroySkip, DestroyClose
<1>7. ASSUME NEW t \in Services, Step(t)
      PROVE  InUse(s)' \subseteq InUse(s) /\ (Missing(s)' => Missing(s))
  BY <1>2, <1>3, <1>4, <1>5, <1>6, <1>7 DEF Step
<1> QED
  BY <1>1, <1>2, <1>6, <1>7 DEF Next, Kill, Reboot, Receive, Tick, vars

LEMMA MapBoundedHolds == Spec => []MapBounded
<1>1. Init => MapBounded
  <2> SUFFICES ASSUME Init, NEW s \in Services PROVE Bounded(s)
    BY DEF MapBounded
  <2>1. InUse(s) = {}
    BY DEF Init, InUse, NoMap
  <2> QED
    BY <2>1, FS_EmptySet, ServiceAssumption DEF Bounded
<1>2. TypeOK /\ MapBounded /\ [Next]_vars => MapBounded'
  <2> SUFFICES ASSUME TypeOK, MapBounded, [Next]_vars, NEW s \in Services PROVE Bounded(s)'
    BY DEF MapBounded
  <2>1. Bounded(s)
    BY DEF MapBounded
  <2>2. CASE ~Miss(s) /\ ~Lower(s)
    BY <2>1, <2>2, OthersBounded, FewerKeep
  <2> QED
    BY <2>1, <2>2, MissBounded, LowerBounded
<1> QED
  BY <1>1, <1>2, TypeCorrect, PTL DEF Spec

\* Where no call outlives its service, no more than Limit + 1 stores are open at
\* a time: those of the blocks of the living service's map, and the one that is
\* about to be entered there.
THEOREM OpenStoresFew ==
  ASSUME ~InFlight
  PROVE  Spec => []OpenStoresBounded
<1>1. TypeOK /\ Alone /\ MapInv /\ MapBounded => OpenStoresBounded
  <2> SUFFICES ASSUME TypeOK, Alone, MapInv, MapBounded PROVE OpenStoresBounded
    OBVIOUS
  <2> DEFINE Opened == {i \in Ids : Open(i)}
             home == [i \in Opened |-> block[i]]
  <2>1. CASE Opened = {}
    BY <2>1, FS_EmptySet, ServiceAssumption DEF OpenStoresBounded
  <2>2. ASSUME NEW k \in Ids, Open(k)
        PROVE  OpenStoresBounded
    <3>1. PICK s \in Services : Living(s) /\ Home(s, k)
      BY <2>2 DEF MapInv, OpenIsHome
    <3>2. \A i \in Opened : Home(s, i)
      BY <3>1 DEF MapInv, OpenIsHome, Alone, Living
    <3> DEFINE Homes == InUse(s) \cup (IF At(s, "lower") THEN {call[s].block} ELSE {})
    <3>3. /\ IsFiniteSet(Homes) /\ Cardinality(Homes) \in Nat
          /\ Cardinality(Homes) <= Limit + 1
      <4>1. CASE At(s, "lower")
        <5>1. Missing(s) /\ Homes = InUse(s) \cup {call[s].block}
          BY <4>1 DEF At, Missing
        <5>2. Cardinality(InUse(s)) <= Limit
          BY <5>1 DEF MapBounded, Bounded
        <5> QED
          <6> HIDE DEF Homes
          <6>1. /\ IsFiniteSet(Homes) /\ Cardinality(Homes) \in Nat
                /\ Cardinality(Homes) <= Cardinality(InUse(s)) + 1
            BY <5>1, InUseFinite, OneMore
          <6> QED
            BY <5>2, <6>1, InUseFinite, ServiceAssumption
      <4>2. CASE ~At(s, "lower")
        <5>1. Homes = InUse(s)
          BY <4>2
        <5>2. Cardinality(InUse(s)) <= Limit + 1
          BY InUseFinite, ServiceAssumption DEF MapBounded, Bounded
        <5> QED
          BY <5>1, <5>2, InUseFinite
      <4> QED
        BY <4>1, <4>2
    <3>4. home \in [Opened -> Homes]
      BY <3>2, ServiceAssumption DEF Home, InUse, At, MapInv, LowerMatches
    <3>5. \A i, j \in Opened : home[i] = home[j] => i = j
      BY OneStoreABlock
    <3>6. home \in Injection(Opened, Homes)
      BY <3>4, <3>5 DEF Injection, IsInjective
    <3> HIDE DEF Homes
    <3>7. IsFiniteSet(Opened) /\ Cardinality(Opened) <= Cardinality(Homes)
      BY <3>3, <3>6, FS_Injection
    <3>8. Cardinality(Opened) \in Nat
      BY <3>7, FS_CardinalityType
    <3> QED
      BY <3>3, <3>7, <3>8, ServiceAssumption DEF OpenStoresBounded
  <2> QED
    BY <2>1, <2>2
<1> QED
  BY <1>1, TypeCorrect, AloneHolds, MapInvHolds, MapBoundedHolds, PTL
=============================================================================
