----------------------------- MODULE Plic_proof -----------------------------
(***************************************************************************)
(* Proofs about Plic, for any number of sources, contexts, priorities and  *)
(* configuration writes, and with reads and writes open together or not.   *)
(***************************************************************************)
EXTENDS Plic, TLAPS

(* No access has the kind of none, and request 0 is no source.              *)
LEMMA Kinds ==
  /\ NoOp.kind = "none"
  /\ \A o \in CompleteOp : o.kind = "complete" /\ o.id \in Src /\ o.target \in Target
  /\ \A o \in ClaimOp : o.kind = "claim" /\ o.target \in Target
  /\ \A o \in PeekOp : o.kind = "peek"
  /\ \A o \in SettingOp : o.kind \in {"priority", "enable", "threshold"}
  /\ 0 \notin Src
BY DEF NoOp, CompleteOp, ClaimOp, PeekOp, SettingOp, Src

(* A claim read that can be answered takes an id that is pending, or none.  *)
LEMMA ClaimedPending ==
  ASSUME Inv, NEW RREADY \in BOOLEAN, claimed(RREADY) \in Src
  PROVE  /\ arValid /\ readOccur(RREADY)
         /\ rdOp.kind = "claim" /\ rdOp.target \in Target
         /\ ip[claimed(RREADY)]
<1>1. readOccur(RREADY) /\ rdOp.kind = "claim"
  BY Kinds DEF claimed
<1>2. arValid
  BY <1>1 DEF readOccur
<1>3. rdOp.target \in Target
  BY <1>1, Kinds DEF Inv, TypeOK
<1>4. claimed(RREADY) = claim(rdOp.target)
  BY <1>1 DEF claimed
<1>5. claimed(RREADY) = bestRequest[rdOp.target].id /\ claimed(RREADY) # 0
  BY <1>4, Kinds DEF claim
<1>6. ip[claimed(RREADY)]
  BY <1>2, <1>3, <1>5 DEF Inv, BestRequestFresh
<1> QED
  BY <1>1, <1>2, <1>3, <1>6

(* A completion that lands names an id its handler holds.                   *)
LEMMA CompletedServed ==
  ASSUME Inv, completed \in Src
  PROVE  /\ writeOccur /\ wr = "valid"
         /\ wrOp.kind = "complete" /\ wrOp.target \in Target
         /\ completed = wrOp.id
         /\ completed \in serving[wrOp.target]
<1>1. writeOccur /\ wrOp.kind = "complete" /\ completed = wrOp.id
  BY Kinds DEF completed
<1>2. wr = "valid"
  BY <1>1 DEF writeOccur, writeJoin
<1>3. wrOp.target \in Target
  BY <1>1, Kinds DEF Inv, TypeOK
<1>4. completed \in serving[wrOp.target]
  BY <1>1, <1>2 DEF Inv, BusTracksAccess
<1> QED
  BY <1>1, <1>2, <1>3, <1>4

(* After reset nothing is pending, served or under way.                     *)
LEMMA InitInv == Init => Inv
<1> SUFFICES ASSUME Init PROVE Inv
  OBVIOUS
<1>1. TypeOK
  <2>1. 0 \in Priority /\ [id |-> 0, priority |-> 0] \in Request
    BY PlicAssumption DEF Priority, Request
  <2>2. /\ ip \in [Src -> BOOLEAN] /\ waitCompletion \in [Src -> BOOLEAN]
        /\ priority \in [Src -> Priority]
        /\ ie \in [Target -> SUBSET Src]
        /\ threshold \in [Target -> Priority]
        /\ bestRequest \in [Target -> Request]
        /\ serving \in [Target -> SUBSET Src]
    BY <2>1 DEF Init
  <2> QED
    BY <2>2 DEF Init, TypeOK
<1>2. BusTracksAccess
  BY Kinds DEF Init, BusTracksAccess
<1>3. GatewayClosedWhileServed /\ OneHandlerPerInterrupt /\ BestRequestFresh
  BY DEF Init, GatewayClosedWhileServed, OneHandlerPerInterrupt,
     BestRequestFresh
<1> QED
  BY <1>1, <1>2, <1>3 DEF Inv

(* One edge keeps the types.                                                *)
LEMMA CycleTypeOK ==
  ASSUME Inv, NEW BREADY \in BOOLEAN, NEW RREADY \in BOOLEAN,
         Cycle(BREADY, RREADY)
  PROVE  TypeOK'
<1> USE DEF Inv, TypeOK, Cycle, Controller
<1>1. level' \in SUBSET Src /\ bestRequest' \in [Target -> Request]
  BY DEF ArbitrateTargets
<1>2. ip' \in [Src -> BOOLEAN] /\ waitCompletion' \in [Src -> BOOLEAN]
  <2> DEFINE ipNext(k) == IF k = claimed(RREADY) THEN FALSE
                          ELSE IF waitCompletion[k] THEN ip[k] ELSE k \in level
             waitNext(k) == IF k = completed THEN FALSE
                            ELSE IF waitCompletion[k] THEN TRUE ELSE k \in level
  <2>1. ASSUME NEW k \in Src PROVE ipNext(k) \in BOOLEAN
    <3>1. ip[k] \in BOOLEAN /\ (k \in level) \in BOOLEAN
      OBVIOUS
    <3> QED
      BY <3>1
  <2>2. ASSUME NEW k \in Src PROVE waitNext(k) \in BOOLEAN
    <3>1. (k \in level) \in BOOLEAN
      OBVIOUS
    <3> QED
      BY <3>1
  <2>3. /\ ip' = [k \in Src |-> ipNext(k)]
        /\ waitCompletion' = [k \in Src |-> waitNext(k)]
    BY DEF Gateways, Pend, Close
  <2> HIDE DEF ipNext, waitNext
  <2> QED
    BY <2>1, <2>2, <2>3
<1>3. /\ priority' \in [Src -> Priority]
      /\ ie' \in [Target -> SUBSET Src]
      /\ threshold' \in [Target -> Priority]
  <2>1. wrOp.kind = "priority" => wrOp.value \in Priority
    BY Kinds DEF SettingOp, NoOp, CompleteOp
  <2>2. wrOp.kind = "enable" => wrOp.set \in SUBSET Src
    BY Kinds DEF SettingOp, NoOp, CompleteOp
  <2>3. wrOp.kind = "threshold" => wrOp.value \in Priority
    BY Kinds DEF SettingOp, NoOp, CompleteOp
  <2> QED
    BY <2>1, <2>2, <2>3 DEF Configure, SetPriority, SetEnable, SetThreshold
<1>4. arValid' \in BOOLEAN /\ bValid' \in BOOLEAN /\ coherencyStall' \in BOOLEAN
  BY DEF Stall, Pipeline, writeJoin
<1>5. /\ rdOp' \in {NoOp} \cup ClaimOp \cup PeekOp
      /\ rd' \in {"idle", "held", "valid", "taken"}
  BY DEF ReadChannel, IssueRead
<1>6. /\ wrOp' \in {NoOp} \cup CompleteOp \cup SettingOp
      /\ wr' \in {"idle", "held", "valid", "taken"}
  BY PlicAssumption DEF WriteChannel, IssueWrite
<1>7. serving' \in [Target -> SUBSET Src]
  BY DEF Handlers
<1> QED
  BY <1>1, <1>2, <1>3, <1>4, <1>5, <1>6, <1>7

(* What one edge does to the sets the handlers hold.                        *)
LEMMA ServingStep ==
  ASSUME Inv, NEW BREADY \in BOOLEAN, NEW RREADY \in BOOLEAN,
         Cycle(BREADY, RREADY), NEW k \in Src, NEW t \in Target
  PROVE  k \in serving'[t] <=>
           /\ k \in serving[t] \/ (k = claimed(RREADY) /\ rdOp.target = t)
           /\ ~(k = completed /\ wrOp.target = t)
BY DEF Cycle, Handlers

(* One edge keeps the pipeline and the handlers in step with the accesses.  *)
LEMMA CycleBus ==
  ASSUME Inv, NEW BREADY \in BOOLEAN, NEW RREADY \in BOOLEAN,
         Cycle(BREADY, RREADY)
  PROVE  BusTracksAccess'
<1>1. /\ ReadChannel(RREADY) /\ WriteChannel(BREADY) /\ Pipeline(BREADY, RREADY)
  BY DEF Cycle, Controller
<1>2. /\ arValid' <=> rd' = "taken"
      /\ rdOp' = NoOp <=> rd' = "idle"
  BY <1>1, Kinds DEF Inv, TypeOK, BusTracksAccess, ReadChannel, IssueRead,
         Pipeline, readOccur
<1>3. /\ bValid' <=> wr' = "taken"
      /\ wrOp' = NoOp <=> wr' = "idle"
  BY <1>1, Kinds, PlicAssumption DEF Inv, TypeOK, BusTracksAccess, WriteChannel,
         IssueWrite, Pipeline, writeJoin
<1>4. ASSUME wrOp'.kind = "complete", wr' # "taken"
      PROVE  wrOp'.id \in serving'[wrOp'.target]
  <2>1. wrOp' # NoOp
    BY <1>4, Kinds
  <2>2. CASE wrOp = NoOp
    <3>1. IssueWrite
      BY <1>1, <2>1, <2>2 DEF WriteChannel, Inv, BusTracksAccess
    <3>2. wrOp' \in CompleteOp /\ wrOp'.id \in serving[wrOp'.target]
      BY <1>4, <3>1, Kinds, PlicAssumption DEF IssueWrite
    <3>3. completed = 0
      BY <2>2, Kinds DEF completed
    <3>4. wrOp'.id # completed
      BY <3>2, <3>3, Kinds
    <3> QED
      BY <3>2, <3>4, ServingStep, Kinds
  <2>3. CASE wrOp # NoOp
    <3>1. wrOp' = wrOp /\ ~writeOccur /\ wr # "taken"
      BY <1>1, <1>4, <2>1, <2>3 DEF WriteChannel, IssueWrite, Inv,
         BusTracksAccess,
             writeOccur, writeJoin
    <3>2. wrOp \in CompleteOp /\ wrOp.id \in serving[wrOp.target]
      BY <1>4, <3>1, <2>3, Kinds DEF Inv, TypeOK, BusTracksAccess
    <3>3. wrOp.id # completed
      BY <3>1, <3>2, Kinds DEF completed
    <3> QED
      BY <3>1, <3>2, <3>3, ServingStep, Kinds
  <2> QED
    BY <2>2, <2>3
<1> QED
  BY <1>2, <1>3, <1>4 DEF BusTracksAccess

(* One edge keeps every gateway closed over its pending or served interrupt *)
(* and every interrupt with one handler.                                    *)
LEMMA CycleGateways ==
  ASSUME Inv, NEW BREADY \in BOOLEAN, NEW RREADY \in BOOLEAN,
         Cycle(BREADY, RREADY)
  PROVE  GatewayClosedWhileServed' /\ OneHandlerPerInterrupt'
<1> DEFINE Held(k) == \E t \in Target : k \in serving[t]
           HeldNext(k) == \E t \in Target : k \in serving'[t]
<1>1. SUFFICES ASSUME NEW k \in Src
               PROVE  /\ waitCompletion'[k] <=> ip'[k] \/ HeldNext(k)
                      /\ ~(ip'[k] /\ HeldNext(k))
                      /\ \A t, u \in Target :
                           k \in serving'[t] /\ k \in serving'[u] => t = u
  BY DEF GatewayClosedWhileServed, OneHandlerPerInterrupt
<1>2. /\ ip'[k] <=> IF k = claimed(RREADY) THEN FALSE
                    ELSE IF waitCompletion[k] THEN ip[k] ELSE k \in level
      /\ waitCompletion'[k] <=> IF k = completed THEN FALSE
                    ELSE IF waitCompletion[k] THEN TRUE ELSE k \in level
  BY DEF Cycle, Controller, Gateways, Pend, Close
<1>3. /\ waitCompletion[k] <=> ip[k] \/ Held(k)
      /\ ~(ip[k] /\ Held(k))
      /\ \A t, u \in Target : k \in serving[t] /\ k \in serving[u] => t = u
  BY DEF Inv, GatewayClosedWhileServed, OneHandlerPerInterrupt
<1>4. CASE k = claimed(RREADY)
  <2>1. rdOp.target \in Target /\ ip[k]
    BY <1>4, ClaimedPending
  <2>2. \A t \in Target : k \notin serving[t]
    BY <1>3, <2>1
  <2>3. k # completed
    BY <2>2, CompletedServed
  <2>4. \A t \in Target : k \in serving'[t] <=> t = rdOp.target
    BY <1>4, <2>2, <2>3, ServingStep
  <2> QED
    BY <1>2, <1>3, <1>4, <2>1, <2>3, <2>4
<1>5. CASE k = completed
  <2>1. wrOp.target \in Target /\ k \in serving[wrOp.target]
    BY <1>5, CompletedServed
  <2>2. ~ip[k] /\ waitCompletion[k]
    BY <1>3, <2>1
  <2>3. k # claimed(RREADY)
    BY <2>2, ClaimedPending
  <2>4. \A t \in Target : k \notin serving'[t]
    BY <1>3, <1>5, <2>1, <2>3, ServingStep
  <2> QED
    BY <1>2, <1>5, <2>2, <2>3, <2>4
<1>6. CASE k # claimed(RREADY) /\ k # completed
  <2>1. \A t \in Target : k \in serving'[t] <=> k \in serving[t]
    BY <1>6, ServingStep
  <2> QED
    BY <1>2, <1>3, <1>6, <2>1
<1> QED
  BY <1>4, <1>5, <1>6

(* One edge leaves no claimed id in a best request that a read can reach.   *)
LEMMA CycleBest ==
  ASSUME Inv, NEW BREADY \in BOOLEAN, NEW RREADY \in BOOLEAN,
         Cycle(BREADY, RREADY)
  PROVE  BestRequestFresh'
<1>1. SUFFICES ASSUME arValid', NEW t \in Target, bestRequest'[t].id # 0
               PROVE  ip'[bestRequest'[t].id]
  BY DEF BestRequestFresh
<1>2. bestRequest'[t].id \in Requests(t)
  BY <1>1 DEF Cycle, Controller, ArbitrateTargets, IsBest
<1>3. bestRequest'[t].id \in Src /\ ip[bestRequest'[t].id]
  BY <1>2 DEF Requests, Inv, TypeOK
<1>4. ~readOccur(RREADY)
  BY <1>1 DEF Cycle, Controller, Pipeline
<1>5. claimed(RREADY) = 0
  BY <1>4 DEF claimed
<1>6. waitCompletion[bestRequest'[t].id]
  BY <1>3 DEF Inv, GatewayClosedWhileServed
<1> QED
  BY <1>3, <1>5, <1>6, Kinds DEF Cycle, Controller, Gateways, Pend, Close

(* One edge keeps the whole invariant, and so does a stutter.               *)
LEMMA StepInv == Inv /\ [Next]_vars => Inv'
<1> SUFFICES ASSUME Inv, [Next]_vars PROVE Inv'
  OBVIOUS
<1>1. CASE Next
  <2> PICK BREADY \in BOOLEAN, RREADY \in BOOLEAN : Cycle(BREADY, RREADY)
    BY <1>1 DEF Next
  <2> QED
    BY CycleTypeOK, CycleBus, CycleGateways, CycleBest DEF Inv
<1>2. CASE UNCHANGED vars
  BY <1>2 DEF vars, gatewayVars, configVars, busVars, Inv, TypeOK,
     BusTracksAccess,
         GatewayClosedWhileServed, OneHandlerPerInterrupt, BestRequestFresh
<1> QED
  BY <1>1, <1>2

(* The types, the bus bookkeeping, the gateways, the handlers and the best  *)
(* requests of the interrupt controller are consistent in every reachable   *)
(* state.                                                                   *)
THEOREM Invariance == Spec => []Inv
<1>1. Init => Inv
  BY InitInv
<1>2. Inv /\ [Next]_vars => Inv'
  BY StepInv
<1> QED
  BY <1>1, <1>2, PTL DEF Spec

(* Pending bits, settings, best requests and bus channels have their types. *)
THEOREM TypeCorrect == Spec => []TypeOK
<1>1. Inv => TypeOK
  BY DEF Inv
<1> QED
  BY <1>1, Invariance, PTL

(* A gateway is closed exactly while its interrupt is pending or served.    *)
THEOREM Gatekeeping == Spec => []GatewayClosedWhileServed
<1>1. Inv => GatewayClosedWhileServed
  BY DEF Inv
<1> QED
  BY <1>1, Invariance, PTL

(* No interrupt has two handlers, whatever the contexts read and write.     *)
THEOREM ExclusiveService == Spec => []OneHandlerPerInterrupt
<1>1. Inv => OneHandlerPerInterrupt
  BY DEF Inv
<1> QED
  BY <1>1, Invariance, PTL

(* A claim read is never answered with an id that is no longer pending.     *)
THEOREM Fresh == Spec => []BestRequestFresh
<1>1. Inv => BestRequestFresh
  BY DEF Inv
<1> QED
  BY <1>1, Invariance, PTL

-----------------------------------------------------------------------------
(* The interrupts an edge raises, takes and completes, seen by the promise. *)
Raised == {k \in Src : ~waitCompletion[k] /\ k \in level}
Claimed(RREADY) == {k \in Src : k = claimed(RREADY)}
Completed == {k \in Src : k = completed}

(* One edge of the controller is one step of the interrupt service.         *)
LEMMA CycleServes ==
  ASSUME Inv, NEW BREADY \in BOOLEAN, NEW RREADY \in BOOLEAN,
         Cycle(BREADY, RREADY)
  PROVE  Service!Next
<1>1. PICK claimer \in Target :
        Claimed(RREADY) # {} => rdOp.target = claimer
  BY ClaimedPending, PlicAssumption DEF Claimed
<1>2. PICK completer \in Target :
        Completed # {} => wrOp.target = completer
  BY CompletedServed, PlicAssumption DEF Completed
<1>3. Raised \subseteq level \ Service!Closed
  BY DEF Raised, Service!Closed, Pending, Inv, GatewayClosedWhileServed
<1>4. Claimed(RREADY) \subseteq Pending
  BY ClaimedPending DEF Claimed, Pending
<1>5. Completed \subseteq serving[completer]
  BY <1>2, CompletedServed DEF Completed
<1>6. level' \in SUBSET Src
  BY DEF Cycle
<1>7. Pending' = (Pending \cup Raised) \ Claimed(RREADY)
  <2>1. ASSUME NEW k \in Src
        PROVE  ip'[k] <=> /\ ip[k] \/ (~waitCompletion[k] /\ k \in level)
                          /\ k # claimed(RREADY)
    <3>1. ip'[k] <=> IF k = claimed(RREADY) THEN FALSE
                     ELSE IF waitCompletion[k] THEN ip[k] ELSE k \in level
      BY DEF Cycle, Controller, Gateways, Pend, Close
    <3>2. ip[k] => waitCompletion[k]
      BY DEF Inv, GatewayClosedWhileServed
    <3> QED
      BY <3>1, <3>2
  <2> QED
    BY <2>1 DEF Pending, Raised, Claimed
<1>8. serving' = [t \in Target |->
        (serving[t] \cup (IF t = claimer THEN Claimed(RREADY) ELSE {}))
          \ (IF t = completer THEN Completed ELSE {})]
  <2>1. serving' = [t \in Target |->
          (serving[t] \cup {k \in Src : k = claimed(RREADY) /\ rdOp.target = t})
            \ {k \in Src : k = completed /\ wrOp.target = t}]
    BY DEF Cycle, Handlers
  <2>2. ASSUME NEW t \in Target
        PROVE  /\ {k \in Src : k = claimed(RREADY) /\ rdOp.target = t}
                    = (IF t = claimer THEN Claimed(RREADY) ELSE {})
               /\ {k \in Src : k = completed /\ wrOp.target = t}
                    = (IF t = completer THEN Completed ELSE {})
    BY <1>1, <1>2 DEF Claimed, Completed
  <2> QED
    BY <2>1, <2>2
<1>9. Claimed(RREADY) \in Service!AtMostOne(Pending)
  BY <1>4 DEF Claimed, Service!AtMostOne
<1>10. Completed \in Service!AtMostOne(serving[completer])
  BY <1>5 DEF Completed, Service!AtMostOne
<1> HIDE DEF Raised, Claimed, Completed
<1>11. Service!Step(claimer, Claimed(RREADY), completer, Completed)
  BY <1>3, <1>4, <1>5, <1>6, <1>7, <1>8 DEF Service!Step, Service!Closed,
     Pending
<1> QED
  BY <1>9, <1>10, <1>11 DEF Service!Next

(* For any sources and contexts, the controller never loses, repeats or     *)
(* hands out twice an interrupt: it implements InterruptService.            *)
THEOREM Refinement == Spec => ImplementsService
<1>1. Init => Service!Init
  BY DEF Init, Service!Init, Pending
<1>2. Inv /\ [Next]_vars => [Service!Next]_(Service!vars)
  <2> SUFFICES ASSUME Inv, [Next]_vars PROVE [Service!Next]_(Service!vars)
    OBVIOUS
  <2>1. CASE Next
    <3> PICK BREADY \in BOOLEAN, RREADY \in BOOLEAN : Cycle(BREADY, RREADY)
      BY <2>1 DEF Next
    <3> QED
      BY CycleServes
  <2>2. CASE UNCHANGED vars
    BY <2>2 DEF vars, gatewayVars, Pending, Service!vars
  <2> QED
    BY <2>1, <2>2
<1> QED
  BY <1>1, <1>2, Invariance, PTL DEF Spec, ImplementsService, Service!Spec

-----------------------------------------------------------------------------
(* The bridge has one access open at a time.                                *)
OneAccess == rdOp = NoOp \/ wrOp = NoOp

(* Every best request was found under the settings in force.                *)
UpToDate ==
  \A t \in Target :
    LET best == bestRequest[t]
    IN  best.id # 0 => best.id \in ie[t] /\ best.priority = priority[best.id]

(* A best request is out of date only in the cycle after a setting was      *)
(* written, and then the write is still waiting for its response.           *)
SettingsInv == OneAccess /\ (wr # "taken" => UpToDate)

LEMMA SettingsStep ==
  ASSUME ~Overlap, Inv, SettingsInv,
         NEW BREADY \in BOOLEAN, NEW RREADY \in BOOLEAN, Cycle(BREADY, RREADY)
  PROVE  SettingsInv'
<1>1. /\ ReadChannel(RREADY) /\ WriteChannel(BREADY)
      /\ Configure /\ ArbitrateTargets
  BY DEF Cycle, Controller
<1>2. OneAccess'
  <2>1. wrOp' = NoOp \/ wrOp' = wrOp \/ (wrOp = NoOp /\ rdOp' = NoOp)
    BY <1>1 DEF WriteChannel, IssueWrite
  <2>2. rdOp' = NoOp \/ rdOp' = rdOp \/ (rdOp = NoOp /\ wrOp = NoOp)
    BY <1>1 DEF ReadChannel, IssueRead
  <2> QED
    BY <2>1, <2>2 DEF SettingsInv, OneAccess
<1>3. ASSUME wr' # "taken" PROVE UpToDate'
  <2>1. ~writeOccur
    BY <1>1, <1>3, Kinds
    DEF WriteChannel, IssueWrite, writeOccur, writeJoin, Inv, BusTracksAccess
  <2>2. UNCHANGED <<ie, priority>>
    BY <1>1, <2>1 DEF Configure, SetPriority, SetEnable
  <2>3. ASSUME NEW t \in Target, bestRequest'[t].id # 0
        PROVE  /\ bestRequest'[t].id \in ie[t]
               /\ bestRequest'[t].priority = priority[bestRequest'[t].id]
    <3>1. IsBest(t, bestRequest'[t])
      BY <1>1 DEF ArbitrateTargets
    <3>2. bestRequest'[t].id \in Requests(t)
      BY <2>3, <3>1 DEF IsBest
    <3> QED
      BY <2>3, <3>1, <3>2 DEF IsBest, Requests
  <2> QED
    BY <2>2, <2>3 DEF UpToDate
<1> QED
  BY <1>2, <1>3 DEF SettingsInv

(* What a claim hands out, its context has enabled and does not mask.       *)
LEMMA ClaimObeys ==
  ASSUME Inv, SettingsInv,
         NEW BREADY \in BOOLEAN, NEW RREADY \in BOOLEAN, Cycle(BREADY, RREADY),
         NEW t \in Target, NEW k \in serving'[t] \ serving[t]
  PROVE  k \in ie[t] /\ priority[k] > threshold[t]
<1>1. k \in Src /\ k = claimed(RREADY) /\ rdOp.target = t
  BY DEF Cycle, Handlers
<1>2. arValid /\ rdOp.kind = "claim" /\ readOccur(RREADY)
  BY <1>1, ClaimedPending
<1>3. k = bestRequest[t].id /\ k # 0 /\ threshold[t] < bestRequest[t].priority
  BY <1>1, <1>2, Kinds DEF claimed, claim, iep
<1>4. wr # "taken"
  BY <1>2, Kinds DEF Inv, BusTracksAccess, SettingsInv, OneAccess
<1>5. k \in ie[t] /\ bestRequest[t].priority = priority[k]
  BY <1>3, <1>4 DEF SettingsInv, UpToDate
<1>6. threshold[t] \in Nat /\ priority[k] \in Nat
  BY <1>1, PlicAssumption DEF Inv, TypeOK, Priority
<1> QED
  BY <1>3, <1>5, <1>6

(* Behind a bridge with one access open at a time, no claim takes an        *)
(* interrupt against the settings in force, although the arbitration it     *)
(* reads is a cycle old.                                                    *)
THEOREM SettingsObeyed ==
  ASSUME ~Overlap PROVE Spec => ClaimRespectsSettings
<1>1. Init => SettingsInv
  BY DEF Init, SettingsInv, OneAccess, UpToDate
<1>2. Inv /\ SettingsInv /\ [Next]_vars => SettingsInv'
  <2> SUFFICES ASSUME Inv, SettingsInv, [Next]_vars PROVE SettingsInv'
    OBVIOUS
  <2>1. CASE Next
    BY <2>1, SettingsStep DEF Next
  <2>2. CASE UNCHANGED vars
    BY <2>2 DEF vars, configVars, busVars, SettingsInv, OneAccess, UpToDate
  <2> QED
    BY <2>1, <2>2
<1>3. Inv /\ SettingsInv /\ [Next]_vars =>
        [\A t \in Target : \A k \in serving'[t] \ serving[t] :
           k \in ie[t] /\ priority[k] > threshold[t]]_vars
  BY ClaimObeys DEF Next
<1> QED
  BY <1>1, <1>2, <1>3, Invariance, PTL DEF Spec, ClaimRespectsSettings
=============================================================================
