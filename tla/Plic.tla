-------------------------------- MODULE Plic --------------------------------
(***************************************************************************)
(* The platform-level interrupt controller that rtl/plic.v wraps, one step *)
(* per clock edge: a gateway per source, the registered best request of    *)
(* each target, the claim and completion ports behind AXI4-Lite, and the   *)
(* one-cycle read stall after bus activity.                                *)
(*                                                                         *)
(* The bus side is the CPU's uncached bridge behind the interconnect: an   *)
(* access reaches the slave after any number of cycles.  The bridge has    *)
(* one access open at a time; Overlap lets a read and a write be open      *)
(* together, as AXI allows, to see what depends on the bridge.  The        *)
(* handlers complete only what they claimed.                               *)
(***************************************************************************)
EXTENDS Naturals

CONSTANTS N,           \* the number of sources; their ids are 1 .. N
          Target,      \* the contexts: 0 drives the M line, 1 the S line
          MaxPriority, \* the largest priority (3: two bits)
          Overlap,     \* may a read and a write be open at the same time?
          Settings     \* the configuration writes the program may make

Src == 1 .. N
Priority == 0 .. MaxPriority

CompleteOp == [kind : {"complete"}, target : Target, id : Src]
SettingOp == [kind : {"priority"}, id : Src, value : Priority]
        \cup [kind : {"enable"}, target : Target, set : SUBSET Src]
        \cup [kind : {"threshold"}, target : Target, value : Priority]
ClaimOp == [kind : {"claim"}, target : Target]
PeekOp == [kind : {"peek"}]   \* a read of any register but a claim port
NoOp == [kind |-> "none"]

ASSUME PlicAssumption ==
  /\ N \in Nat /\ MaxPriority \in Nat
  /\ Target # {}
  /\ Overlap \in BOOLEAN
  /\ Settings \subseteq SettingOp

VARIABLES
  level,           \* the sources input
  ip,              \* gateway k holds a pending interrupt
  waitCompletion,  \* gateway k is closed until its interrupt is completed
  priority,        \* of each source
  ie,              \* for each target, its enabled sources
  threshold,       \* of each target
  bestRequest,     \* of each target, as registered at the last edge
  arValid,         \* a read is in the read data stage
  bValid,          \* a write response is waiting
  coherencyStall,  \* reads are halted in this cycle
  rdOp, rd,        \* the open read, and whether it is held, offered or taken
  wrOp, wr,        \* the same for the open write
  serving          \* the ids each handler has claimed and not completed

gatewayVars == <<ip, waitCompletion>>
configVars == <<priority, ie, threshold>>
busVars == <<rdOp, rd, wrOp, wr>>
vars == <<level, gatewayVars, configVars, bestRequest, arValid, bValid,
          coherencyStall, busVars, serving>>

-----------------------------------------------------------------------------
(* A wrong request line, that forgets to look at the gateway.               *)
Requests_Slip(t) == {k \in ie[t] : priority[k] > 0}

(* The sources a target would take, and its choice: the highest priority,   *)
(* the lowest id among equals, or request 0 when there is none.             *)
Requests(t) == {k \in ie[t] : ip[k] /\ priority[k] > 0}

IsBest(t, b) ==
  \/ Requests(t) = {} /\ b = [id |-> 0, priority |-> 0]
  \/ /\ b.id \in Requests(t)
     /\ b.priority = priority[b.id]
     /\ \A k \in Requests(t) :
          \/ priority[k] < b.priority
          \/ priority[k] = b.priority /\ b.id <= k

Request == [id : 0 .. N, priority : Priority]

ArbitrateTargets ==
  /\ bestRequest' \in [Target -> Request]
  /\ \A t \in Target : IsBest(t, bestRequest'[t])

(* A wrong threshold test, that lets the threshold itself through.          *)
iep_Slip(t) == threshold[t] <= bestRequest[t].priority

iep(t) == threshold[t] < bestRequest[t].priority
claim(t) == IF iep(t) THEN bestRequest[t].id ELSE 0

-----------------------------------------------------------------------------
(* The bus events of a cycle.                                               *)
writeJoin == wr = "valid"
writeOccur == writeJoin /\ ~bValid
readOccur(RREADY) == arValid /\ ~coherencyStall /\ RREADY

(* The id a claim read takes in this cycle, and the id a write completes.   *)
claimed(RREADY) ==
  IF readOccur(RREADY) /\ rdOp.kind = "claim" THEN claim(rdOp.target) ELSE 0
completed ==
  IF writeOccur /\ wrOp.kind = "complete" THEN wrOp.id ELSE 0

(* Later assignments win: a claim clears ip and a completion opens the      *)
(* gateway even in a cycle in which the gateway samples its source.         *)
Pend(RREADY) ==
  ip' = [k \in Src |->
           IF k = claimed(RREADY) THEN FALSE
           ELSE IF waitCompletion[k] THEN ip[k] ELSE k \in level]

Close ==
  waitCompletion' = [k \in Src |->
                       IF k = completed THEN FALSE
                       ELSE IF waitCompletion[k] THEN TRUE ELSE k \in level]

(* Wrong gateways: one that samples while closed, one that forgets to drop  *)
(* the pending bit at a claim, and one that opens at the claim.             *)
Gateways_Resample(RREADY) ==
  /\ ip' = [k \in Src |-> k # claimed(RREADY) /\ (ip[k] \/ k \in level)]
  /\ waitCompletion' = [k \in Src |->
             k # completed /\ (waitCompletion[k] \/ k \in level)]

Gateways_KeepPending(RREADY) ==
  /\ ip' = [k \in Src |-> IF waitCompletion[k] THEN ip[k] ELSE k \in level]
  /\ Close

Gateways_OpenAtClaim(RREADY) ==
  /\ Pend(RREADY)
  /\ waitCompletion' = [k \in Src |->
             /\ k \notin {claimed(RREADY), completed}
             /\ waitCompletion[k] \/ k \in level]

Gateways(RREADY) == Pend(RREADY) /\ Close

SetPriority ==
  priority' = IF writeOccur /\ wrOp.kind = "priority"
              THEN [priority EXCEPT ![wrOp.id] = wrOp.value] ELSE priority

SetEnable ==
  ie' = IF writeOccur /\ wrOp.kind = "enable"
        THEN [ie EXCEPT ![wrOp.target] = wrOp.set] ELSE ie

SetThreshold ==
  threshold' = IF writeOccur /\ wrOp.kind = "threshold"
               THEN [threshold EXCEPT ![wrOp.target] = wrOp.value]
               ELSE threshold

(* A wrong enable port, that takes bit k for source k + 1.                  *)
Configure_Slip ==
  /\ ie' = IF writeOccur /\ wrOp.kind = "enable"
             THEN [ie EXCEPT ![wrOp.target] = {k + 1 : k \in wrOp.set}] ELSE ie
  /\ UNCHANGED <<priority, threshold>>

Configure == SetPriority /\ SetEnable /\ SetThreshold

(* The one-bit stall counter: bus activity sets it, and it always falls     *)
(* back in the next cycle, even if that cycle has bus activity of its own.  *)
Stall == coherencyStall' = IF coherencyStall THEN FALSE ELSE writeJoin \/ arValid

Pipeline(BREADY, RREADY) ==
  /\ arValid' = IF readOccur(RREADY) THEN FALSE ELSE arValid \/ rd = "valid"
  /\ bValid' = IF bValid /\ BREADY THEN FALSE ELSE bValid \/ writeJoin

-----------------------------------------------------------------------------
(* The program and the interconnect.                                        *)
IssueRead ==
  /\ rdOp = NoOp
  /\ wrOp = NoOp \/ Overlap
  /\ rdOp' \in ClaimOp \cup PeekOp
  /\ rd' = "held"

(* A handler completes what it has claimed and not yet completed.           *)
IssueWrite ==
  /\ wrOp = NoOp
  /\ rdOp' = NoOp \/ Overlap
  /\ \/ wrOp' \in {c \in CompleteOp : c.id \in serving[c.target]}
     \/ wrOp' \in Settings
  /\ wr' = "held"

ReadChannel(RREADY) ==
  \/ rdOp = NoOp /\ UNCHANGED <<rdOp, rd>>
  \/ IssueRead
  \/ rd = "held" /\ rd' \in {"held", "valid"} /\ UNCHANGED rdOp
  \/ rd = "valid" /\ rd' = (IF arValid THEN "valid" ELSE "taken") /\ UNCHANGED rdOp
  \/ rd = "taken" /\ ~readOccur(RREADY) /\ UNCHANGED <<rdOp, rd>>
  \/ rd = "taken" /\ readOccur(RREADY) /\ rd' = "idle" /\ rdOp' = NoOp

WriteChannel(BREADY) ==
  \/ wrOp = NoOp /\ UNCHANGED <<wrOp, wr>>
  \/ IssueWrite
  \/ wr = "held" /\ wr' \in {"held", "valid"} /\ UNCHANGED wrOp
  \/ wr = "valid" /\ wr' = (IF bValid THEN "valid" ELSE "taken") /\ UNCHANGED wrOp
  \/ wr = "taken" /\ ~(bValid /\ BREADY) /\ UNCHANGED <<wrOp, wr>>
  \/ wr = "taken" /\ bValid /\ BREADY /\ wr' = "idle" /\ wrOp' = NoOp

(* What the handlers know: the id each claim read returned to them.         *)
Handlers(RREADY) ==
  serving' = [t \in Target |->
    (serving[t] \cup {k \in Src : k = claimed(RREADY) /\ rdOp.target = t})
      \ {k \in Src : k = completed /\ wrOp.target = t}]

-----------------------------------------------------------------------------
Init ==
  /\ level \in SUBSET Src
  /\ ip = [k \in Src |-> FALSE]
  /\ waitCompletion = [k \in Src |-> FALSE]
  /\ priority = [k \in Src |-> 0]
  /\ ie = [t \in Target |-> {}]
  /\ threshold = [t \in Target |-> 0]
  /\ bestRequest = [t \in Target |-> [id |-> 0, priority |-> 0]]
  /\ arValid = FALSE /\ bValid = FALSE /\ coherencyStall = FALSE
  /\ rdOp = NoOp /\ rd = "idle" /\ wrOp = NoOp /\ wr = "idle"
  /\ serving = [t \in Target |-> {}]

Controller(BREADY, RREADY) ==
  /\ Gateways(RREADY)
  /\ Configure
  /\ ArbitrateTargets
  /\ Stall
  /\ Pipeline(BREADY, RREADY)

Cycle(BREADY, RREADY) ==
  /\ level' \in SUBSET Src
  /\ Controller(BREADY, RREADY)
  /\ ReadChannel(RREADY)
  /\ WriteChannel(BREADY)
  /\ Handlers(RREADY)

Next == \E BREADY, RREADY \in BOOLEAN : Cycle(BREADY, RREADY)

Spec == Init /\ [][Next]_vars

-----------------------------------------------------------------------------
TypeOK ==
  /\ level \in SUBSET Src
  /\ ip \in [Src -> BOOLEAN] /\ waitCompletion \in [Src -> BOOLEAN]
  /\ priority \in [Src -> Priority]
  /\ ie \in [Target -> SUBSET Src]
  /\ threshold \in [Target -> Priority]
  /\ bestRequest \in [Target -> Request]
  /\ arValid \in BOOLEAN /\ bValid \in BOOLEAN /\ coherencyStall \in BOOLEAN
  /\ rdOp \in {NoOp} \cup ClaimOp \cup PeekOp
  /\ wrOp \in {NoOp} \cup CompleteOp \cup SettingOp
  /\ rd \in {"idle", "held", "valid", "taken"}
  /\ wr \in {"idle", "held", "valid", "taken"}
  /\ serving \in [Target -> SUBSET Src]

(* The read data stage and the write response belong to the open accesses,  *)
(* and a completion still under way is for an id its handler holds.         *)
BusTracksAccess ==
  /\ arValid <=> rd = "taken"
  /\ bValid <=> wr = "taken"
  /\ rdOp = NoOp <=> rd = "idle"
  /\ wrOp = NoOp <=> wr = "idle"
  /\ wrOp.kind = "complete" /\ wr # "taken" => wrOp.id \in serving[wrOp.target]

(* A gateway is closed exactly while its interrupt is pending or being      *)
(* served, and never both: no interrupt is lost in a closed gateway, and    *)
(* none is raised again under a handler that has not completed it           *)
(* (PlicGateway, claim and completion cases).                               *)
GatewayClosedWhileServed ==
  \A k \in Src :
    LET served == \E t \in Target : k \in serving[t]
    IN  /\ waitCompletion[k] <=> ip[k] \/ served
        /\ ~(ip[k] /\ served)

(* Two contexts never serve the same interrupt, although both see it as     *)
(* their best request and may claim one right after the other.              *)
OneHandlerPerInterrupt ==
  \A k \in Src : \A t, u \in Target :
    k \in serving[t] /\ k \in serving[u] => t = u

(* The best request is registered one cycle late, so it can name an id that *)
(* was just claimed; whenever a claim read can be answered it no longer     *)
(* does.                                                                    *)
BestRequestFresh ==
  arValid => \A t \in Target :
               bestRequest[t].id # 0 => ip[bestRequest[t].id]

Inv ==
  /\ TypeOK
  /\ BusTracksAccess
  /\ GatewayClosedWhileServed
  /\ OneHandlerPerInterrupt
  /\ BestRequestFresh

Pending == {k \in Src : ip[k]}

Service == INSTANCE InterruptService WITH pending <- Pending

(* The controller keeps the promise of InterruptService.                    *)
ImplementsService == Service!Spec

(* A claim never hands a context an interrupt it has disabled or masked by  *)
(* its threshold, although the arbitration it reads is a cycle old          *)
(* (coherencyStall and the registered bestRequest).                         *)
ClaimRespectsSettings ==
  [][\A t \in Target : \A k \in serving'[t] \ serving[t] :
       k \in ie[t] /\ priority[k] > threshold[t]]_vars
=============================================================================
