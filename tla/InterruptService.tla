-------------------------- MODULE InterruptService --------------------------
(***************************************************************************)
(* What an interrupt controller promises its handlers: a raised source     *)
(* becomes pending once, a pending interrupt is handed to one handler, and *)
(* the source cannot become pending again until that handler has completed *)
(* it.  Plic implements this.                                              *)
(***************************************************************************)
CONSTANTS Src,     \* the interrupt sources
          Target   \* the handlers (contexts) that claim them

VARIABLES level,   \* the sources whose device asserts its line
          pending, \* the interrupts waiting for a handler
          serving  \* for each handler, the interrupts it has not completed

vars == <<level, pending, serving>>

Closed == pending \cup UNION {serving[t] : t \in Target}

Init ==
  /\ level \in SUBSET Src
  /\ pending = {}
  /\ serving = [t \in Target |-> {}]

(* In one step any devices may change their lines, some raised and open     *)
(* sources become pending, at most one pending interrupt is claimed and at  *)
(* most one claimed interrupt is completed.                                 *)
Step(claimer, claimed, completer, completed) ==
  /\ level' \in SUBSET Src
  /\ pending \ claimed \subseteq pending'
  /\ pending' \subseteq (pending \ claimed) \cup (level \ Closed)
  /\ serving' = [t \in Target |->
                   (serving[t] \cup (IF t = claimer THEN claimed ELSE {}))
                     \ (IF t = completer THEN completed ELSE {})]

AtMostOne(S) == {{}} \cup {{k} : k \in S}

Next ==
  \E claimer, completer \in Target :
    \E claimed \in AtMostOne(pending), completed \in AtMostOne(serving[completer]) :
      Step(claimer, claimed, completer, completed)

Spec == Init /\ [][Next]_vars
=============================================================================
