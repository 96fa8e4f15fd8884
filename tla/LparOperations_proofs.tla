------------------------- MODULE LparOperations_proofs -------------------------
(* Proofs about LparOperations, for any clients, level and timeouts. *)
EXTENDS LparOperations, TLAPS

USE LparAssumption DEF LparAssumption

CallType ==
    [pc : {"idle", "posted", "profile", "wait", "check", "ok", "error", "timeout"},
     op : MockOps \cup OtherOps \cup {"none"}, force : BOOLEAN, arg : Profile \cup Address,
     want : SUBSET Status, late : BOOLEAN, saw : Status \cup {"none"}, hit : BOOLEAN,
     miss : BOOLEAN]

CallsOK == call \in [Client -> CallType]

\* An activation and an update name a profile, a load names a device.
Fits(op, arg) ==
    /\ op \in {"activate", "update"} => arg \in Profile
    /\ op \in {"load", "scsi-load", "scsi-dump", "nvme-load", "nvme-dump"} => arg \in Address

TypeInv == TypeOK /\ \A c \in Client : call[c].pc = "posted" => Fits(call[c].op, call[c].arg)

\* The calls that see every status.
Waits(x) == x.pc \in {"profile", "wait", "check"}

--------------------------------------------------------------------------------
(* What the steps do with a call *)

LEMMA NoCallType ==
  /\ NoCall \in CallType /\ NoCall.pc = "idle" /\ NoCall.op = "none" /\ NoCall.want = {}
  /\ NoCall.late = FALSE /\ NoCall.saw = "none" /\ NoCall.hit = FALSE /\ NoCall.miss = FALSE
BY DEF NoCall, CallType, Profile

LEMMA WitnessType ==
  ASSUME NEW cs \in [Client -> CallType], NEW s \in Status
  PROVE  Witness(cs, s) \in [Client -> CallType]
<1>1. ASSUME NEW e \in Client
      PROVE  [cs[e] EXCEPT !.hit = @ \/ s \in cs[e].want, !.miss = @ \/ s \notin cs[e].want]
               \in CallType
  BY DEF CallType
<1> QED
  BY <1>1 DEF Witness

\* Witnessing a status changes nothing of a call but its history.
LEMMA WitnessKeeps ==
  ASSUME NEW cs \in [Client -> CallType], NEW s \in Status, NEW d \in Client
  PROVE  /\ Witness(cs, s) \in [Client -> CallType]
         /\ Witness(cs, s)[d].pc = cs[d].pc /\ Witness(cs, s)[d].want = cs[d].want
         /\ Witness(cs, s)[d].late = cs[d].late /\ Witness(cs, s)[d].saw = cs[d].saw
         /\ Waits(cs[d]) => /\ Witness(cs, s)[d].hit = (cs[d].hit \/ s \in cs[d].want)
                            /\ Witness(cs, s)[d].miss = (cs[d].miss \/ s \notin cs[d].want)
         /\ ~Waits(cs[d]) => Witness(cs, s)[d] = cs[d]
<1> DEFINE x(e) == [cs[e] EXCEPT !.hit = @ \/ s \in cs[e].want, !.miss = @ \/ s \notin cs[e].want]
<1>1. ASSUME NEW e \in Client
      PROVE  /\ x(e) \in CallType /\ x(e).pc = cs[e].pc /\ x(e).want = cs[e].want
             /\ x(e).late = cs[e].late /\ x(e).saw = cs[e].saw
             /\ x(e).hit = (cs[e].hit \/ s \in cs[e].want)
             /\ x(e).miss = (cs[e].miss \/ s \notin cs[e].want)
  BY DEF CallType
<1>2. Witness(cs, s) = [e \in Client |-> IF Waits(cs[e]) THEN x(e) ELSE cs[e]]
  BY DEF Witness, Waits
<1> HIDE DEF x
<1> QED
  BY <1>1, <1>2

\* The call c is posted.
LEMMA PostEffect ==
  ASSUME CallsOK, NEW c \in Client, NEW op \in MockOps \cup OtherOps, NEW force \in BOOLEAN,
         NEW arg \in Profile \cup Address, NEW want \in SUBSET Status,
         Post(c, op, force, arg, want)
  PROVE  /\ CallsOK'
         /\ call'[c].pc = "posted" /\ call'[c].op = op /\ call'[c].arg = arg
         /\ \A d \in Client \ {c} : call'[d] = call[d]
         /\ UNCHANGED <<lparVars, listed>> /\ call[c].pc # "posted"
<1> DEFINE w == IF c \in Tolerant /\ want # {} THEN want \cup {"exceptions"} ELSE want
           x == [NoCall EXCEPT !.pc = "posted", !.op = op, !.force = force, !.arg = arg, !.want = w]
<1>1. w \in SUBSET Status
  BY DEF Status
<1> HIDE DEF w
<1>2. x \in CallType /\ x.pc = "posted" /\ x.op = op /\ x.arg = arg
  BY <1>1, NoCallType DEF NoCall, CallType
<1>3. call' = [call EXCEPT ![c] = x] /\ UNCHANGED <<lparVars, listed>> /\ call[c].pc # "posted"
  BY DEF Post, w
<1> HIDE DEF x
<1> QED
  BY <1>2, <1>3 DEF CallsOK

LEMMA RejectEffect ==
  ASSUME CallsOK, NEW c \in Client, call' = [call EXCEPT ![c] = [NoCall EXCEPT !.pc = "error"]]
  PROVE  /\ CallsOK'
         /\ call'[c].pc = "error"
         /\ \A d \in Client \ {c} : call'[d] = call[d]
<1> DEFINE x == [NoCall EXCEPT !.pc = "error"]
<1>1. x \in CallType /\ x.pc = "error"
  BY DEF NoCall, CallType, Profile
<1> HIDE DEF x
<1>2. call' = [call EXCEPT ![c] = x]
  BY DEF x
<1> QED
  BY <1>1, <1>2 DEF CallsOK

\* The operation of c is executed, and all calls that wait see the status after it.
LEMMA ExecuteEffect ==
  ASSUME CallsOK, NEW c \in Client, NEW s \in Status, Execute(c, s)
  PROVE  \E cs \in [Client -> CallType] :
           /\ cs[c].pc \in {"ok", "profile", "wait"} /\ (cs[c].pc = "ok" => cs[c].want = {})
           /\ ~cs[c].late
           /\ \A d \in Client \ {c} : cs[d] = call[d]
           /\ call' = Witness(cs, s)
<1> DEFINE x == [NoCall EXCEPT !.want = call[c].want,
                     !.pc = IF call[c].want = {} THEN "ok"
                            ELSE IF call[c].op = "activate" THEN "profile" ELSE "wait"]
           cs == [call EXCEPT ![c] = x]
<1>1. /\ x \in CallType /\ x.pc \in {"ok", "profile", "wait"} /\ (x.pc = "ok" => x.want = {})
      /\ ~x.late
  BY DEF CallsOK, NoCall, CallType, Profile
<1>2. call' = Witness(cs, s)
  BY DEF Execute
<1> HIDE DEF x
<1>3. /\ cs \in [Client -> CallType] /\ cs[c] = x /\ \A d \in Client \ {c} : cs[d] = call[d]
  BY <1>1 DEF CallsOK
<1> QED
  BY <1>1, <1>2, <1>3

--------------------------------------------------------------------------------
(* The operations, by what they do *)

Posts(c) ==
    \E op \in MockOps \cup OtherOps, force \in BOOLEAN, arg \in Profile \cup Address,
       want \in SUBSET Status : Fits(op, arg) /\ Post(c, op, force, arg, want)

Rejects(c) == call[c].pc \in {"posted", "profile", "wait"} /\ Reject(c)

Executes(c, s) ==
    /\ call[c].pc = "posted"
    /\ Execute(c, s)
    /\ next' \in Profile /\ last' \in Load

LEMMA PostKinds ==
  ASSUME NEW c \in Client, ClientPosts(c)
  PROVE  Posts(c)
<1>1. /\ {"operating"} \in SUBSET Status /\ {"not-operating"} \in SUBSET Status
      /\ {"not-activated"} \in SUBSET Status /\ {} \in SUBSET Status
  BY DEF Status
<1> USE DEF Posts, Fits, MockOps, OtherOps, Profile, Address
<1>2. CASE Activate(c) \/ Deactivate(c) \/ LoadStandard(c)
  BY <1>1, <1>2 DEF Activate, Deactivate, LoadStandard
<1>3. CASE ScsiLoad(c) \/ ScsiDump(c) \/ NvmeLoad(c) \/ NvmeDump(c)
  BY <1>1, <1>3 DEF ScsiLoad, ScsiDump, NvmeLoad, NvmeDump
<1>4. CASE LoadFromFtp(c) \/ Stop(c) \/ Start(c) \/ ResetClear(c) \/ ResetNormal(c) \/ PswRestart(c)
  BY <1>1, <1>4 DEF LoadFromFtp, Stop, Start, ResetClear, ResetNormal, PswRestart
<1>5. CASE UpdateProperties(c)
  BY <1>1, <1>5 DEF UpdateProperties
<1> QED
  BY <1>2, <1>3, <1>4, <1>5 DEF ClientPosts

LEMMA HandlerKinds ==
  ASSUME TypeInv, NEW c \in Client, HmcHandles(c)
  PROVE  Rejects(c) \/ \E s \in Status : Executes(c, s)
<1> DEFINE Goal == Rejects(c) \/ \E s \in Status : Executes(c, s)
<1>1. /\ status \in Status /\ next \in Profile /\ last \in Load
      /\ call[c] \in CallType /\ (call[c].pc = "posted" => Fits(call[c].op, call[c].arg))
  BY DEF TypeInv, TypeOK, CallType
<1>2. CASE LparActivate(c) \/ LparDeactivate(c)
  BY <1>1, <1>2 DEF LparActivate, LparDeactivate, Posted, Rejects, Executes
<1>3. ASSUME NEW type \in Kind, call[c].arg \in Address, call[c].pc = "posted", LoadDevice(c, type)
      PROVE  Goal
  <2>1. [addr |-> IF Level >= 1 THEN call[c].arg ELSE last.addr,
         type |-> IF Level >= 3 THEN type ELSE last.type] \in Load
    BY <1>1, <1>3 DEF Load
  <2> QED
    BY <1>1, <1>3, <2>1 DEF LoadDevice, Rejects, Executes
<1>4. CASE LparScsiLoad(c) \/ LparNvmeLoad(c) \/ LparScsiDump(c) \/ LparNvmeDump(c)
  <2>1. PICK type \in Kind : LoadDevice(c, type)
    BY <1>4 DEF LparScsiLoad, LparNvmeLoad, LparScsiDump, LparNvmeDump, Kind
  <2>2. call[c].arg \in Address /\ call[c].pc = "posted"
    BY <1>1, <1>4 DEF LparScsiLoad, LparNvmeLoad, LparScsiDump, LparNvmeDump, Posted, Fits
  <2> QED
    BY <1>3, <2>1, <2>2
<1>5. CASE LparLoad(c)
  <2> DEFINE a == IF call[c].arg = "none" THEN last.addr ELSE call[c].arg
  <2>1. a \in Address /\ [last EXCEPT !.addr = a] \in Load
    BY <1>1, <1>5 DEF LparLoad, Posted, Fits, Load
  <2>2. Posted(c, "load")
    BY <1>5 DEF LparLoad
  <2> HIDE DEF a
  <2>3. CASE status = "not-activated" \/ Protected(c) \/ a = "none"
    BY <1>5, <2>2, <2>3 DEF LparLoad, Posted, Rejects, a
  <2>4. CASE ~(status = "not-activated" \/ Protected(c) \/ a = "none")
    <3>1. PICK s \in Status : Execute(c, s)
      BY <1>5, <2>4 DEF LparLoad, a
    <3>2. last' = [last EXCEPT !.addr = a] /\ next' = next
      BY <1>5, <2>4 DEF LparLoad, a
    <3> QED
      BY <1>1, <2>1, <2>2, <2>4, <3>1, <3>2 DEF Posted, Executes
  <2> QED
    BY <2>3, <2>4
<1>6. CASE LparUpdate(c)
  BY <1>1, <1>6 DEF LparUpdate, Posted, Fits, Rejects, Executes
<1>7. CASE OtherOperation(c)
  BY <1>1, <1>7 DEF OtherOperation, Rejects, Executes
<1> QED
  BY <1>2, <1>4, <1>5, <1>6, <1>7 DEF HmcHandles

\* A call that waits goes on.
Proceeds(c) ==
    \/ TimePasses(c) \/ PollAnswered(c) \/ CheckStatus(c)
    \/ ReadProfile(c) /\ call' = [call EXCEPT ![c].pc = "wait"]

LEMMA StepKinds ==
  ASSUME TypeInv, Next
  PROVE  \/ \E c \in Client : Posts(c)
         \/ \E c \in Client : Rejects(c)
         \/ \E c \in Client, s \in Status : Executes(c, s)
         \/ \E s \in Status : StatusChanges(s)
         \/ \E c \in Client : Proceeds(c)
<1>1. ASSUME NEW c \in Client, ClientWaits(c) \/ TimePasses(c)
      PROVE  Proceeds(c) \/ Rejects(c)
  BY <1>1 DEF ClientWaits, ReadProfile, PollStatus, PollFails, Proceeds, Rejects, Reject
<1>2. CASE \E c \in Client : ClientPosts(c) \/ HmcHandles(c) \/ ClientWaits(c) \/ TimePasses(c)
  BY <1>1, <1>2, PostKinds, HandlerKinds
<1>3. CASE \E s \in Status : StatusChanges(s)
  BY <1>3
<1> QED
  BY <1>2, <1>3 DEF Next

--------------------------------------------------------------------------------
(* Types *)

\* Every variable has its type, and what is posted fits its operation.
LEMMA TypeInductive == Spec => []TypeInv
<1>1. Init => TypeInv
  <2> SUFFICES ASSUME Init  PROVE TypeInv
    OBVIOUS
  <2>1. call \in [Client -> CallType] /\ \A c \in Client : call[c].pc = "idle"
    BY NoCallType DEF Init
  <2>2. calls \in 0..MaxCalls
    BY DEF Init
  <2> QED
    BY <2>1, <2>2 DEF Init, TypeInv, TypeOK, CallType, Status, Profile, Load, Address, Kind
<1>2. TypeInv /\ [Next]_vars => TypeInv'
  <2> SUFFICES ASSUME TypeInv, [Next]_vars  PROVE TypeInv'
    OBVIOUS
  <2> DEFINE Rest == status \in Status /\ next \in Profile /\ last \in Load /\ listed \in Status
             Args == \A c \in Client : call[c].pc = "posted" => Fits(call[c].op, call[c].arg)
             Counts == calls \in 0..MaxCalls
  <2>0. Rest /\ CallsOK /\ Args /\ Counts
    BY DEF TypeInv, TypeOK, CallsOK, CallType
  <2>1. ASSUME NEW c \in Client, Posts(c)  PROVE Rest' /\ CallsOK' /\ Args' /\ Counts'
    <3>1. PICK op \in MockOps \cup OtherOps, force \in BOOLEAN, arg \in Profile \cup Address,
               want \in SUBSET Status : Fits(op, arg) /\ Post(c, op, force, arg, want)
      BY <2>1 DEF Posts
    <3>2. Counts'
      BY <2>0, <3>1 DEF Post
    <3>3. /\ CallsOK' /\ call'[c].op = op /\ call'[c].arg = arg
          /\ \A d \in Client \ {c} : call'[d] = call[d]
          /\ UNCHANGED <<lparVars, listed>>
      BY <2>0, <3>1, PostEffect
    <3> QED
      BY <2>0, <3>1, <3>2, <3>3 DEF lparVars
  <2>2. ASSUME NEW c \in Client, Rejects(c)  PROVE Rest' /\ CallsOK' /\ Args' /\ Counts'
    <3>1. CallsOK' /\ call'[c].pc = "error" /\ \A d \in Client \ {c} : call'[d] = call[d]
      BY <2>0, <2>2, RejectEffect DEF Rejects, Reject
    <3> QED
      BY <2>0, <2>2, <3>1 DEF Rejects, Reject, lparVars
  <2>3. ASSUME NEW c \in Client, NEW s \in Status, Executes(c, s)
        PROVE  Rest' /\ CallsOK' /\ Args' /\ Counts'
    <3>1. PICK cs \in [Client -> CallType] :
             /\ cs[c].pc \in {"ok", "profile", "wait"}
             /\ \A d \in Client \ {c} : cs[d] = call[d]
             /\ call' = Witness(cs, s)
      BY <2>0, <2>3, ExecuteEffect DEF Executes
    <3>2. /\ CallsOK' /\ call'[c].pc # "posted"
          /\ \A d \in Client \ {c} : call'[d].pc = "posted" => call'[d] = call[d]
      BY <3>1, WitnessKeeps DEF CallsOK, Waits
    <3>3. Args'
      BY <2>0, <3>2
    <3> QED
      BY <2>0, <2>3, <3>2, <3>3 DEF Executes, Execute
  <2>4. ASSUME NEW s \in Status, StatusChanges(s)  PROVE Rest' /\ CallsOK' /\ Args' /\ Counts'
    <3>1. /\ CallsOK'
          /\ \A d \in Client : call'[d].pc = "posted" => call'[d] = call[d]
      <4>1. call' = Witness(call, s) /\ call \in [Client -> CallType]
        BY <2>0, <2>4 DEF StatusChanges, CallsOK
      <4>2. CallsOK'
        BY <4>1, WitnessType DEF CallsOK
      <4>3. ASSUME NEW d \in Client, call'[d].pc = "posted"  PROVE call'[d] = call[d]
        <5>1. call'[d].pc = call[d].pc /\ (~Waits(call[d]) => call'[d] = call[d])
          BY <4>1, WitnessKeeps
        <5> QED
          BY <4>3, <5>1 DEF Waits
      <4> QED
        BY <4>2, <4>3
    <3> QED
      BY <2>0, <2>4, <3>1 DEF StatusChanges
  <2>5. ASSUME NEW c \in Client, Proceeds(c)  PROVE Rest' /\ CallsOK' /\ Args' /\ Counts'
    <3>1. UNCHANGED <<lparVars, calls>> /\ listed' \in Status
      BY <2>0, <2>5 DEF Proceeds, TimePasses, PollAnswered, CheckStatus, Outcome, ReadProfile,
             lparVars
    <3>2. PICK x \in CallType : x.pc # "posted" /\ call' = [call EXCEPT ![c] = x]
      <4>1. call[c] \in CallType
        BY <2>0 DEF CallsOK
      <4>2. CASE TimePasses(c)
        BY <4>1, <4>2 DEF TimePasses, CallType
      <4>3. CASE PollAnswered(c)
        <5>1. PICK v \in Status : call' = [call EXCEPT ![c].pc = "check", ![c].saw = v]
          BY <2>0, <4>3 DEF PollAnswered
        <5> DEFINE x == [call[c] EXCEPT !.pc = "check", !.saw = v]
        <5>2. x \in CallType /\ x.pc # "posted"
          BY <4>1 DEF CallType
        <5>3. call' = [call EXCEPT ![c] = x]
          BY <5>1
        <5> QED
          BY <5>2, <5>3
      <4>4. CASE CheckStatus(c)
        <5>1. PICK v \in {"ok", "timeout", "wait"} :
                 call' = [call EXCEPT ![c].pc = v, ![c].saw = "none"]
          BY <4>4 DEF CheckStatus, Outcome
        <5> DEFINE x == [call[c] EXCEPT !.pc = v, !.saw = "none"]
        <5>2. x \in CallType /\ x.pc # "posted"
          BY <4>1 DEF CallType
        <5>3. call' = [call EXCEPT ![c] = x]
          BY <5>1
        <5> QED
          BY <5>2, <5>3
      <4>5. CASE call' = [call EXCEPT ![c].pc = "wait"]
        BY <4>1, <4>5 DEF CallType
      <4> QED
        BY <2>5, <4>2, <4>3, <4>4, <4>5 DEF Proceeds
    <3>3. CallsOK' /\ Args'
      BY <2>0, <3>2 DEF CallsOK
    <3> QED
      BY <2>0, <3>1, <3>3 DEF lparVars
  <2>6. ASSUME UNCHANGED vars  PROVE Rest' /\ CallsOK' /\ Args' /\ Counts'
    BY <2>0, <2>6 DEF vars, lparVars, CallsOK
  <2>7. Rest' /\ CallsOK' /\ Args' /\ Counts' => TypeInv'
    BY DEF TypeInv, TypeOK, CallsOK, CallType
  <2> HIDE DEF Rest, Args, Counts
  <2> QED
    BY <2>1, <2>2, <2>3, <2>4, <2>5, <2>6, <2>7, StepKinds DEF Rest, Args, Counts
<1> QED
  BY <1>1, <1>2, PTL DEF Spec

\* Every variable has its type, in every reachable state.
THEOREM TypeCorrect == Spec => []TypeOK
BY TypeInductive, PTL DEF TypeInv

--------------------------------------------------------------------------------
(* What calls that wait report *)

\* A call that waits has seen the status as it is; what it has polled it has seen.
WaitInv(x) ==
    /\ Waits(x) => (status \in x.want => x.hit) /\ (status \notin x.want => x.miss)
    /\ x.pc = "check" => (x.saw \in x.want => x.hit) /\ (x.saw \notin x.want => x.miss)

HonestInv ==
    \A c \in Client :
        /\ WaitInv(call[c])
        /\ Waits(call[c]) /\ call[c].late => c \in Limited
        /\ call[c].pc = "ok" /\ call[c].want # {} => call[c].hit
        /\ call[c].pc = "timeout" => c \in Limited /\ call[c].miss

\* The steps that a status is witnessed in, by the calls that waited before and by others.
LEMMA WitnessHonest ==
  ASSUME NEW cs \in [Client -> CallType], NEW s \in Status, call' = Witness(cs, s), status' = s,
         \A d \in Client :
            /\ cs[d].pc = "check" => (cs[d].saw \in cs[d].want => cs[d].hit)
                                      /\ (cs[d].saw \notin cs[d].want => cs[d].miss)
            /\ Waits(cs[d]) /\ cs[d].late => d \in Limited
            /\ cs[d].pc = "ok" /\ cs[d].want # {} => cs[d].hit
            /\ cs[d].pc = "timeout" => d \in Limited /\ cs[d].miss
  PROVE  HonestInv'
<1> SUFFICES ASSUME NEW d \in Client
             PROVE  /\ WaitInv(call[d])'
                    /\ Waits(call'[d]) /\ call'[d].late => d \in Limited
                    /\ call'[d].pc = "ok" /\ call'[d].want # {} => call'[d].hit
                    /\ call'[d].pc = "timeout" => d \in Limited /\ call'[d].miss
  BY DEF HonestInv
<1>1. /\ call'[d].pc = cs[d].pc /\ call'[d].want = cs[d].want
      /\ call'[d].late = cs[d].late /\ call'[d].saw = cs[d].saw
      /\ Waits(cs[d]) => /\ call'[d].hit = (cs[d].hit \/ s \in cs[d].want)
                         /\ call'[d].miss = (cs[d].miss \/ s \notin cs[d].want)
      /\ ~Waits(cs[d]) => call'[d] = cs[d]
  BY WitnessKeeps
<1>2. CASE Waits(cs[d])
  BY <1>1, <1>2, Zenon DEF WaitInv, Waits
<1>3. CASE ~Waits(cs[d])
  BY <1>1, <1>3 DEF WaitInv, Waits
<1> QED
  BY <1>2, <1>3

\* With managers that are not auto-updated, every call that waits for a status reports the
\* truth: it returns only after a desired status and times out only after another one.
THEOREM WaitsAreHonest == ~AutoUpdated => (Spec => []WaitOutcomeHonest)
<1> SUFFICES ASSUME ~AutoUpdated  PROVE Spec => []WaitOutcomeHonest
  OBVIOUS
<1>1. Init => HonestInv
  <2>1. Init => \A c \in Client : call[c] = NoCall
    BY DEF Init
  <2> QED
    BY <2>1, NoCallType DEF HonestInv, WaitInv, Waits
<1>2. ASSUME TypeInv, HonestInv, [Next]_vars  PROVE HonestInv'
  <2>0. CallsOK
    BY <1>2 DEF TypeInv, TypeOK, CallsOK, CallType
  <2>1. ASSUME NEW c \in Client, call'[c].pc \in {"posted", "error"}, status' = status,
               \A d \in Client \ {c} : call'[d] = call[d]
        PROVE  HonestInv'
    BY <1>2, <2>1 DEF HonestInv, WaitInv, Waits
  <2>2. ASSUME NEW c \in Client, Posts(c)  PROVE HonestInv'
    BY <2>0, <2>1, <2>2, PostEffect DEF Posts, lparVars
  <2>3. ASSUME NEW c \in Client, Rejects(c)  PROVE HonestInv'
    BY <2>0, <2>1, <2>3, RejectEffect DEF Rejects, Reject, lparVars
  <2>4. ASSUME NEW c \in Client, NEW s \in Status, Executes(c, s)  PROVE HonestInv'
    <3>1. PICK cs \in [Client -> CallType] :
             /\ cs[c].pc \in {"ok", "profile", "wait"} /\ (cs[c].pc = "ok" => cs[c].want = {})
             /\ ~cs[c].late
             /\ \A d \in Client \ {c} : cs[d] = call[d]
             /\ call' = Witness(cs, s)
      BY <2>0, <2>4, ExecuteEffect DEF Executes
    <3>2. status' = s
      BY <2>4 DEF Executes, Execute
    <3>3. \A d \in Client :
            /\ cs[d].pc = "check" => (cs[d].saw \in cs[d].want => cs[d].hit)
                                      /\ (cs[d].saw \notin cs[d].want => cs[d].miss)
            /\ Waits(cs[d]) /\ cs[d].late => d \in Limited
            /\ cs[d].pc = "ok" /\ cs[d].want # {} => cs[d].hit
            /\ cs[d].pc = "timeout" => d \in Limited /\ cs[d].miss
      BY <1>2, <3>1 DEF HonestInv, WaitInv
    <3> QED
      BY <3>1, <3>2, <3>3, WitnessHonest
  <2>5. ASSUME NEW s \in Status, StatusChanges(s)  PROVE HonestInv'
    BY <1>2, <2>0, <2>5, WitnessHonest DEF StatusChanges, HonestInv, WaitInv, CallsOK
  <2>6. ASSUME NEW c \in Client, Proceeds(c)  PROVE HonestInv'
    <3>1. status' = status /\ call \in [Client -> CallType]
      BY <2>0, <2>6 DEF Proceeds, TimePasses, PollAnswered, CheckStatus, Outcome, ReadProfile,
             lparVars,
                       CallsOK
    <3>2. \A d \in Client \ {c} : call'[d] = call[d]
      BY <2>6, <3>1 DEF Proceeds, TimePasses, PollAnswered, CheckStatus, Outcome
    <3>3. /\ call'[c].want = call[c].want /\ call'[c].hit = call[c].hit
          /\ call'[c].miss = call[c].miss
      BY <2>6, <3>1 DEF Proceeds, TimePasses, PollAnswered, CheckStatus, Outcome, CallType
    <3>4. /\ WaitInv(call[c])'
          /\ Waits(call'[c]) /\ call'[c].late => c \in Limited
          /\ call'[c].pc = "ok" /\ call'[c].want # {} => call'[c].hit
          /\ call'[c].pc = "timeout" => c \in Limited /\ call'[c].miss
      <4>0. /\ WaitInv(call[c]) /\ (Waits(call[c]) /\ call[c].late => c \in Limited)
            /\ call[c] \in CallType
        BY <1>2, <3>1 DEF HonestInv
      <4>1. CASE TimePasses(c)
        BY <3>1, <3>3, <4>0, <4>1 DEF TimePasses, WaitInv, Waits, CallType
      <4>2. CASE PollAnswered(c)
        BY <3>1, <3>3, <4>0, <4>2 DEF PollAnswered, WaitInv, Waits, CallType
      <4>3. CASE CheckStatus(c)
        BY <3>1, <3>3, <4>0, <4>3 DEF CheckStatus, Outcome, WaitInv, Waits, CallType
      <4>4. CASE ReadProfile(c) /\ call' = [call EXCEPT ![c].pc = "wait"]
        BY <3>1, <3>3, <4>0, <4>4 DEF ReadProfile, WaitInv, Waits, CallType
      <4> QED
        BY <2>6, <4>1, <4>2, <4>3, <4>4 DEF Proceeds
    <3> QED
      BY <1>2, <3>1, <3>2, <3>4 DEF HonestInv, WaitInv
  <2>7. CASE UNCHANGED vars
    BY <1>2, <2>7 DEF vars, lparVars, HonestInv, WaitInv
  <2> QED
    BY <1>2, <2>2, <2>3, <2>4, <2>5, <2>6, <2>7, StepKinds
<1>3. HonestInv => WaitOutcomeHonest
  BY DEF HonestInv, WaitOutcomeHonest, StatusReached, TimeoutJustified
<1> QED
  BY <1>1, <1>2, <1>3, TypeInductive, PTL DEF Spec
================================================================================
