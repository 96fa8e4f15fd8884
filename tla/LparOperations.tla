----------------------------- MODULE LparOperations -----------------------------
(***************************************************************************)
(* The operations on an LPAR of a CPC in classic mode, and the waiting for *)
(* its status (zhmcclient/_lpar.py), composed with the handlers of these   *)
(* operations in the mock HMC (zhmcclient/mock/_urihandler.py).            *)
(*                                                                         *)
(* Several clients operate on the same LPAR.  A call posts its operation,  *)
(* the HMC executes or rejects it, and the call then polls the status      *)
(* until it is a desired one or the status timeout is over.  The status    *)
(* follows an operation with a delay, and changes on its own.  The calls   *)
(* are those with wait_for_completion=True, the only ones the mock HMC     *)
(* accepts; the jobs behind them are the subject of HmcSession.            *)
(***************************************************************************)
EXTENDS Naturals, FiniteSets

CONSTANTS
    Client,       \* the users of the library
    Level,        \* the HMC version: 0 < 2.14.0, 1: 2.14.0, 2: 2.14.1, 3: 2.15.0, 4: 2.16.0
    AutoUpdated,  \* the LPAR manager of the clients is auto-updated
    AutoLoad,     \* the image profile has load-at-activation, or a mode that loads
    Limited,      \* the clients with a status timeout
    Tolerant,     \* the clients with allow_status_exceptions
    MaxCalls      \* bound: the calls of all clients together

ASSUME LparAssumption ==
    /\ Level \in 0..4
    /\ AutoUpdated \in BOOLEAN /\ AutoLoad \in BOOLEAN
    /\ Limited \subseteq Client /\ Tolerant \subseteq Client
    /\ MaxCalls \in Nat

VARIABLES
    status,   \* HMC: the status of the LPAR
    next,     \* HMC: next-activation-profile-name
    last,     \* HMC: last-used-load-address and last-used-load-type
    listed,   \* the status in the auto-updated list of resources
    call,     \* the call of each client
    calls     \* the number of calls so far

lparVars == <<status, next, last>>
vars     == <<lparVars, listed, call, calls>>

Status  == {"not-activated", "not-operating", "operating", "exceptions"}
Profile == {"none", "image", "load"}  \* None, the image profile of the LPAR, a load profile
Address == {"none", "dev1", "dev2"}
Kind    == {"none", "standard", "scsi", "scsidump", "nvme", "nvmedump", "ftp"}
Load    == [addr : Address, type : Kind]

MockOps  == {"activate", "deactivate", "load", "scsi-load", "scsi-dump", "nvme-load", "nvme-dump",
             "update"}
OtherOps == {"load-from-ftp", "stop", "start", "reset-clear", "reset-normal", "psw-restart"}
Resets   == {"reset-clear", "reset-normal"}

\* late: the status timeout is over; saw: the status that was polled; hit and miss, history:
\* the LPAR has had a desired, another status since the operation was executed.
NoCall == [pc |-> "idle", op |-> "none", force |-> FALSE, arg |-> "none", want |-> {},
           late |-> FALSE, saw |-> "none", hit |-> FALSE, miss |-> FALSE]

TypeOK ==
    /\ status \in Status
    /\ next \in Profile
    /\ last \in Load
    /\ listed \in Status
    /\ call \in [Client -> [pc : {"idle", "posted", "profile", "wait", "check", "ok", "error",
                                  "timeout"},
                            op : MockOps \cup OtherOps \cup {"none"},
                            force : BOOLEAN, arg : Profile \cup Address,
                            want : SUBSET Status, late : BOOLEAN,
                            saw : Status \cup {"none"}, hit : BOOLEAN, miss : BOOLEAN]]
    /\ calls \in 0..MaxCalls

Init ==
    /\ status \in {"not-activated", "operating"}
    /\ next \in {"none", "image"}
    /\ last = [addr |-> "none", type |-> "none"]
    /\ listed = status
    /\ call = [c \in Client |-> NoCall]
    /\ calls = 0

--------------------------------------------------------------------------------
(* Lpar: one method per operation *)

\* The call is posted; want is what wait_for_status() is going to wait for, without a
\* wait if it is empty.
Post(c, op, force, arg, want) ==
    /\ call[c].pc \in {"idle", "ok", "error", "timeout"}
    /\ calls < MaxCalls
    /\ calls' = calls + 1
    /\ call' = [call EXCEPT ![c] = [NoCall EXCEPT !.pc = "posted", !.op = op, !.force = force,
                 !.arg = arg, !.want = IF c \in Tolerant /\ want # {}
                                          THEN want \cup {"exceptions"} ELSE want]]
    /\ UNCHANGED <<lparVars, listed>>

\* The desired status of activate() is known once the image profile has been read.
Activate(c) ==
    \E force \in BOOLEAN, p \in Profile :
        Post(c, "activate", force, p,
             IF AutoLoad \/ p = "load" THEN {"operating"} ELSE {"not-operating"})

Deactivate(c) == \E force \in BOOLEAN : Post(c, "deactivate", force, "none", {"not-activated"})

LoadStandard(c) ==
    \E force \in BOOLEAN, a \in Address : Post(c, "load", force, a, {"operating"})

ScsiLoad(c) == \E force \in BOOLEAN : Post(c, "scsi-load", force, "dev1", {"operating"})
ScsiDump(c) == \E force \in BOOLEAN : Post(c, "scsi-dump", force, "dev2", {"operating"})
NvmeLoad(c) == \E force \in BOOLEAN : Post(c, "nvme-load", force, "dev1", {"operating"})
NvmeDump(c) == \E force \in BOOLEAN : Post(c, "nvme-dump", force, "dev2", {"operating"})

LoadFromFtp(c) == Post(c, "load-from-ftp", FALSE, "none", {"operating"})

\* These do not wait for a status: stopping and starting the processors, or a reset, may
\* lead to several.
Stop(c)        == Post(c, "stop", FALSE, "none", {})
Start(c)       == Post(c, "start", FALSE, "none", {})
ResetClear(c)  == \E force \in BOOLEAN : Post(c, "reset-clear", force, "none", {})
ResetNormal(c) == \E force \in BOOLEAN : Post(c, "reset-normal", force, "none", {})
PswRestart(c)  == Post(c, "psw-restart", FALSE, "none", {})

UpdateProperties(c) == \E p \in Profile : Post(c, "update", FALSE, p, {})

--------------------------------------------------------------------------------
(* The handlers of the HMC *)

Posted(c, op) == call[c].pc = "posted" /\ call[c].op = op

\* An operating LPAR is left alone unless the operation is forced.
Protected(c) == status = "operating" /\ ~call[c].force

Reject(c) ==
    /\ call' = [call EXCEPT ![c] = [NoCall EXCEPT !.pc = "error"]]
    /\ UNCHANGED <<lparVars, listed, calls>>

\* Calls that wait see every status from the moment their operation is executed.
Witness(cs, s) ==
    [d \in Client |-> IF cs[d].pc \in {"profile", "wait", "check"}
                         THEN [cs[d] EXCEPT !.hit = @ \/ s \in cs[d].want,
                                             !.miss = @ \/ s \notin cs[d].want]
                         ELSE cs[d]]

\* The operation is executed; get_status() of the handler gives the status after it.
Execute(c, s) ==
    /\ status' = s
    /\ call' = Witness([call EXCEPT ![c] = [NoCall EXCEPT !.want = call[c].want,
                          !.pc = IF call[c].want = {} THEN "ok"
                                 ELSE IF call[c].op = "activate" THEN "profile" ELSE "wait"]], s)
    /\ UNCHANGED <<listed, calls>>

\* A profile other than the image profile of the LPAR is not supported by the mock HMC.
LparActivate(c) ==
    /\ Posted(c, "activate")
    /\ LET p == IF call[c].arg = "none" THEN next ELSE call[c].arg
       IN IF Protected(c) \/ p # "image"
             THEN Reject(c)
             ELSE /\ \E s \in Status : Execute(c, s)
                  /\ UNCHANGED <<next, last>>

LparDeactivate(c) ==
    /\ Posted(c, "deactivate")
    /\ IF Protected(c) \/ (status = "not-activated" /\ ~call[c].force)
          THEN Reject(c)
          ELSE /\ \E s \in Status : Execute(c, s)
               /\ UNCHANGED <<next, last>>

\* What the loads have in common; newer HMCs record the address, and the type.
LoadDevice(c, type) ==
    IF status = "not-activated" \/ Protected(c)
       THEN Reject(c)
       ELSE /\ \E s \in Status \ {"not-activated"} : Execute(c, s)
            /\ last' = [addr |-> IF Level >= 1 THEN call[c].arg ELSE last.addr,
                       type |-> IF Level >= 3 THEN type ELSE last.type]
            /\ UNCHANGED next

\* Without an address, the load is from the last used one.
LparLoad(c) ==
    /\ Posted(c, "load")
    /\ LET a == IF call[c].arg = "none" THEN last.addr ELSE call[c].arg
       IN IF status = "not-activated" \/ Protected(c) \/ a = "none"
             THEN Reject(c)
             ELSE /\ \E s \in Status \ {"not-activated"} : Execute(c, s)
                  /\ last' = [last EXCEPT !.addr = a]
                  /\ UNCHANGED next

LparScsiLoad(c) ==
    /\ Posted(c, "scsi-load")
    /\ LoadDevice(c, "scsi")

LparNvmeLoad(c) ==
    /\ Posted(c, "nvme-load")
    /\ LoadDevice(c, "nvme")

LparScsiDump(c) ==
    /\ Posted(c, "scsi-dump")
    /\ LoadDevice(c, "scsidump")

\* Faulty variant of LparNvmeDump: the name of the operation is recorded as the type.
NvmeDumpByName(c) ==
    /\ Posted(c, "nvme-dump")
    /\ LoadDevice(c, call[c].op)

LparNvmeDump(c) ==
    /\ Posted(c, "nvme-dump")
    /\ LoadDevice(c, "nvmedump")

\* Also rejected while the status of the CPC is not valid, which this module leaves open.
LparUpdate(c) ==
    /\ Posted(c, "update")
    /\ \/ Reject(c)
       \/ /\ status # "not-activated"
          /\ Execute(c, status)
          /\ next' = call[c].arg
          /\ UNCHANGED last

\* An HMC may also execute the operations that the mock HMC does not have: an active LPAR
\* has one of these statuses, and is reset while it operates only with force.
Permits(c) ==
    \/ status = "not-operating"
    \/ status \in {"operating", "exceptions"} /\ (call[c].op \in Resets => call[c].force)

OtherOperation(c) ==
    /\ call[c].pc = "posted" /\ call[c].op \in OtherOps
    /\ \/ Reject(c)
       \/ /\ Permits(c)
          /\ \E s \in Status \ {"not-activated"} : Execute(c, s)
          /\ UNCHANGED <<next, last>>

--------------------------------------------------------------------------------
(* The environment *)

\* The status reaches its value after an operation, or changes for another reason.
StatusChanges(s) ==
    /\ s # status
    /\ status' = s
    /\ call' = Witness(call, s)
    /\ UNCHANGED <<next, last, listed, calls>>

\* The status timeout is over; 0 is no limit.
TimePasses(c) ==
    /\ call[c].pc \in {"wait", "check"} /\ c \in Limited /\ ~call[c].late
    /\ call' = [call EXCEPT ![c].late = TRUE]
    /\ UNCHANGED <<lparVars, listed, calls>>

--------------------------------------------------------------------------------
(* wait_for_status() *)

\* activate() finds the image profile and reads its load-at-activation.
ReadProfile(c) ==
    /\ call[c].pc = "profile"
    /\ \/ call' = [call EXCEPT ![c].pc = "wait"]
       \/ call' = [call EXCEPT ![c] = [NoCall EXCEPT !.pc = "error"]]
    /\ UNCHANGED <<lparVars, listed, calls>>

\* LparManager.list() with the name as a filter, then get_property().  An auto-updated
\* manager answers with the objects of its own list, and these keep the properties they
\* had when an add notification last made list() pull.
PollAnswered(c) ==
    /\ call[c].pc = "wait"
    /\ listed' \in IF AutoUpdated THEN {listed, status} ELSE {listed}
    /\ call' = [call EXCEPT ![c].pc = "check", ![c].saw = IF AutoUpdated THEN listed' ELSE status]
    /\ UNCHANGED <<lparVars, calls>>

\* A request of the poll fails, and with it the call: the operation has been executed.
PollFails(c) == call[c].pc = "wait" /\ Reject(c)

PollStatus(c) == PollAnswered(c) \/ PollFails(c)

\* The call returns, raises StatusTimeout, or sleeps and polls again.
Outcome(c, pc) ==
    /\ call' = [call EXCEPT ![c].pc = pc, ![c].saw = "none"]
    /\ UNCHANGED <<lparVars, listed, calls>>

\* Faulty variant of CheckStatus: any other status than before is the desired one.
CheckAnyChange(c) ==
    /\ call[c].pc = "check"
    /\ Outcome(c, IF call[c].saw # "exceptions" THEN "ok"
                  ELSE IF call[c].late THEN "timeout" ELSE "wait")

\* Faulty variant of CheckStatus: the timeout is not looked at.
CheckForever(c) ==
    /\ call[c].pc = "check"
    /\ Outcome(c, IF call[c].saw \in call[c].want THEN "ok" ELSE "wait")

\* A desired status is found even when the time is over.
CheckStatus(c) ==
    /\ call[c].pc = "check"
    /\ Outcome(c, IF call[c].saw \in call[c].want THEN "ok"
                  ELSE IF call[c].late THEN "timeout" ELSE "wait")

--------------------------------------------------------------------------------
ClientPosts(c) ==
    \/ Activate(c) \/ Deactivate(c) \/ LoadStandard(c) \/ ScsiLoad(c) \/ ScsiDump(c)
    \/ NvmeLoad(c) \/ NvmeDump(c) \/ LoadFromFtp(c) \/ Stop(c) \/ Start(c)
    \/ ResetClear(c) \/ ResetNormal(c) \/ PswRestart(c) \/ UpdateProperties(c)

HmcHandles(c) ==
    \/ LparActivate(c) \/ LparDeactivate(c) \/ LparLoad(c) \/ LparScsiLoad(c)
    \/ LparScsiDump(c) \/ LparNvmeLoad(c) \/ LparNvmeDump(c) \/ LparUpdate(c)
    \/ OtherOperation(c)

ClientWaits(c) == ReadProfile(c) \/ PollStatus(c) \/ CheckStatus(c)

Next ==
    \/ \E c \in Client : ClientPosts(c) \/ HmcHandles(c) \/ ClientWaits(c) \/ TimePasses(c)
    \/ \E s \in Status : StatusChanges(s)

Spec == Init /\ [][Next]_vars

\* The HMC answers, a call that waits goes on polling, and time passes.
Fairness ==
    \A c \in Client : WF_vars(HmcHandles(c)) /\ WF_vars(ClientWaits(c)) /\ WF_vars(TimePasses(c))

FairSpec == Spec /\ Fairness

--------------------------------------------------------------------------------
(* Properties *)

\* A method that waits returns only after the LPAR has had a desired status since the
\* operation was executed.  _lpar.py:2084: "Wait until the status of this LPAR has a
\* desired value."
StatusReached ==
    \A c \in Client : call[c].pc = "ok" /\ call[c].want # {} => call[c].hit

\* StatusTimeout is raised only if the LPAR has had another status in the meantime: when
\* the status is a desired one all the time, the timeout cannot win.
TimeoutJustified ==
    \A c \in Client : call[c].pc = "timeout" => c \in Limited /\ call[c].miss

\* What a call that waits reports is true of the LPAR, whichever of the status and the
\* status timeout wins.
WaitOutcomeHonest == StatusReached /\ TimeoutJustified

\* A call goes on waiting for ever only without a status timeout, and with a status that
\* is again and again not a desired one.
WaitEnds ==
    \A c \in Client :
        <>[](call[c].pc \in {"profile", "wait", "check"})
            => c \notin Limited /\ []<>(status \notin call[c].want)
================================================================================
