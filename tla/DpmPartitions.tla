----------------------------- MODULE DpmPartitions -----------------------------
(***************************************************************************)
(* A CPC and its partitions: the operations on the CPC and the life cycle  *)
(* and the crypto configuration of the partitions (zhmcclient/_cpc.py and  *)
(* zhmcclient/_partition.py), composed with their handlers in the mock HMC *)
(* (zhmcclient/mock/_urihandler.py).                                       *)
(*                                                                         *)
(* Several clients operate on the same CPC.  The HMC handles a request     *)
(* atomically, so that a method that sends a single one is one action;     *)
(* start() and stop() then poll the status of the partition, and           *)
(* get_free_crypto_domains() reads the partitions one after the other      *)
(* before its caller assigns a domain that it found.                       *)
(***************************************************************************)
EXTENDS ClientCalls, Naturals, Sequences, FiniteSets, SequencesExt

CONSTANTS
    Limited,    \* the clients with a status timeout
    Partition,  \* the identities of partitions, each of them used once
    Domain      \* the domains of the crypto adapter

ASSUME PartitionAssumption == Limited \subseteq Client

VARIABLES
    dpm,       \* the CPC is in DPM mode
    cpc,       \* its status
    part,      \* the status of each partition, "none" and "gone" included
    iso,       \* the partitions with an ISO image
    crypto,    \* their crypto configuration: with the adapter, and entries <<domain, mode>>
    careless,  \* history: a domain was taken into use without having been found free
    call       \* the call of each client

partVars == <<part, iso, crypto>>
cpcVars  == <<dpm, cpc, partVars, careless, call, calls>>

\* "starting" stands for "stopping", too, and "paused" for "terminated".
CpcStatus  == {"active", "degraded", "not-operating", "operating", "no-power", "not-communicating"}
PartStatus == {"stopped", "starting", "active", "degraded", "paused"}
Mode       == {"control", "control-usage"}

LivePartitions == {p \in Partition : part[p] \in PartStatus}

\* op: what the call waits or looks for; late: the status timeout is over; saw: the status
\* that was polled; left: the partitions that are still to be read; used: the domains
\* in use on those read.  History: hit, the partition has had a desired status since
\* the request; raced, another client took a domain into use since the call began.
NoCall == [pc |-> "idle", on |-> {}, want |-> {}, late |-> FALSE, saw |-> "none",
           hit |-> FALSE, left |-> {}, used |-> {}, raced |-> FALSE]

CallType == [pc : {"idle", "wait", "check", "read", "assign", "ok", "error", "timeout"},
             on : {{}} \cup {{p} : p \in Partition}, want : SUBSET PartStatus,
             late : BOOLEAN, saw : PartStatus \cup {"none"}, hit : BOOLEAN,
             left : SUBSET Partition, used : SUBSET Domain, raced : BOOLEAN]

Config == [adapter : BOOLEAN, entries : Seq(Domain \X Mode)]

PartitionsTypeOK ==
    /\ dpm \in BOOLEAN
    /\ cpc \in CpcStatus
    /\ part \in [Partition -> PartStatus \cup {"none", "gone"}]
    /\ iso \subseteq Partition
    /\ crypto \in [Partition -> Config]
    /\ careless \in BOOLEAN
    /\ call \in [Client -> CallType]
    /\ \A c \in Client : (call[c].pc \in {"wait", "check"}) => call[c].on # {}
    /\ calls \in 0..MaxCalls

\* Domain d is in use by partition p.
Uses(cr, p, d) ==
    cr[p].adapter /\ \E i \in 1..Len(cr[p].entries) : cr[p].entries[i] = <<d, "control-usage">>

Usage(cr) == {pd \in Partition \X Domain : Uses(cr, pd[1], pd[2])}

PartitionsInit ==
    /\ dpm \in BOOLEAN
    /\ cpc \in IF dpm THEN {"active", "not-operating"} ELSE {"operating", "no-power"}
    /\ part \in IF dpm THEN {[p \in Partition |-> IF p \in ps THEN "stopped" ELSE "none"] :
                                ps \in {qs \in SUBSET Partition : Cardinality(qs) = 1}}
                       ELSE {[p \in Partition |-> "none"]}
    /\ iso = {}
    /\ crypto = [p \in Partition |-> [adapter |-> FALSE, entries |-> <<>>]]
    /\ careless = FALSE
    /\ call = [c \in Client |-> NoCall]
    /\ calls = 0

--------------------------------------------------------------------------------
(* Calls and their answers *)

BeginCall(c) ==
    /\ call[c].pc \in {"idle", "ok", "error", "timeout"}
    /\ Begin

Answer(c, pc) == call' = [call EXCEPT ![c] = [NoCall EXCEPT !.pc = pc]]

\* The request is rejected, and nothing has changed.
Rejected(c) ==
    /\ Answer(c, "error")
    /\ UNCHANGED <<dpm, cpc, partVars, careless>>

\* check_valid_cpc_status(), after the test for DPM mode.
ValidCpcStatus == dpm /\ cpc \in {"active", "degraded"}

\* check_partition_status(): only a partition that exists has one.
PartitionStatus(p, valid) == ValidCpcStatus /\ part[p] \in valid

--------------------------------------------------------------------------------
(* The CPC *)

SetCpc(c, ok, s) ==
    /\ BeginCall(c)
    /\ IF ok
          THEN /\ cpc' = s
               /\ Answer(c, "idle")
               /\ UNCHANGED <<dpm, partVars, careless>>
          ELSE Rejected(c)

\* The handlers of the mock HMC accept the requests under these conditions.
CpcStartAccepts == dpm
CpcStopAccepts  == dpm

\* An active CPC is left alone unless the operation is forced.
CpcActivateAccepts(force) ==
    ~dpm /\ cpc # "not-communicating" /\ (cpc \in {"active", "operating", "degraded"} => force)
CpcDeactivateAccepts(force) ==
    ~dpm /\ cpc # "not-communicating" /\ (cpc \in {"active", "operating", "degraded"} => force)

\* The partitions keep their status.
CpcStart(c)      == SetCpc(c, CpcStartAccepts, "active")
CpcStop(c)       == SetCpc(c, CpcStopAccepts, "not-operating")
CpcActivate(c)   == \E force \in BOOLEAN : SetCpc(c, CpcActivateAccepts(force), "operating")
CpcDeactivate(c) == \E force \in BOOLEAN : SetCpc(c, CpcDeactivateAccepts(force), "no-power")

--------------------------------------------------------------------------------
(* Partition: the life cycle *)

\* The handlers of the mock HMC accept the requests under these conditions.
Steady == PartStatus \ {"starting"}

StartAccepts(p)            == PartitionStatus(p, {"stopped"})
StopAccepts(p)             == PartitionStatus(p, {"active", "paused"})
CreateAccepts(p)           == ValidCpcStatus
DeleteAccepts(p)           == PartitionStatus(p, {"stopped"})
DumpPartitionAccepts(p)    == PartitionStatus(p, {"active", "paused"})
StartDumpProgramAccepts(p) == PartitionStatus(p, {"active", "degraded", "paused"})
PswRestartAccepts(p)       == PartitionStatus(p, {"active", "paused"})
MountIsoImageAccepts(p)    == PartitionStatus(p, Steady)
UnmountIsoImageAccepts(p)  == PartitionStatus(p, Steady)

\* A partition gets a new status; calls that wait for it see it.
SetStatus(p, s, cs) ==
    /\ part' = [part EXCEPT ![p] = s]
    /\ call' = [d \in Client |-> IF cs[d].on = {p} THEN [cs[d] EXCEPT !.hit = @ \/ s \in cs[d].want]
                                                   ELSE cs[d]]

\* The request sets the status, at once on the mock HMC and some time later on others
\* (deferred status behavior), and the call waits for a status in want.
SetAndWait(c, p, accepted, s, want) ==
    /\ BeginCall(c)
    /\ IF accepted
          THEN /\ \E t \in {s, part[p], "paused"} :
                     SetStatus(p, t, [call EXCEPT ![c] = [NoCall EXCEPT !.pc = "wait", !.on = {p},
                                                                        !.want = want]])
               /\ UNCHANGED <<dpm, cpc, iso, crypto, careless>>
          ELSE Rejected(c)

Start(c, p) == SetAndWait(c, p, StartAccepts(p), "active", {"active", "degraded"})
Stop(c, p)  == SetAndWait(c, p, StopAccepts(p), "stopped", {"stopped"})

\* A new partition has a new object ID.
Create(c, p) ==
    /\ BeginCall(c)
    /\ part[p] = "none"
    /\ IF CreateAccepts(p)
          THEN /\ SetStatus(p, "stopped", [call EXCEPT ![c] = NoCall])
               /\ UNCHANGED <<dpm, cpc, iso, crypto, careless>>
          ELSE Rejected(c)

Delete(c, p) ==
    /\ BeginCall(c)
    /\ IF DeleteAccepts(p)
          THEN /\ SetStatus(p, "gone", [call EXCEPT ![c] = NoCall])
               /\ iso' = iso \ {p}
               /\ crypto' = [crypto EXCEPT ![p] = [adapter |-> FALSE, entries |-> <<>>]]
               /\ UNCHANGED <<dpm, cpc, careless>>
          ELSE Rejected(c)

\* The mock HMC executes dumps and restarts without an effect.
NoEffect(c, accepted) ==
    /\ BeginCall(c)
    /\ IF accepted
          THEN Answer(c, "idle") /\ UNCHANGED <<dpm, cpc, partVars, careless>>
          ELSE Rejected(c)

DumpPartition(c, p)    == NoEffect(c, DumpPartitionAccepts(p))
StartDumpProgram(c, p) == NoEffect(c, StartDumpProgramAccepts(p))
PswRestart(c, p)       == NoEffect(c, PswRestartAccepts(p))

\* update_properties() reaches the generic handler, which looks neither at the mode and the
\* status of the CPC nor at that of the partition.  What users may update, names and
\* resources, no other operation of this module depends on, and is left out.
UpdatePropertiesAccepts(p) == part[p] \in PartStatus
UpdateProperties(c, p)     == NoEffect(c, UpdatePropertiesAccepts(p))

SetIso(c, accepted, new) ==
    /\ BeginCall(c)
    /\ IF accepted
          THEN /\ iso' = new
               /\ Answer(c, "idle")
               /\ UNCHANGED <<dpm, cpc, part, crypto, careless>>
          ELSE Rejected(c)

MountIsoImage(c, p)   == SetIso(c, MountIsoImageAccepts(p), iso \cup {p})
UnmountIsoImage(c, p) == SetIso(c, UnmountIsoImageAccepts(p), iso \ {p})

--------------------------------------------------------------------------------
(* wait_for_status() *)

\* Faulty variant of PollStatus: whatever the HMC has for the partition is its status.
PollDeleted(c) ==
    /\ call[c].pc = "wait"
    /\ \E p \in call[c].on : call' = [call EXCEPT ![c].pc = "check", ![c].saw = part[p]]
    /\ UNCHANGED <<dpm, cpc, partVars, careless, calls>>

\* get_properties_pulled(): the status is read from the HMC, if the partition still exists.
PollStatus(c) ==
    /\ call[c].pc = "wait"
    /\ \E p \in call[c].on :
          IF part[p] \in PartStatus
             THEN call' = [call EXCEPT ![c].pc = "check", ![c].saw = part[p]]
             ELSE Answer(c, "error")
    /\ UNCHANGED <<dpm, cpc, partVars, careless, calls>>

\* The status timeout is over; 0 is no limit.
TimePasses(c) ==
    /\ call[c].pc \in {"wait", "check"} /\ c \in Limited /\ ~call[c].late
    /\ call' = [call EXCEPT ![c].late = TRUE]
    /\ UNCHANGED <<dpm, cpc, partVars, careless, calls>>

\* Faulty variant of CheckStatus: a call whose time is over returns as well.
CheckGivesUp(c) ==
    /\ call[c].pc = "check"
    /\ call' = [call EXCEPT ![c].saw = "none",
                  ![c].pc = IF call[c].saw \in call[c].want \/ call[c].late THEN "ok" ELSE "wait"]
    /\ UNCHANGED <<dpm, cpc, partVars, careless, calls>>

\* The call returns, raises StatusTimeout, or sleeps and polls again.
CheckStatus(c) ==
    /\ call[c].pc = "check"
    /\ call' = [call EXCEPT ![c].saw = "none",
                  ![c].pc = IF call[c].saw \in call[c].want THEN "ok"
                            ELSE IF call[c].late THEN "timeout" ELSE "wait"]
    /\ UNCHANGED <<dpm, cpc, partVars, careless, calls>>

--------------------------------------------------------------------------------
(* Crypto configurations *)

\* The configuration of p changes.  The caller has found the domains to be free, or is
\* careless if they get into use.
SetCrypto(c, p, config, found) ==
    /\ crypto' = [crypto EXCEPT ![p] = config]
    /\ LET more == ~(Usage(crypto') \subseteq Usage(crypto))
       IN /\ careless' = (careless \/ (more /\ (~found \/ call[c].raced)))
          /\ call' = [d \in Client |-> IF d = c THEN NoCall
                                       ELSE IF call[d].pc \in {"read", "assign"}
                                       THEN [call[d] EXCEPT !.raced = @ \/ more] ELSE call[d]]
    /\ UNCHANGED <<dpm, cpc, part, iso>>

\* Handler of increase_crypto_config(): adapters and entries (here at most one) that the
\* configuration does not have yet are appended; entries of one domain can differ in mode.
Increased(config, adapter, entries) ==
    [adapter |-> config.adapter \/ adapter,
     entries |-> IF Range(entries) \subseteq Range(config.entries)
                    THEN config.entries ELSE config.entries \o entries]

IncreaseCrypto(c, p) ==
    /\ BeginCall(c)
    /\ \E adapter \in BOOLEAN, entries \in {<<>>} \cup {<<e>> : e \in Domain \X Mode} :
          IF PartitionStatus(p, Steady)
             THEN SetCrypto(c, p, Increased(crypto[p], adapter, entries), FALSE)
             ELSE Rejected(c)

\* Handler of decrease_crypto_config(): the entries are deleted while the handler enumerates
\* them, so that the entry after a deleted one is not looked at.
Kept(es, ds) ==
    LET done[i \in 0..Len(es)] ==
            IF i = 0 THEN [seq |-> <<>>, skip |-> FALSE]
            ELSE IF ~done[i - 1].skip /\ es[i][1] \in ds
                 THEN [seq |-> done[i - 1].seq, skip |-> TRUE]
                 ELSE [seq |-> Append(done[i - 1].seq, es[i]), skip |-> FALSE]
    IN  done[Len(es)].seq

Decreased(config, adapter, ds) ==
    [adapter |-> config.adapter /\ ~adapter, entries |-> Kept(config.entries, ds)]

DecreaseCrypto(c, p) ==
    /\ BeginCall(c)
    /\ \E adapter \in BOOLEAN, ds \in {{}} \cup {{d} : d \in Domain} :
          IF PartitionStatus(p, Steady)
             THEN SetCrypto(c, p, Decreased(crypto[p], adapter, ds), FALSE)
             ELSE Rejected(c)

\* Handler of change_crypto_domain_config(): every entry of the domain gets the mode.
Changed(config, d, m) ==
    [config EXCEPT !.entries = [i \in 1..Len(@) |-> IF @[i][1] = d THEN <<d, m>> ELSE @[i]]]

ChangeCrypto(c, p) ==
    /\ BeginCall(c)
    /\ \E d \in Domain, m \in Mode :
          IF PartitionStatus(p, Steady)
             THEN SetCrypto(c, p, Changed(crypto[p], d, m), FALSE)
             ELSE Rejected(c)

--------------------------------------------------------------------------------
(* get_free_crypto_domains() and the assignment of a domain found *)

\* The partitions are listed; a CPC that is not in DPM mode has none.
FindFree(c) ==
    /\ BeginCall(c)
    /\ call' = [call EXCEPT ![c] = [NoCall EXCEPT !.pc = "read", !.left = LivePartitions]]
    /\ UNCHANGED <<dpm, cpc, partVars, careless>>

\* Faulty variant of ReadPartition: a domain is free unless all partitions use it.
ReadLastPartition(c) ==
    /\ call[c].pc = "read"
    /\ \E p \in call[c].left :
          call' = [call EXCEPT ![c].left = @ \ {p}, ![c].used = {d \in Domain : Uses(crypto, p, d)}]
    /\ UNCHANGED <<dpm, cpc, partVars, careless, calls>>

\* The full properties of one partition are pulled, unless it has been deleted.
ReadPartition(c) ==
    /\ call[c].pc = "read"
    /\ \E p \in call[c].left :
          IF part[p] = "gone"
             THEN Answer(c, "error")
             ELSE call' = [call EXCEPT ![c].left = @ \ {p},
                             ![c].used = @ \cup {d \in Domain : Uses(crypto, p, d)}]
    /\ UNCHANGED <<dpm, cpc, partVars, careless, calls>>

FreeFound(c) ==
    /\ call[c].pc = "read" /\ call[c].left = {}
    /\ call' = [call EXCEPT ![c].pc = "assign"]
    /\ UNCHANGED <<dpm, cpc, partVars, careless, calls>>

\* The caller assigns a domain that it found with increase_crypto_config(), to a partition
\* that does not get other domains into use with that, or does without.
AssignFree(c, p) ==
    /\ call[c].pc = "assign"
    /\ crypto[p].adapter \/ crypto[p].entries = <<>>
    /\ \E d \in Domain \ call[c].used :
          IF PartitionStatus(p, Steady)
             THEN SetCrypto(c, p, Increased(crypto[p], TRUE, <<<<d, "control-usage">>>>), TRUE)
             ELSE Rejected(c)
    /\ UNCHANGED calls

LeaveFree(c) ==
    /\ call[c].pc = "assign"
    /\ Answer(c, "idle")
    /\ UNCHANGED <<dpm, cpc, partVars, careless, calls>>

--------------------------------------------------------------------------------
(* The environment: what happens on the CPC and in the partitions *)

\* The CPC degrades, or cannot be reached by the HMC.
CpcChanges ==
    /\ \/ dpm /\ cpc = "active" /\ cpc' = "degraded"
       \/ cpc # "not-communicating" /\ cpc' = "not-communicating"
    /\ UNCHANGED <<dpm, partVars, careless, call, calls>>

StatusChanges(p, s) ==
    /\ part[p] \in PartStatus /\ s \in PartStatus \ {part[p]}
    /\ SetStatus(p, s, call)
    /\ UNCHANGED <<dpm, cpc, iso, crypto, careless, calls>>

--------------------------------------------------------------------------------
CpcOperation(c) == CpcStart(c) \/ CpcStop(c) \/ CpcActivate(c) \/ CpcDeactivate(c)

PartitionOperation(c, p) ==
    \/ Start(c, p) \/ Stop(c, p) \/ Create(c, p) \/ Delete(c, p) \/ DumpPartition(c, p)
    \/ StartDumpProgram(c, p) \/ PswRestart(c, p) \/ UpdateProperties(c, p)
    \/ MountIsoImage(c, p) \/ UnmountIsoImage(c, p)
    \/ IncreaseCrypto(c, p) \/ DecreaseCrypto(c, p) \/ ChangeCrypto(c, p)

Proceed(c) ==
    \/ PollStatus(c) \/ CheckStatus(c) \/ ReadPartition(c) \/ FreeFound(c) \/ LeaveFree(c)
    \/ \E p \in Partition : AssignFree(c, p)

PartitionsNext ==
    \/ \E c \in Client :
          \/ CpcOperation(c) \/ FindFree(c) \/ Proceed(c) \/ TimePasses(c)
          \/ \E p \in Partition : PartitionOperation(c, p)
    \/ CpcChanges
    \/ \E p \in Partition, s \in PartStatus : StatusChanges(p, s)

PartitionsSpec == PartitionsInit /\ [][PartitionsNext]_cpcVars

--------------------------------------------------------------------------------
(* Properties *)

\* start() and stop() return only after the partition has had a desired status since
\* the request, however the other clients and the CPC change it meanwhile.
StatusReached == \A c \in Client : call[c].pc = "ok" => call[c].hit

\* Unless somebody was careless, no two partitions use the same domain: the domains that
\* get_free_crypto_domains() reports are free, although the partitions are read one by
\* one while others are created, deleted, and have their configuration decreased.
UsageExclusive ==
    careless \/ \A d \in Domain, p, q \in Partition :
                   Uses(crypto, p, d) /\ Uses(crypto, q, d) => p = q
================================================================================
