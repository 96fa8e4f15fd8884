------------------------------ MODULE HmcSession ------------------------------
(***************************************************************************)
(* One Session object and the Job of one of its operations                 *)
(* (zhmcclient/_session.py).                                               *)
(*                                                                         *)
(* A single user thread makes calls: get(), post() with and without        *)
(* waiting for an asynchronous operation, delete(), logon(), is_logon(),   *)
(* logoff().  Each HTTP exchange is one step with the outcomes the HMC and *)
(* the network allow: the HMC may be unreachable, the answer may get lost  *)
(* after the operation was executed, and between two exchanges HMC         *)
(* sessions expire and jobs proceed.  What a call does across its          *)
(* exchanges - choosing an HMC, logging on again when the session token    *)
(* has expired, retrying when the resource is busy, waiting for the job -  *)
(* is the subject of this module.                                          *)
(*                                                                         *)
(* Session tokens are numbered in the order in which HMCs issue them; 0 is *)
(* None.  A request that finds its token invalid gets HTTP status 403 with *)
(* reason 4 or 5; "busy" is 409 with reason 1 or 2.                        *)
(***************************************************************************)
EXTENDS Naturals, Sequences, FiniteSets

CONSTANTS
    Host,       \* the HMCs
    HostLists,  \* the lists of HMCs that a user may give
    NoHost,     \* no HMC
    BusyRetries,\* the busy_retries argument of post() and delete()
    HasTimeout, \* operation_timeout > 0
    MaxTokens   \* bound: sessions created

ASSUME SessionAssumption ==
    /\ HostLists \subseteq Seq(Host) \ {<<>>}
    /\ NoHost \notin Host
    /\ BusyRetries \in Nat
    /\ HasTimeout \in BOOLEAN
    /\ MaxTokens \in Nat \ {0}

VARIABLES
    issuer,    \* HMC: which HMC issued each token
    alive,     \* HMC: the tokens of sessions that exist
    lastToken, \* HMC: the last token issued
    job,       \* HMC: the job of the current call
    sid,       \* _session_id, and the credential and topics stored with it
    header,    \* X-API-Session in _headers
    base,      \* the HMC of _base_url
    actual,    \* _actual_host
    hosts,     \* _hosts: the HMCs, in the order in which they are tried
    hasPw,     \* a password, or a function to get one, was given
    measured,  \* the keeper of time statistics is enabled
    pc,        \* what the current call does next
    op,        \* the current call
    cont,      \* what it does after a logon
    host,      \* the index of the HMC being tried
    renew,     \* the renew_session argument of the current request
    busy,      \* the busy retries that are left
    open,      \* the post() calls of this call that measure its total time
    waiting,   \* the call waits for its job
    seen,      \* the end status found by the last query of the job
    late,      \* the operation timeout is over
    effects,   \* history: how often the HMC executed the call's operation
    undone,    \* history: the answer to the deletion of the job was lost
    forsaken,  \* history: tokens given up while their session may exist
    outcome    \* how the last call ended

hmcVars  == <<issuer, alive, lastToken, job>>
idVars   == <<sid, header>>
hostVars == <<base, actual>>
given    == <<hosts, hasPw, measured>>
reqVars  == <<op, renew, busy>>
jobVars  == <<waiting, seen, late, undone>>
vars     == <<hmcVars, idVars, hostVars, given, open, pc, reqVars, cont, host, jobVars,
              effects, forsaken, outcome>>

Token    == 1..MaxTokens
Call     == {"get", "version", "post", "postWait", "delete",
             "logon", "logonVerify", "logonAlways", "isLogonVerify", "logoff"}
Changing == {"post", "postWait", "delete"}
Outcome  == {"none", "ok", "true", "false", "httpError", "authError", "clientAuthError",
             "connError", "opError", "jobGone",
             "timeout", "runtimeError"}

HmcTypeOK ==
    /\ issuer \in [Token -> Host \cup {NoHost}]
    /\ alive \subseteq Token
    /\ lastToken \in 0..MaxTokens
    /\ job \in {"none", "running", "cancelPending", "complete", "failed", "canceled", "deleted"}

ObjectTypeOK ==
    /\ {sid, header} \subseteq 0..MaxTokens
    /\ {base, actual} \subseteq Host \cup {NoHost}
    /\ hosts \in HostLists
    /\ forsaken \subseteq Token

RequestTypeOK ==
    /\ op \in Call \cup {"none"}
    /\ busy \in 0..BusyRetries
    /\ open \in Nat
    /\ seen \in {"none", "complete", "failed"}
    /\ effects \in Nat

ControlTypeOK ==
    /\ pc \in {"idle", "probe", "found", "logonPost", "send", "jobGet", "jobDelete", "pause"}
    /\ cont \in {"end", "send", "jobGet", "jobDelete"}
    /\ host \in 1..Len(hosts)
    /\ outcome \in Outcome

FlagsTypeOK ==
    /\ hasPw \in BOOLEAN
    /\ measured \in BOOLEAN
    /\ renew \in BOOLEAN
    /\ waiting \in BOOLEAN
    /\ late \in BOOLEAN
    /\ undone \in BOOLEAN

TypeOK == HmcTypeOK /\ ObjectTypeOK /\ RequestTypeOK /\ ControlTypeOK /\ FlagsTypeOK

\* Session.__init__: without a session, or with the ID of one, which is only
\* accepted with a single HMC and need not be valid.
Init ==
    /\ hosts \in HostLists
    /\ \/ /\ sid = 0
          /\ lastToken = 0
          /\ alive = {}
          /\ base = NoHost
          /\ issuer = [t \in Token |-> NoHost]
       \/ /\ Len(hosts) = 1
          /\ sid = 1
          /\ lastToken = 1
          /\ alive \in {{}, {1}}
          /\ base = hosts[1]
          /\ issuer = [t \in Token |-> IF t = 1 THEN hosts[1] ELSE NoHost]
    /\ job = "none"
    /\ header = sid
    /\ actual = base
    /\ hasPw \in BOOLEAN
    /\ measured \in BOOLEAN
    /\ open = 0
    /\ pc = "idle"
    /\ op = "none"
    /\ cont = "end"
    /\ host = 1
    /\ renew = TRUE
    /\ busy = 0
    /\ waiting = FALSE
    /\ seen = "none"
    /\ late = FALSE
    /\ effects = 0
    /\ undone = FALSE
    /\ forsaken = {}
    /\ outcome = "none"

--------------------------------------------------------------------------------
(* The HMC and the clock *)

Expire(t) ==
    /\ t \in alive
    /\ alive' = alive \ {t}
    /\ UNCHANGED <<issuer, lastToken, job, idVars, hostVars, given, open, pc, reqVars,
                   cont, host,
                   jobVars, effects, forsaken, outcome>>

\* The job proceeds; some other client may cancel it.
JobProceeds ==
    /\ \/ job = "running" /\ job' \in {"complete", "failed", "cancelPending"}
       \/ job = "cancelPending" /\ job' \in {"canceled", "complete", "failed"}
    /\ UNCHANGED <<issuer, alive, lastToken, idVars, hostVars, given, open, pc, reqVars,
                   cont, host,
                   jobVars, effects, forsaken, outcome>>

TimePasses ==
    /\ waiting /\ ~late
    /\ late' = TRUE
    /\ UNCHANGED <<hmcVars, idVars, hostVars, given, open, pc, reqVars, cont, host,
                   waiting, seen, undone, effects, forsaken, outcome>>

\* A request with the current header, sent to the current base URL.
Accepted == header \in alive /\ issuer[header] = base

--------------------------------------------------------------------------------
(* How a call proceeds *)

\* Every post() that waits for completion ends the measurement of the total time
\* when it is left, but they all have the same record of begin and end: the
\* second end() finds it ended and raises RuntimeError.
Leave(o) ==
    /\ pc' = "idle"
    /\ outcome' = IF measured /\ open > 1 THEN "runtimeError" ELSE o

\* An exception leaves the call; wait_for_completion() catches ConnectionError.
Raise(e) ==
    IF waiting /\ e = "connError"
       THEN pc' = "pause" /\ UNCHANGED outcome
       ELSE Leave(e)

\* _determine_actual_host(): a single HMC is taken without trying it.
StartHostSearch(c) ==
    /\ pc' = IF Len(hosts) = 1 THEN "found" ELSE "probe"
    /\ host' = 1
    /\ cont' = c

\* A request was answered with 403.4 or 403.5.
TokenInvalid(c, e) ==
    /\ ~Accepted
    /\ forsaken' = IF header \in alive THEN forsaken \cup {header} ELSE forsaken
    /\ IF renew
          THEN StartHostSearch(c) /\ renew' = FALSE /\ UNCHANGED outcome
          ELSE Raise(e) /\ UNCHANGED <<host, cont, renew>>

\* The user starts a call.  logon() is part of every request that requires it.
Begin(o) ==
    /\ pc = "idle"
    /\ op' = o
    /\ renew' = (o \notin {"logonVerify", "isLogonVerify", "logoff"})
    /\ busy' = IF o \in Changing THEN BusyRetries ELSE 0
    /\ job' = "none"
    /\ waiting' = FALSE /\ seen' = "none" /\ late' = FALSE /\ undone' = FALSE
    /\ effects' = 0
    /\ outcome' = "none"
    /\ UNCHANGED <<issuer, alive, lastToken, idVars, hostVars, given>>

Request(o) ==
    /\ o \in {"get"} \cup Changing
    /\ Begin(o)
    /\ IF sid = 0
          THEN StartHostSearch("send")
          ELSE pc' = "send" /\ cont' = "end" /\ UNCHANGED host
    /\ open' = IF o = "postWait" /\ sid # 0 THEN 1 ELSE 0
    /\ UNCHANGED forsaken

\* Client.version_info() and the like: no logon, but an HMC must be chosen.
Version ==
    /\ Begin("version")
    /\ IF base = NoHost
          THEN StartHostSearch("send")
          ELSE pc' = "send" /\ cont' = "end" /\ UNCHANGED host
    /\ UNCHANGED forsaken
    /\ open' = 0

Logon ==
    /\ Begin("logon")
    /\ sid = 0
    /\ StartHostSearch("end")
    /\ UNCHANGED forsaken
    /\ open' = 0

\* always=True: the session that exists is not deleted.
LogonAlways ==
    /\ Begin("logonAlways")
    /\ StartHostSearch("end")
    /\ forsaken' = IF sid = 0 THEN forsaken ELSE forsaken \cup {sid}
    /\ open' = 0

\* logon(verify=True), is_logon(verify=True) and logoff() with a session ID.
WithSession(o) ==
    /\ o \in {"logonVerify", "isLogonVerify", "logoff"}
    /\ sid # 0
    /\ Begin(o)
    /\ pc' = "send" /\ cont' = "end"
    /\ UNCHANGED <<host, forsaken>>
    /\ open' = 0

--------------------------------------------------------------------------------
(* _determine_actual_host() and _do_logon() *)

ProbeOk ==
    /\ pc = "probe"
    /\ base' = hosts[host]
    /\ pc' = "found"
    /\ UNCHANGED <<hmcVars, idVars, actual, given, open, reqVars, cont, host, jobVars,
                   effects, forsaken, outcome>>

ProbeRejected ==
    /\ pc = "probe"
    /\ base' = hosts[host]
    /\ Raise("httpError")
    /\ UNCHANGED <<hmcVars, idVars, actual, given, open, reqVars, cont, host, jobVars,
                   effects, forsaken>>

ProbeFails ==
    /\ pc = "probe"
    /\ base' = hosts[host]
    /\ IF host < Len(hosts)
          THEN host' = host + 1 /\ UNCHANGED <<pc, outcome>>
          ELSE Raise("connError") /\ UNCHANGED host
    /\ UNCHANGED <<hmcVars, idVars, actual, given, open, reqVars, cont, jobVars, effects,
                   forsaken>>

\* Faulty variant of Found: the old token stays in the headers.
FoundKeepsToken ==
    /\ pc = "found"
    /\ base' = hosts[host]
    /\ actual' = hosts[host]
    /\ \/ op = "version" /\ pc' = cont /\ UNCHANGED outcome
       \/ op # "version" /\ ~hasPw /\ Raise("clientAuthError")
       \/ op # "version" /\ hasPw /\ pc' = "logonPost" /\ UNCHANGED outcome
    /\ UNCHANGED <<hmcVars, idVars, given, open, reqVars, cont, host, jobVars, effects,
                   forsaken>>

\* The HMC is chosen.  A logon needs a password; it drops the old token.
Found ==
    /\ pc = "found"
    /\ base' = hosts[host]
    /\ actual' = hosts[host]
    /\ \/ op = "version" /\ pc' = cont /\ UNCHANGED <<header, outcome>>
       \/ op # "version" /\ ~hasPw /\ Raise("clientAuthError") /\ UNCHANGED header
       \/ op # "version" /\ hasPw /\ pc' = "logonPost" /\ header' = 0 /\ UNCHANGED outcome
    /\ UNCHANGED <<hmcVars, sid, given, open, reqVars, cont, host, jobVars, effects,
                   forsaken>>

\* The HMC creates a session.
Issue ==
    /\ lastToken < MaxTokens
    /\ lastToken' = lastToken + 1
    /\ alive' = alive \cup {lastToken + 1}
    /\ issuer' = [issuer EXCEPT ![lastToken + 1] = base]

LogonOk ==
    /\ pc = "logonPost"
    /\ Issue
    /\ sid' = lastToken + 1 /\ header' = lastToken + 1
    /\ IF cont = "end" THEN Leave("ok") ELSE pc' = cont /\ UNCHANGED outcome
    /\ open' = IF cont = "send" /\ op = "postWait" THEN open + 1 ELSE open
    /\ UNCHANGED <<job, hostVars, given, reqVars, cont, host, jobVars, effects, forsaken>>

LogonLost ==
    /\ pc = "logonPost"
    /\ Issue
    /\ forsaken' = forsaken \cup {lastToken + 1}
    /\ Raise("connError")
    /\ UNCHANGED <<job, idVars, hostVars, given, open, reqVars, cont, host, jobVars,
                   effects>>

LogonFails ==
    /\ pc = "logonPost"
    /\ \E e \in {"connError", "authError", "httpError"} : Raise(e)
    /\ UNCHANGED <<hmcVars, idVars, hostVars, given, open, reqVars, cont, host, jobVars,
                   effects, forsaken>>

--------------------------------------------------------------------------------
(* The request of the call itself *)

\* logoff() ends with the object logged off, and ignores that the HMC could not
\* be reached or did not know the session.
ForgetSession(o) ==
    /\ Leave(o)
    /\ sid' = 0 /\ header' = 0
    /\ base' = NoHost /\ actual' = NoHost

\* Faulty variant of SendLost: a request is repeated when its answer is lost.
SendLostRepeats ==
    /\ pc = "send"
    /\ op \in {"get"} \cup Changing
    /\ Accepted
    /\ effects < 2
    /\ effects' = effects + 1
    /\ job' = IF op = "postWait" THEN "running" ELSE job
    /\ UNCHANGED <<issuer, alive, lastToken, idVars, hostVars, given, open, pc, reqVars,
                   cont, host,
                   jobVars, forsaken, outcome>>

\* Faulty variant of SendLost: a lost answer is taken for a rejection.
SendLostAsRejected ==
    /\ pc = "send"
    /\ op \in {"get"} \cup Changing
    /\ Accepted
    /\ effects' = effects + 1
    /\ job' = IF op = "postWait" THEN "running" ELSE job
    /\ Raise("httpError")
    /\ UNCHANGED <<issuer, alive, lastToken, idVars, hostVars, given, open, reqVars,
                   cont, host,
                   jobVars, forsaken>>

\* The HMC executes the operation; its answer does not arrive.
SendLost ==
    /\ pc = "send"
    /\ op \in {"get"} \cup Changing
    /\ Accepted
    /\ effects' = effects + 1
    /\ job' = IF op = "postWait" THEN "running" ELSE job
    /\ Raise("connError")
    /\ UNCHANGED <<issuer, alive, lastToken, idVars, hostVars, given, open, reqVars,
                   cont, host,
                   jobVars, forsaken>>

\* The HMC executes the operation and answers; an asynchronous one has only
\* begun, and its job is waited for.
SendOk ==
    /\ pc = "send"
    /\ op \in {"get"} \cup Changing
    /\ Accepted
    /\ effects' = effects + 1
    /\ IF op = "postWait"
          THEN /\ job' = "running" /\ waiting' = TRUE
               /\ pc' = "jobGet" /\ renew' = TRUE
               /\ UNCHANGED outcome
          ELSE Leave("ok") /\ UNCHANGED <<job, waiting, renew>>
    /\ UNCHANGED <<issuer, alive, lastToken, idVars, hostVars, given, open, op, busy,
                   cont, host,
                   seen, late, undone, forsaken>>

\* No answer, and nothing executed.
SendUnreachable ==
    /\ pc = "send"
    /\ CASE op = "logoff" ->
              /\ ForgetSession("ok")
              /\ forsaken' = IF header \in alive THEN forsaken \cup {header} ELSE forsaken
              /\ UNCHANGED <<cont, host>>
         [] op = "logonVerify" ->
              /\ StartHostSearch("end")
              /\ forsaken' = forsaken \cup {sid}
              /\ UNCHANGED <<idVars, hostVars, outcome>>
         [] OTHER ->
              /\ Raise("connError")
              /\ UNCHANGED <<idVars, hostVars, forsaken, cont, host>>
    /\ UNCHANGED <<hmcVars, given, open, reqVars, jobVars, effects>>

\* 403.4 or 403.5: log on again and repeat the request, once.
SendInvalid ==
    /\ pc = "send"
    /\ op \in {"get"} \cup Changing
    /\ TokenInvalid("send", "authError")
    /\ UNCHANGED <<hmcVars, idVars, hostVars, given, open, op, busy, jobVars, effects>>

\* Faulty variant of SendBusy: the retries are not limited.
SendBusyUnlimited ==
    /\ pc = "send"
    /\ op \in Changing
    /\ Accepted
    /\ busy' = busy - 1
    /\ renew' = FALSE
    /\ open' = IF op = "postWait" THEN open + 1 ELSE open
    /\ UNCHANGED <<hmcVars, idVars, hostVars, given, pc, op, cont, host, jobVars,
                   effects, forsaken, outcome>>

\* 409.1 or 409.2: repeat the request, without another renewal of the session.
SendBusy ==
    /\ pc = "send"
    /\ op \in Changing
    /\ Accepted
    /\ busy > 0
    /\ busy' = busy - 1
    /\ renew' = FALSE
    /\ open' = IF op = "postWait" THEN open + 1 ELSE open
    /\ UNCHANGED <<hmcVars, idVars, hostVars, given, pc, op, cont, host, jobVars,
                   effects, forsaken, outcome>>

\* Any other error status, or busy without retries left.
SendRejected ==
    /\ pc = "send"
    /\ op \in {"get"} \cup Changing => Accepted
    /\ IF op = "logonVerify"
          THEN StartHostSearch("end") /\ forsaken' = forsaken \cup {sid} /\ UNCHANGED outcome
          ELSE Raise("httpError") /\ UNCHANGED <<cont, host, forsaken>>
    /\ UNCHANGED <<hmcVars, idVars, hostVars, given, open, reqVars, jobVars, effects>>

VersionOk ==
    /\ pc = "send"
    /\ op = "version"
    /\ Leave("ok")
    /\ UNCHANGED <<hmcVars, idVars, hostVars, given, open, reqVars, cont, host, jobVars,
                   effects, forsaken>>

\* The reading of the console that verifies a session.
Verify ==
    /\ pc = "send"
    /\ op \in {"logonVerify", "isLogonVerify"}
    /\ \/ /\ Accepted
          /\ Leave(IF op = "logonVerify" THEN "ok" ELSE "true")
          /\ UNCHANGED <<cont, host>>
       \/ /\ ~Accepted
          /\ \/ op = "isLogonVerify" /\ Leave("false") /\ UNCHANGED <<cont, host>>
             \/ op = "logonVerify" /\ StartHostSearch("end") /\ UNCHANGED outcome
    /\ forsaken' = IF ~Accepted /\ op = "logonVerify" /\ header \in alive
                      THEN forsaken \cup {header} ELSE forsaken
    /\ UNCHANGED <<hmcVars, idVars, hostVars, given, open, reqVars, jobVars, effects>>

\* The HMC deletes the session, or does not know it.
Logoff ==
    /\ pc = "send"
    /\ op = "logoff"
    /\ alive' = IF Accepted THEN alive \ {header} ELSE alive
    /\ forsaken' = IF ~Accepted /\ sid \in alive THEN forsaken \cup {sid} ELSE forsaken
    /\ ForgetSession("ok")
    /\ UNCHANGED <<issuer, lastToken, job, given, open, reqVars, cont, host, jobVars,
                   effects>>

--------------------------------------------------------------------------------
(* Job.wait_for_completion() *)

\* GET and DELETE of the job are requests of their own, with their own renewal.
JobUnreachable ==
    /\ pc \in {"jobGet", "jobDelete"}
    /\ Raise("connError")
    /\ UNCHANGED <<hmcVars, idVars, hostVars, given, open, reqVars, cont, host, jobVars,
                   effects, forsaken>>

JobInvalid ==
    /\ pc \in {"jobGet", "jobDelete"}
    /\ TokenInvalid(pc, "authError")
    /\ UNCHANGED <<hmcVars, idVars, hostVars, given, open, op, busy, jobVars, effects>>

JobRejected ==
    /\ pc \in {"jobGet", "jobDelete"}
    /\ Accepted
    /\ Raise("httpError")
    /\ UNCHANGED <<hmcVars, idVars, hostVars, given, open, reqVars, cont, host, jobVars,
                   effects, forsaken>>

\* check_for_completion(): a job that is complete is deleted next; every other
\* status, "canceled" included, is taken for not ended.
JobGet ==
    /\ pc = "jobGet"
    /\ Accepted
    /\ CASE job \in {"complete", "failed"} ->
              pc' = "jobDelete" /\ renew' = TRUE /\ seen' = job /\ UNCHANGED outcome
         [] job = "deleted" -> Raise("jobGone") /\ UNCHANGED <<renew, seen>>
         [] OTHER -> pc' = "pause" /\ UNCHANGED <<renew, seen, outcome>>
    /\ UNCHANGED <<hmcVars, idVars, hostVars, given, open, op, busy, cont, host,
                   waiting, late, undone, effects, forsaken>>

JobDelete ==
    /\ pc = "jobDelete"
    /\ Accepted
    /\ job' = "deleted"
    /\ Leave(IF seen = "complete" THEN "ok" ELSE "opError")
    /\ UNCHANGED <<issuer, alive, lastToken, idVars, hostVars, given, open, reqVars,
                   cont, host,
                   jobVars, effects, forsaken>>

\* The job is deleted, but the answer is lost: the loop asks for it again.
JobDeleteLost ==
    /\ pc = "jobDelete"
    /\ Accepted
    /\ job' = "deleted"
    /\ undone' = TRUE
    /\ Raise("connError")
    /\ UNCHANGED <<issuer, alive, lastToken, idVars, hostVars, given, open, reqVars,
                   cont, host,
                   waiting, seen, late, effects, forsaken>>

\* Faulty variant of Pause: only a job that was seen to end can time out.
PauseIgnoresTimeout ==
    /\ pc = "pause"
    /\ IF HasTimeout /\ late /\ seen # "none"
          THEN Leave("timeout") /\ UNCHANGED renew
          ELSE pc' = "jobGet" /\ renew' = TRUE /\ UNCHANGED outcome
    /\ UNCHANGED <<hmcVars, idVars, hostVars, given, open, op, busy, cont, host, jobVars,
                   effects, forsaken>>

Pause ==
    /\ pc = "pause"
    /\ IF HasTimeout /\ late
          THEN Leave("timeout") /\ UNCHANGED renew
          ELSE pc' = "jobGet" /\ renew' = TRUE /\ UNCHANGED outcome
    /\ UNCHANGED <<hmcVars, idVars, hostVars, given, open, op, busy, cont, host, jobVars,
                   effects, forsaken>>

--------------------------------------------------------------------------------
User ==
    \/ \E o \in {"get"} \cup Changing : Request(o)
    \/ Version
    \/ Logon
    \/ LogonAlways
    \/ \E o \in {"logonVerify", "isLogonVerify", "logoff"} : WithSession(o)

Client ==
    \/ ProbeOk \/ ProbeRejected \/ ProbeFails \/ Found
    \/ LogonOk \/ LogonLost \/ LogonFails
    \/ SendLost \/ SendOk \/ SendUnreachable \/ SendInvalid \/ SendBusy \/ SendRejected
    \/ VersionOk \/ Verify \/ Logoff
    \/ JobUnreachable \/ JobInvalid \/ JobRejected
    \/ JobGet \/ JobDelete \/ JobDeleteLost \/ Pause

Next ==
    \/ \E t \in Token : Expire(t)
    \/ JobProceeds
    \/ TimePasses
    \/ User
    \/ Client

Spec == Init /\ [][Next]_vars

\* Every HTTP exchange ends, at the latest by its connect or read timeout, and
\* the clock advances.  Nothing makes the HMC reachable or a job end.
FairSpec == Spec /\ WF_vars(Client) /\ WF_vars(TimePasses)

--------------------------------------------------------------------------------
(* Properties *)

\* A call that changes something on the HMC is executed at most once, whatever
\* is retried: a new logon, a busy resource, a lost connection.
AtMostOnce == op \in Changing => effects <= 1

\* What a call reports is what happened: success means executed, a rejection
\* means not executed, and only a connection error leaves it open.
HonestOutcome ==
    pc = "idle" /\ op \in Changing =>
        /\ outcome \in {"ok", "opError", "timeout", "jobGone"} => effects = 1
        /\ outcome \in {"httpError", "authError", "clientAuthError"} /\ ~waiting => effects = 0

\* wait_for_completion() returns a result only of an operation that succeeded,
\* raises its error only for one that failed, and in both cases the job is
\* deleted.  It finds the job gone only if the answer to an earlier deletion got
\* lost.  That a result is never missed is not claimed: a deletion that is rejected
\* or does not reach the HMC hides it as well.
JobResultTrue ==
    pc = "idle" /\ waiting =>
        /\ outcome = "ok" => seen = "complete" /\ job = "deleted"
        /\ outcome = "opError" => seen = "failed" /\ job = "deleted"
        /\ outcome = "jobGone" => undone

\* The token in the headers is the session ID of the object, and when the base
\* URL is that of the chosen HMC, this HMC issued it.
TokenOfHost ==
    header # 0 => /\ header = sid
                  /\ base = actual => issuer[header] = base

\* No session is left behind on an HMC by the renewal of an expired one: every
\* session that exists is the one in use, unless a logon's answer was lost, a
\* logon with always or verify replaced it (the latter on any failure to verify),
\* or the request that used it went to another HMC or to none.
SessionsAccounted == alive \subseteq {sid} \cup forsaken

\* With an operation timeout, every call comes to an end.
CallsEnd == HasTimeout => (pc # "idle" ~> pc = "idle")

\* What a call reports is true, of its operation and of the job behind it.
ReportsHonest == HonestOutcome /\ JobResultTrue

\* The session in use is known, and no other is left behind unnoticed.
SessionKept == TokenOfHost /\ SessionsAccounted

\* The documentation of TimeStats.end(), _timestats.py:166-167 and 177-179: the
\* method "is not to be invoked by the user; it is invoked by the
\* implementation", and raises RuntimeError only "without a preceding call to"
\* begin(): no call of a Session method ends with it.
MeasurementsEnded == outcome # "runtimeError"
================================================================================
