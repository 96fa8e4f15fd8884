--------------------------- MODULE HmcSession_proofs ---------------------------
(* Proofs about HmcSession, for any HMCs, lists of them, retries and tokens. *)
EXTENDS HmcSession, TLAPS

USE SessionAssumption DEF SessionAssumption

Search   == {"probe", "found", "logonPost"}
Own      == {"get"} \cup Changing
JobSteps == {"jobGet", "jobDelete"}

LEMMA HostsType ==
  ASSUME hosts \in HostLists
  PROVE  /\ Len(hosts) \in Nat \ {0}
         /\ \A i \in 1..Len(hosts) : hosts[i] \in Host
<1>1. hosts \in Seq(Host) /\ hosts # <<>>
  OBVIOUS
<1> QED
  BY <1>1

\* What the types rest on.
TypeInv ==
    /\ TypeOK
    /\ op = "version" /\ pc \in Search => cont = "send"
    /\ op = "logonVerify" /\ pc = "send" => sid # 0
    /\ waiting => op = "postWait"
    /\ pc \in JobSteps \cup {"pause"} => op = "postWait"
    /\ pc \in Search /\ cont \in JobSteps => op = "postWait"

--------------------------------------------------------------------------------
(* Types *)

LEMMA InitType == Init => TypeInv
<1> SUFFICES ASSUME Init  PROVE TypeInv
  OBVIOUS
<1>1. Len(hosts) \in Nat \ {0} /\ \A i \in 1..Len(hosts) : hosts[i] \in Host
  BY HostsType DEF Init
<1>2. /\ {sid, header} \subseteq 0..MaxTokens /\ lastToken \in 0..MaxTokens
      /\ {base, actual} \subseteq Host \cup {NoHost}
  BY <1>1 DEF Init
<1>3. alive \subseteq Token
  BY DEF Init, Token
<1>4. issuer \in [Token -> Host \cup {NoHost}]
  BY <1>1 DEF Init
<1>5. RequestTypeOK
  BY DEF Init, RequestTypeOK
<1>6. ControlTypeOK /\ FlagsTypeOK
  <2>1. ControlTypeOK
    BY <1>1 DEF Init, ControlTypeOK, Outcome
  <2>2. FlagsTypeOK
    BY DEF Init, FlagsTypeOK
  <2> QED
    BY <2>1, <2>2
<1>7. HmcTypeOK /\ ObjectTypeOK
  BY <1>2, <1>3, <1>4 DEF Init, HmcTypeOK, ObjectTypeOK
<1> QED
  BY <1>5, <1>6, <1>7 DEF Init, TypeInv, TypeOK, Search, JobSteps

LEMMA HmcType ==
  ASSUME TypeInv, (\E t \in Token : Expire(t)) \/ JobProceeds \/ TimePasses
  PROVE  TypeInv'
<1> USE DEF TypeInv, TypeOK, hmcVars, idVars, hostVars, given, reqVars, jobVars
<1>1. HmcTypeOK'
  BY DEF HmcTypeOK, Expire, JobProceeds, TimePasses
<1>2. ObjectTypeOK'
  BY DEF ObjectTypeOK, Expire, JobProceeds, TimePasses
<1>3. RequestTypeOK'
  BY DEF RequestTypeOK, Expire, JobProceeds, TimePasses
<1>4. ControlTypeOK' /\ (op = "version" /\ pc \in Search => cont = "send")'
  <2>1. UNCHANGED <<pc, cont, host, hosts, outcome, op>>
    BY DEF Expire, JobProceeds, TimePasses
  <2> QED
    BY <2>1 DEF ControlTypeOK, Search
<1>5. FlagsTypeOK'
  BY DEF FlagsTypeOK, Expire, JobProceeds, TimePasses
<1>6. /\ (op = "logonVerify" /\ pc = "send" => sid # 0)'
      /\ (waiting => op = "postWait")'
      /\ (pc \in JobSteps \cup {"pause"} => op = "postWait")'
      /\ (pc \in Search /\ cont \in JobSteps => op = "postWait")'
  BY DEF Expire, JobProceeds, TimePasses
<1> QED
  BY <1>1, <1>2, <1>3, <1>4, <1>5, <1>6

LEMMA BeginType ==
  ASSUME TypeOK, NEW o \in Call, Begin(o)
  PROVE  /\ HmcTypeOK'
         /\ forsaken' \subseteq Token => ObjectTypeOK'
         /\ open' \in Nat => RequestTypeOK'
         /\ FlagsTypeOK'
         /\ op' = o /\ hosts' = hosts /\ outcome' \in Outcome
<1> USE DEF TypeOK, Begin, idVars, hostVars, given
<1>1. HmcTypeOK'
  BY DEF HmcTypeOK
<1>2. forsaken' \subseteq Token => ObjectTypeOK'
  BY DEF ObjectTypeOK
<1>3. open' \in Nat => RequestTypeOK'
  BY DEF RequestTypeOK
<1>4. FlagsTypeOK'
  BY DEF FlagsTypeOK
<1> QED
  BY <1>1, <1>2, <1>3, <1>4 DEF Outcome

\* A search starts with the first HMC, and there is one.
LEMMA SearchType ==
  ASSUME ObjectTypeOK, NEW c, StartHostSearch(c)
  PROVE  pc' \in {"probe", "found"} /\ host' \in 1..Len(hosts) /\ cont' = c
BY HostsType DEF StartHostSearch, ObjectTypeOK

LEMMA UserType ==
  ASSUME TypeInv, User
  PROVE  TypeInv'
<1>0. TypeOK /\ HmcTypeOK /\ ObjectTypeOK /\ ControlTypeOK
  BY DEF TypeInv, TypeOK
<1> DEFINE Started(o) ==
      /\ o \in Call /\ Begin(o)
      /\ pc' \in {"probe", "found", "send"} /\ host' \in 1..Len(hosts)
      /\ cont' \in {"send", "end"} /\ open' \in Nat /\ forsaken' \subseteq Token
      /\ o = "version" /\ pc' # "send" => cont' = "send"
      /\ o = "logonVerify" => sid # 0
<1>1. ASSUME NEW o \in Own, Request(o)  PROVE \E x : Started(x)
  <2>1. o \in Call /\ o \notin {"version", "logonVerify"}
    BY DEF Own, Changing, Call
  <2>2. Started(o)
    BY <1>0, <1>1, <2>1, SearchType DEF Request, ObjectTypeOK, ControlTypeOK
  <2> QED
    BY <2>2
<1>2. ASSUME Version  PROVE \E x : Started(x)
  <2>1. Started("version")
    BY <1>0, <1>2, SearchType DEF Version, ObjectTypeOK, ControlTypeOK, Call
  <2> QED
    BY <2>1
<1>3. ASSUME Logon  PROVE \E x : Started(x)
  <2>1. Started("logon")
    BY <1>0, <1>3, SearchType DEF Logon, ObjectTypeOK, Call
  <2> QED
    BY <2>1
<1>4. ASSUME LogonAlways  PROVE \E x : Started(x)
  <2>1. sid = 0 \/ sid \in Token
    BY <1>0 DEF ObjectTypeOK, Token
  <2>2. forsaken' \subseteq Token
    BY <1>0, <1>4, <2>1 DEF LogonAlways, ObjectTypeOK
  <2>3. Started("logonAlways")
    BY <1>0, <1>4, <2>2, SearchType DEF LogonAlways, Call
  <2> QED
    BY <2>3
<1>5. ASSUME NEW o \in {"logonVerify", "isLogonVerify", "logoff"}, WithSession(o)
      PROVE  \E x : Started(x)
  <2>1. Started(o)
    BY <1>0, <1>5 DEF WithSession, ObjectTypeOK, ControlTypeOK, Call
  <2> QED
    BY <2>1
<1>6. \E x : Started(x)
  BY <1>1, <1>2, <1>3, <1>4, <1>5 DEF User, Own
<1>7. PICK o : Started(o)
  BY <1>6
<1>8. HmcTypeOK' /\ ObjectTypeOK' /\ RequestTypeOK' /\ FlagsTypeOK'
  BY <1>0, <1>7, BeginType
<1>9. ControlTypeOK' /\ (op = "version" /\ pc \in Search => cont = "send")'
  BY <1>0, <1>7, BeginType DEF ControlTypeOK, Search
<1>10. /\ (op = "logonVerify" /\ pc = "send" => sid # 0)'
       /\ (waiting => op = "postWait")'
       /\ (pc \in JobSteps \cup {"pause"} => op = "postWait")'
       /\ (pc \in Search /\ cont \in JobSteps => op = "postWait")'
  BY <1>7 DEF Begin, idVars, JobSteps
<1> QED
  BY <1>8, <1>9, <1>10 DEF TypeInv, TypeOK

LEMMA LogonType ==
  ASSUME TypeInv,
         \/ ProbeOk \/ ProbeRejected \/ ProbeFails \/ Found \/ LogonOk
         \/ LogonLost \/ LogonFails
  PROVE  TypeInv'
<1> USE DEF TypeInv, TypeOK, hmcVars, idVars, hostVars, given, reqVars, jobVars
<1>0. Len(hosts) \in Nat \ {0} /\ \A i \in 1..Len(hosts) : hosts[i] \in Host
  BY HostsType DEF ObjectTypeOK
<1>1. CASE ProbeOk
  <2>1. HmcTypeOK'
    BY <1>1 DEF ProbeOk, HmcTypeOK, ObjectTypeOK, Token
  <2>2. ObjectTypeOK'
    BY <1>0, <1>1 DEF ProbeOk, HmcTypeOK, ObjectTypeOK, ControlTypeOK, Token
  <2>3. RequestTypeOK'
    BY <1>1 DEF ProbeOk, RequestTypeOK
  <2>4. ControlTypeOK' /\ (op = "version" /\ pc \in Search => cont = "send")'
    BY <1>0, <1>1 DEF ProbeOk, ControlTypeOK, Search, Outcome
  <2>5. FlagsTypeOK'
    BY <1>1 DEF ProbeOk, FlagsTypeOK
  <2>6. /\ (op = "logonVerify" /\ pc = "send" => sid # 0)'
        /\ (waiting => op = "postWait")'
        /\ (pc \in JobSteps \cup {"pause"} => op = "postWait")'
        /\ (pc \in Search /\ cont \in JobSteps => op = "postWait")'
    BY <1>0, <1>1 DEF Search, JobSteps, ProbeOk, HmcTypeOK
  <2> QED
    BY <2>1, <2>2, <2>3, <2>4, <2>5, <2>6
<1>2. CASE ProbeRejected
  <2>1. HmcTypeOK'
    BY <1>2 DEF ProbeRejected, HmcTypeOK, ObjectTypeOK, Token, Raise, Leave
  <2>2. ObjectTypeOK'
    BY <1>0, <1>2 DEF ProbeRejected, HmcTypeOK, ObjectTypeOK, ControlTypeOK, Token, Raise, Leave
  <2>3. RequestTypeOK'
    BY <1>2 DEF ProbeRejected, RequestTypeOK, Raise, Leave
  <2>4. ControlTypeOK' /\ (op = "version" /\ pc \in Search => cont = "send")'
    BY <1>0, <1>2 DEF ProbeRejected, ControlTypeOK, Search, Outcome, Raise, Leave
  <2>5. FlagsTypeOK'
    BY <1>2 DEF ProbeRejected, FlagsTypeOK, Raise, Leave
  <2>6. /\ (op = "logonVerify" /\ pc = "send" => sid # 0)'
        /\ (waiting => op = "postWait")'
        /\ (pc \in JobSteps \cup {"pause"} => op = "postWait")'
        /\ (pc \in Search /\ cont \in JobSteps => op = "postWait")'
    BY <1>0, <1>2 DEF Search, JobSteps, ProbeRejected, HmcTypeOK, Raise, Leave
  <2> QED
    BY <2>1, <2>2, <2>3, <2>4, <2>5, <2>6
<1>3. CASE ProbeFails
  <2>1. HmcTypeOK'
    BY <1>3 DEF ProbeFails, HmcTypeOK, ObjectTypeOK, Token, Raise, Leave
  <2>2. ObjectTypeOK'
    BY <1>0, <1>3 DEF ProbeFails, HmcTypeOK, ObjectTypeOK, ControlTypeOK, Token, Raise, Leave
  <2>3. RequestTypeOK'
    BY <1>3 DEF ProbeFails, RequestTypeOK, Raise, Leave
  <2>4. ControlTypeOK' /\ (op = "version" /\ pc \in Search => cont = "send")'
    BY <1>0, <1>3 DEF ProbeFails, ControlTypeOK, Search, Outcome, Raise, Leave
  <2>5. FlagsTypeOK'
    BY <1>3 DEF ProbeFails, FlagsTypeOK, Raise, Leave
  <2>6. /\ (op = "logonVerify" /\ pc = "send" => sid # 0)'
        /\ (waiting => op = "postWait")'
        /\ (pc \in JobSteps \cup {"pause"} => op = "postWait")'
        /\ (pc \in Search /\ cont \in JobSteps => op = "postWait")'
    BY <1>0, <1>3 DEF Search, JobSteps, ProbeFails, HmcTypeOK, Raise, Leave
  <2> QED
    BY <2>1, <2>2, <2>3, <2>4, <2>5, <2>6
<1>4. CASE Found
  <2>1. HmcTypeOK'
    BY <1>4 DEF Found, HmcTypeOK, ObjectTypeOK, Token, Raise, Leave
  <2>2. ObjectTypeOK'
    BY <1>0, <1>4 DEF Found, HmcTypeOK, ObjectTypeOK, ControlTypeOK, Token, Raise, Leave
  <2>3. RequestTypeOK'
    BY <1>4 DEF Found, RequestTypeOK, Raise, Leave
  <2>4. ControlTypeOK' /\ (op = "version" /\ pc \in Search => cont = "send")'
    BY <1>0, <1>4 DEF Found, ControlTypeOK, Search, Outcome, Raise, Leave
  <2>5. FlagsTypeOK'
    BY <1>4 DEF Found, FlagsTypeOK, Raise, Leave
  <2>6. /\ (op = "logonVerify" /\ pc = "send" => sid # 0)'
        /\ (waiting => op = "postWait")'
        /\ (pc \in JobSteps \cup {"pause"} => op = "postWait")'
        /\ (pc \in Search /\ cont \in JobSteps => op = "postWait")'
    BY <1>0, <1>4 DEF Search, JobSteps, Found, HmcTypeOK, Raise, Leave
  <2> QED
    BY <2>1, <2>2, <2>3, <2>4, <2>5, <2>6
<1>5. CASE LogonOk
  <2>1. HmcTypeOK'
    BY <1>5 DEF LogonOk, HmcTypeOK, ObjectTypeOK, Token, Issue, Leave
  <2>2. ObjectTypeOK'
    BY <1>0, <1>5 DEF LogonOk, HmcTypeOK, ObjectTypeOK, ControlTypeOK, Token, Issue, Leave
  <2>3. RequestTypeOK'
    BY <1>5 DEF LogonOk, RequestTypeOK, Issue, Leave
  <2>4. ControlTypeOK' /\ (op = "version" /\ pc \in Search => cont = "send")'
    BY <1>0, <1>5 DEF LogonOk, ControlTypeOK, Search, Outcome, Issue, Leave
  <2>5. FlagsTypeOK'
    BY <1>5 DEF LogonOk, FlagsTypeOK, Issue, Leave
  <2>6. /\ (op = "logonVerify" /\ pc = "send" => sid # 0)'
        /\ (waiting => op = "postWait")'
        /\ (pc \in JobSteps \cup {"pause"} => op = "postWait")'
        /\ (pc \in Search /\ cont \in JobSteps => op = "postWait")'
    BY <1>5 DEF Search, JobSteps, LogonOk, HmcTypeOK, ControlTypeOK, Issue, Leave
  <2> QED
    BY <2>1, <2>2, <2>3, <2>4, <2>5, <2>6
<1>6. CASE LogonLost
  <2>1. HmcTypeOK'
    BY <1>6 DEF LogonLost, HmcTypeOK, ObjectTypeOK, Token, Issue, Raise, Leave
  <2>2. ObjectTypeOK'
    BY <1>0, <1>6 DEF LogonLost, HmcTypeOK, ObjectTypeOK, ControlTypeOK, Token, Issue, Raise, Leave
  <2>3. RequestTypeOK'
    BY <1>6 DEF LogonLost, RequestTypeOK, Issue, Raise, Leave
  <2>4. ControlTypeOK' /\ (op = "version" /\ pc \in Search => cont = "send")'
    BY <1>0, <1>6 DEF LogonLost, ControlTypeOK, Search, Outcome, Issue, Raise, Leave
  <2>5. FlagsTypeOK'
    BY <1>6 DEF LogonLost, FlagsTypeOK, Issue, Raise, Leave
  <2>6. /\ (op = "logonVerify" /\ pc = "send" => sid # 0)'
        /\ (waiting => op = "postWait")'
        /\ (pc \in JobSteps \cup {"pause"} => op = "postWait")'
        /\ (pc \in Search /\ cont \in JobSteps => op = "postWait")'
    BY <1>0, <1>6 DEF Search, JobSteps, LogonLost, HmcTypeOK, Issue, Raise, Leave
  <2> QED
    BY <2>1, <2>2, <2>3, <2>4, <2>5, <2>6
<1>7. CASE LogonFails
  <2>1. HmcTypeOK'
    BY <1>7 DEF LogonFails, HmcTypeOK, ObjectTypeOK, Token, Raise, Leave
  <2>2. ObjectTypeOK'
    BY <1>0, <1>7 DEF LogonFails, HmcTypeOK, ObjectTypeOK, ControlTypeOK, Token, Raise, Leave
  <2>3. RequestTypeOK'
    BY <1>7 DEF LogonFails, RequestTypeOK, Raise, Leave
  <2>4. ControlTypeOK' /\ (op = "version" /\ pc \in Search => cont = "send")'
    BY <1>0, <1>7 DEF LogonFails, ControlTypeOK, Search, Outcome, Raise, Leave
  <2>5. FlagsTypeOK'
    BY <1>7 DEF LogonFails, FlagsTypeOK, Raise, Leave
  <2>6. /\ (op = "logonVerify" /\ pc = "send" => sid # 0)'
        /\ (waiting => op = "postWait")'
        /\ (pc \in JobSteps \cup {"pause"} => op = "postWait")'
        /\ (pc \in Search /\ cont \in JobSteps => op = "postWait")'
    BY <1>0, <1>7 DEF Search, JobSteps, LogonFails, HmcTypeOK, Raise, Leave
  <2> QED
    BY <2>1, <2>2, <2>3, <2>4, <2>5, <2>6
<1> QED
  BY <1>1, <1>2, <1>3, <1>4, <1>5, <1>6, <1>7

LEMMA SendType ==
  ASSUME TypeInv,
         \/ SendLost \/ SendOk \/ SendUnreachable \/ SendInvalid \/ SendBusy
         \/ SendRejected \/ VersionOk \/ Verify \/ Logoff
  PROVE  TypeInv'
<1> USE DEF TypeInv, TypeOK, hmcVars, idVars, hostVars, given, reqVars, jobVars
<1>0. Len(hosts) \in Nat \ {0} /\ \A i \in 1..Len(hosts) : hosts[i] \in Host
  BY HostsType DEF ObjectTypeOK
<1>1. CASE SendLost
  <2>1. HmcTypeOK'
    BY <1>1 DEF SendLost, HmcTypeOK, ObjectTypeOK, Token, Raise, Leave
  <2>2. ObjectTypeOK'
    BY <1>0, <1>1 DEF SendLost, HmcTypeOK, ObjectTypeOK, ControlTypeOK, Token, Raise, Leave
  <2>3. RequestTypeOK'
    BY <1>1 DEF SendLost, RequestTypeOK, Raise, Leave
  <2>4. ControlTypeOK' /\ (op = "version" /\ pc \in Search => cont = "send")'
    BY <1>0, <1>1 DEF SendLost, ControlTypeOK, Search, Outcome, Raise, Leave
  <2>5. FlagsTypeOK'
    BY <1>1 DEF SendLost, FlagsTypeOK, Raise, Leave
  <2>6. /\ (op = "logonVerify" /\ pc = "send" => sid # 0)'
        /\ (waiting => op = "postWait")'
        /\ (pc \in JobSteps \cup {"pause"} => op = "postWait")'
        /\ (pc \in Search /\ cont \in JobSteps => op = "postWait")'
    BY <1>0, <1>1 DEF Search, JobSteps, SendLost, HmcTypeOK, Raise, Leave
  <2> QED
    BY <2>1, <2>2, <2>3, <2>4, <2>5, <2>6
<1>2. CASE SendOk
  <2>1. HmcTypeOK'
    BY <1>2 DEF SendOk, HmcTypeOK, ObjectTypeOK, Token, Leave
  <2>2. ObjectTypeOK'
    BY <1>0, <1>2 DEF SendOk, HmcTypeOK, ObjectTypeOK, ControlTypeOK, Token, Leave
  <2>3. RequestTypeOK'
    BY <1>2 DEF SendOk, RequestTypeOK, Leave
  <2>4. ControlTypeOK' /\ (op = "version" /\ pc \in Search => cont = "send")'
    BY <1>0, <1>2 DEF SendOk, ControlTypeOK, Search, Outcome, Leave
  <2>5. FlagsTypeOK'
    BY <1>2 DEF SendOk, FlagsTypeOK, Leave
  <2>6. /\ (op = "logonVerify" /\ pc = "send" => sid # 0)'
        /\ (waiting => op = "postWait")'
        /\ (pc \in JobSteps \cup {"pause"} => op = "postWait")'
        /\ (pc \in Search /\ cont \in JobSteps => op = "postWait")'
    BY <1>0, <1>2 DEF Search, JobSteps, SendOk, HmcTypeOK, Leave
  <2> QED
    BY <2>1, <2>2, <2>3, <2>4, <2>5, <2>6
<1>3. CASE SendUnreachable
  <2>1. HmcTypeOK'
    BY <1>3 DEF SendUnreachable, HmcTypeOK, ObjectTypeOK, Token, ForgetSession, Raise, Leave,
           StartHostSearch
  <2>2. ObjectTypeOK'
    BY <1>0, <1>3 DEF SendUnreachable, HmcTypeOK, ObjectTypeOK, ControlTypeOK, Token, ForgetSession,
           Raise, Leave, StartHostSearch
  <2>3. RequestTypeOK'
    BY <1>3 DEF SendUnreachable, RequestTypeOK, ForgetSession, Raise, Leave, StartHostSearch
  <2>4. ControlTypeOK' /\ (op = "version" /\ pc \in Search => cont = "send")'
    BY <1>0, <1>3 DEF SendUnreachable, ControlTypeOK, Search, Outcome, ForgetSession, Raise, Leave,
           StartHostSearch
  <2>5. FlagsTypeOK'
    BY <1>3 DEF SendUnreachable, FlagsTypeOK, ForgetSession, Raise, Leave, StartHostSearch
  <2>6. /\ (op = "logonVerify" /\ pc = "send" => sid # 0)'
        /\ (waiting => op = "postWait")'
        /\ (pc \in JobSteps \cup {"pause"} => op = "postWait")'
        /\ (pc \in Search /\ cont \in JobSteps => op = "postWait")'
    BY <1>0, <1>3 DEF Search, JobSteps, SendUnreachable, HmcTypeOK, ForgetSession, Raise, Leave,
           StartHostSearch
  <2> QED
    BY <2>1, <2>2, <2>3, <2>4, <2>5, <2>6
<1>4. CASE SendInvalid
  <2>1. HmcTypeOK'
    BY <1>4 DEF SendInvalid, HmcTypeOK, ObjectTypeOK, Token, TokenInvalid, Raise, Leave,
           StartHostSearch
  <2>2. ObjectTypeOK'
    BY <1>0, <1>4 DEF SendInvalid, HmcTypeOK, ObjectTypeOK, ControlTypeOK, Token, TokenInvalid,
           Raise, Leave, StartHostSearch
  <2>3. RequestTypeOK'
    BY <1>4 DEF SendInvalid, RequestTypeOK, TokenInvalid, Raise, Leave, StartHostSearch
  <2>4. ControlTypeOK' /\ (op = "version" /\ pc \in Search => cont = "send")'
    BY <1>0, <1>4 DEF SendInvalid, ControlTypeOK, Search, Outcome, TokenInvalid, Raise, Leave,
           StartHostSearch
  <2>5. FlagsTypeOK'
    BY <1>4 DEF SendInvalid, FlagsTypeOK, TokenInvalid, Raise, Leave, StartHostSearch
  <2>6. /\ (op = "logonVerify" /\ pc = "send" => sid # 0)'
        /\ (waiting => op = "postWait")'
        /\ (pc \in JobSteps \cup {"pause"} => op = "postWait")'
        /\ (pc \in Search /\ cont \in JobSteps => op = "postWait")'
    BY <1>0, <1>4 DEF Search, JobSteps, SendInvalid, HmcTypeOK, TokenInvalid, Raise, Leave,
           StartHostSearch
  <2> QED
    BY <2>1, <2>2, <2>3, <2>4, <2>5, <2>6
<1>5. CASE SendBusy
  <2>1. HmcTypeOK'
    BY <1>5 DEF SendBusy, HmcTypeOK, ObjectTypeOK, Token
  <2>2. ObjectTypeOK'
    BY <1>0, <1>5 DEF SendBusy, HmcTypeOK, ObjectTypeOK, ControlTypeOK, Token
  <2>3. RequestTypeOK'
    BY <1>5 DEF SendBusy, RequestTypeOK
  <2>4. ControlTypeOK' /\ (op = "version" /\ pc \in Search => cont = "send")'
    BY <1>0, <1>5 DEF SendBusy, ControlTypeOK, Search, Outcome
  <2>5. FlagsTypeOK'
    BY <1>5 DEF SendBusy, FlagsTypeOK
  <2>6. /\ (op = "logonVerify" /\ pc = "send" => sid # 0)'
        /\ (waiting => op = "postWait")'
        /\ (pc \in JobSteps \cup {"pause"} => op = "postWait")'
        /\ (pc \in Search /\ cont \in JobSteps => op = "postWait")'
    BY <1>0, <1>5 DEF Search, JobSteps, SendBusy, HmcTypeOK
  <2> QED
    BY <2>1, <2>2, <2>3, <2>4, <2>5, <2>6
<1>6. CASE SendRejected
  <2>1. HmcTypeOK'
    BY <1>6 DEF SendRejected, HmcTypeOK, ObjectTypeOK, Token, Raise, Leave, StartHostSearch
  <2>2. ObjectTypeOK'
    <3>1. op = "logonVerify" => sid \in Token
      BY <1>6 DEF SendRejected, ObjectTypeOK, Token
    <3> QED
      BY <1>6, <3>1 DEF SendRejected, ObjectTypeOK, Raise, Leave
  <2>3. RequestTypeOK'
    BY <1>6 DEF SendRejected, RequestTypeOK, Raise, Leave, StartHostSearch
  <2>4. ControlTypeOK' /\ (op = "version" /\ pc \in Search => cont = "send")'
    BY <1>0, <1>6 DEF SendRejected, ControlTypeOK, Search, Outcome, Raise, Leave, StartHostSearch
  <2>5. FlagsTypeOK'
    BY <1>6 DEF SendRejected, FlagsTypeOK, Raise, Leave, StartHostSearch
  <2>6. /\ (op = "logonVerify" /\ pc = "send" => sid # 0)'
        /\ (waiting => op = "postWait")'
        /\ (pc \in JobSteps \cup {"pause"} => op = "postWait")'
        /\ (pc \in Search /\ cont \in JobSteps => op = "postWait")'
    BY <1>0, <1>6 DEF Search, JobSteps, SendRejected, HmcTypeOK, Raise, Leave, StartHostSearch
  <2> QED
    BY <2>1, <2>2, <2>3, <2>4, <2>5, <2>6
<1>7. CASE VersionOk
  <2>1. HmcTypeOK'
    BY <1>7 DEF VersionOk, HmcTypeOK, ObjectTypeOK, Token, Leave
  <2>2. ObjectTypeOK'
    BY <1>0, <1>7 DEF VersionOk, HmcTypeOK, ObjectTypeOK, ControlTypeOK, Token, Leave
  <2>3. RequestTypeOK'
    BY <1>7 DEF VersionOk, RequestTypeOK, Leave
  <2>4. ControlTypeOK' /\ (op = "version" /\ pc \in Search => cont = "send")'
    BY <1>0, <1>7 DEF VersionOk, ControlTypeOK, Search, Outcome, Leave
  <2>5. FlagsTypeOK'
    BY <1>7 DEF VersionOk, FlagsTypeOK, Leave
  <2>6. /\ (op = "logonVerify" /\ pc = "send" => sid # 0)'
        /\ (waiting => op = "postWait")'
        /\ (pc \in JobSteps \cup {"pause"} => op = "postWait")'
        /\ (pc \in Search /\ cont \in JobSteps => op = "postWait")'
    BY <1>0, <1>7 DEF Search, JobSteps, VersionOk, HmcTypeOK, Leave
  <2> QED
    BY <2>1, <2>2, <2>3, <2>4, <2>5, <2>6
<1>8. CASE Verify
  <2>1. HmcTypeOK'
    BY <1>8 DEF Verify, HmcTypeOK, ObjectTypeOK, Token, Leave, StartHostSearch
  <2>2. ObjectTypeOK'
    BY <1>0, <1>8 DEF Verify, HmcTypeOK, ObjectTypeOK, ControlTypeOK, Token, Leave, StartHostSearch
  <2>3. RequestTypeOK'
    BY <1>8 DEF Verify, RequestTypeOK, Leave, StartHostSearch
  <2>4. ControlTypeOK' /\ (op = "version" /\ pc \in Search => cont = "send")'
    BY <1>0, <1>8 DEF Verify, ControlTypeOK, Search, Outcome, Leave, StartHostSearch
  <2>5. FlagsTypeOK'
    BY <1>8 DEF Verify, FlagsTypeOK, Leave, StartHostSearch
  <2>6. /\ (op = "logonVerify" /\ pc = "send" => sid # 0)'
        /\ (waiting => op = "postWait")'
        /\ (pc \in JobSteps \cup {"pause"} => op = "postWait")'
        /\ (pc \in Search /\ cont \in JobSteps => op = "postWait")'
    BY <1>0, <1>8 DEF Search, JobSteps, Verify, HmcTypeOK, Leave, StartHostSearch
  <2> QED
    BY <2>1, <2>2, <2>3, <2>4, <2>5, <2>6
<1>9. CASE Logoff
  <2>1. HmcTypeOK'
    BY <1>9 DEF Logoff, HmcTypeOK, ObjectTypeOK, Token, ForgetSession, Leave
  <2>2. ObjectTypeOK'
    <3>1. forsaken' \subseteq Token
      BY <1>9 DEF Logoff, HmcTypeOK, ObjectTypeOK
    <3> QED
      BY <1>9, <3>1 DEF Logoff, ObjectTypeOK, ForgetSession
  <2>3. RequestTypeOK'
    BY <1>9 DEF Logoff, RequestTypeOK, ForgetSession, Leave
  <2>4. ControlTypeOK' /\ (op = "version" /\ pc \in Search => cont = "send")'
    BY <1>0, <1>9 DEF Logoff, ControlTypeOK, Search, Outcome, ForgetSession, Leave
  <2>5. FlagsTypeOK'
    BY <1>9 DEF Logoff, FlagsTypeOK, ForgetSession, Leave
  <2>6. /\ (op = "logonVerify" /\ pc = "send" => sid # 0)'
        /\ (waiting => op = "postWait")'
        /\ (pc \in JobSteps \cup {"pause"} => op = "postWait")'
        /\ (pc \in Search /\ cont \in JobSteps => op = "postWait")'
    BY <1>0, <1>9 DEF Search, JobSteps, Logoff, HmcTypeOK, ForgetSession, Leave
  <2> QED
    BY <2>1, <2>2, <2>3, <2>4, <2>5, <2>6
<1> QED
  BY <1>1, <1>2, <1>3, <1>4, <1>5, <1>6, <1>7, <1>8, <1>9

LEMMA JobType ==
  ASSUME TypeInv,
         \/ JobUnreachable \/ JobInvalid \/ JobRejected \/ JobGet \/ JobDelete
         \/ JobDeleteLost \/ Pause
  PROVE  TypeInv'
<1> USE DEF TypeInv, TypeOK, hmcVars, idVars, hostVars, given, reqVars, jobVars
<1>0. Len(hosts) \in Nat \ {0} /\ \A i \in 1..Len(hosts) : hosts[i] \in Host
  BY HostsType DEF ObjectTypeOK
<1>1. CASE JobUnreachable
  <2>1. HmcTypeOK'
    BY <1>1 DEF JobUnreachable, HmcTypeOK, ObjectTypeOK, Token, Raise, Leave
  <2>2. ObjectTypeOK'
    BY <1>0, <1>1 DEF JobUnreachable, HmcTypeOK, ObjectTypeOK, ControlTypeOK, Token, Raise, Leave
  <2>3. RequestTypeOK'
    BY <1>1 DEF JobUnreachable, RequestTypeOK, Raise, Leave
  <2>4. ControlTypeOK' /\ (op = "version" /\ pc \in Search => cont = "send")'
    BY <1>0, <1>1 DEF JobUnreachable, ControlTypeOK, Search, Outcome, Raise, Leave
  <2>5. FlagsTypeOK'
    BY <1>1 DEF JobUnreachable, FlagsTypeOK, Raise, Leave
  <2>6. /\ (op = "logonVerify" /\ pc = "send" => sid # 0)'
        /\ (waiting => op = "postWait")'
        /\ (pc \in JobSteps \cup {"pause"} => op = "postWait")'
        /\ (pc \in Search /\ cont \in JobSteps => op = "postWait")'
    BY <1>0, <1>1 DEF Search, JobSteps, JobUnreachable, HmcTypeOK, Raise, Leave
  <2> QED
    BY <2>1, <2>2, <2>3, <2>4, <2>5, <2>6
<1>2. CASE JobInvalid
  <2>1. HmcTypeOK'
    BY <1>2 DEF JobInvalid, HmcTypeOK, ObjectTypeOK, Token, TokenInvalid, Raise, Leave,
           StartHostSearch
  <2>2. ObjectTypeOK'
    BY <1>0, <1>2 DEF JobInvalid, HmcTypeOK, ObjectTypeOK, ControlTypeOK, Token, TokenInvalid,
           Raise, Leave, StartHostSearch
  <2>3. RequestTypeOK'
    BY <1>2 DEF JobInvalid, RequestTypeOK, TokenInvalid, Raise, Leave, StartHostSearch
  <2>4. ControlTypeOK' /\ (op = "version" /\ pc \in Search => cont = "send")'
    <3>1. pc' \in {"idle", "pause", "probe", "found"} /\ cont' \in {cont, pc}
      BY <1>2 DEF JobInvalid, TokenInvalid, Raise, Leave, StartHostSearch
    <3>2. outcome' \in Outcome /\ host' \in 1..Len(hosts) /\ hosts' = hosts
      BY <1>0, <1>2 DEF JobInvalid, ControlTypeOK, Outcome, TokenInvalid, Raise, Leave,
                        StartHostSearch
    <3>3. op' # "version"
      BY <1>2 DEF JobInvalid, JobSteps
    <3> QED
      BY <1>2, <3>1, <3>2, <3>3 DEF JobInvalid, ControlTypeOK
  <2>5. FlagsTypeOK'
    BY <1>2 DEF JobInvalid, FlagsTypeOK, TokenInvalid, Raise, Leave, StartHostSearch
  <2>6. /\ (op = "logonVerify" /\ pc = "send" => sid # 0)'
        /\ (waiting => op = "postWait")'
        /\ (pc \in JobSteps \cup {"pause"} => op = "postWait")'
        /\ (pc \in Search /\ cont \in JobSteps => op = "postWait")'
    BY <1>0, <1>2 DEF Search, JobSteps, JobInvalid, HmcTypeOK, TokenInvalid, Raise, Leave,
           StartHostSearch
  <2> QED
    BY <2>1, <2>2, <2>3, <2>4, <2>5, <2>6
<1>3. CASE JobRejected
  <2>1. HmcTypeOK'
    BY <1>3 DEF JobRejected, HmcTypeOK, ObjectTypeOK, Token, Raise, Leave
  <2>2. ObjectTypeOK'
    BY <1>0, <1>3 DEF JobRejected, HmcTypeOK, ObjectTypeOK, ControlTypeOK, Token, Raise, Leave
  <2>3. RequestTypeOK'
    BY <1>3 DEF JobRejected, RequestTypeOK, Raise, Leave
  <2>4. ControlTypeOK' /\ (op = "version" /\ pc \in Search => cont = "send")'
    BY <1>0, <1>3 DEF JobRejected, ControlTypeOK, Search, Outcome, Raise, Leave
  <2>5. FlagsTypeOK'
    BY <1>3 DEF JobRejected, FlagsTypeOK, Raise, Leave
  <2>6. /\ (op = "logonVerify" /\ pc = "send" => sid # 0)'
        /\ (waiting => op = "postWait")'
        /\ (pc \in JobSteps \cup {"pause"} => op = "postWait")'
        /\ (pc \in Search /\ cont \in JobSteps => op = "postWait")'
    BY <1>0, <1>3 DEF Search, JobSteps, JobRejected, HmcTypeOK, Raise, Leave
  <2> QED
    BY <2>1, <2>2, <2>3, <2>4, <2>5, <2>6
<1>4. CASE JobGet
  <2>1. HmcTypeOK'
    BY <1>4 DEF JobGet, HmcTypeOK, ObjectTypeOK, Token, Raise, Leave
  <2>2. ObjectTypeOK'
    BY <1>0, <1>4 DEF JobGet, HmcTypeOK, ObjectTypeOK, ControlTypeOK, Token, Raise, Leave
  <2>3. RequestTypeOK'
    BY <1>4 DEF JobGet, RequestTypeOK, Raise, Leave
  <2>4. ControlTypeOK' /\ (op = "version" /\ pc \in Search => cont = "send")'
    BY <1>0, <1>4 DEF JobGet, ControlTypeOK, Search, Outcome, Raise, Leave
  <2>5. FlagsTypeOK'
    BY <1>4 DEF JobGet, FlagsTypeOK, Raise, Leave
  <2>6. /\ (op = "logonVerify" /\ pc = "send" => sid # 0)'
        /\ (waiting => op = "postWait")'
        /\ (pc \in JobSteps \cup {"pause"} => op = "postWait")'
        /\ (pc \in Search /\ cont \in JobSteps => op = "postWait")'
    BY <1>0, <1>4 DEF Search, JobSteps, JobGet, HmcTypeOK, Raise, Leave
  <2> QED
    BY <2>1, <2>2, <2>3, <2>4, <2>5, <2>6
<1>5. CASE JobDelete
  <2>1. HmcTypeOK'
    BY <1>5 DEF JobDelete, HmcTypeOK, ObjectTypeOK, Token, Leave
  <2>2. ObjectTypeOK'
    BY <1>0, <1>5 DEF JobDelete, HmcTypeOK, ObjectTypeOK, ControlTypeOK, Token, Leave
  <2>3. RequestTypeOK'
    BY <1>5 DEF JobDelete, RequestTypeOK, Leave
  <2>4. ControlTypeOK' /\ (op = "version" /\ pc \in Search => cont = "send")'
    BY <1>0, <1>5 DEF JobDelete, ControlTypeOK, Search, Outcome, Leave
  <2>5. FlagsTypeOK'
    BY <1>5 DEF JobDelete, FlagsTypeOK, Leave
  <2>6. /\ (op = "logonVerify" /\ pc = "send" => sid # 0)'
        /\ (waiting => op = "postWait")'
        /\ (pc \in JobSteps \cup {"pause"} => op = "postWait")'
        /\ (pc \in Search /\ cont \in JobSteps => op = "postWait")'
    BY <1>0, <1>5 DEF Search, JobSteps, JobDelete, HmcTypeOK, Leave
  <2> QED
    BY <2>1, <2>2, <2>3, <2>4, <2>5, <2>6
<1>6. CASE JobDeleteLost
  <2>1. HmcTypeOK'
    BY <1>6 DEF JobDeleteLost, HmcTypeOK, ObjectTypeOK, Token, Raise, Leave
  <2>2. ObjectTypeOK'
    BY <1>0, <1>6 DEF JobDeleteLost, HmcTypeOK, ObjectTypeOK, ControlTypeOK, Token, Raise, Leave
  <2>3. RequestTypeOK'
    BY <1>6 DEF JobDeleteLost, RequestTypeOK, Raise, Leave
  <2>4. ControlTypeOK' /\ (op = "version" /\ pc \in Search => cont = "send")'
    BY <1>0, <1>6 DEF JobDeleteLost, ControlTypeOK, Search, Outcome, Raise, Leave
  <2>5. FlagsTypeOK'
    BY <1>6 DEF JobDeleteLost, FlagsTypeOK, Raise, Leave
  <2>6. /\ (op = "logonVerify" /\ pc = "send" => sid # 0)'
        /\ (waiting => op = "postWait")'
        /\ (pc \in JobSteps \cup {"pause"} => op = "postWait")'
        /\ (pc \in Search /\ cont \in JobSteps => op = "postWait")'
    BY <1>0, <1>6 DEF Search, JobSteps, JobDeleteLost, HmcTypeOK, Raise, Leave
  <2> QED
    BY <2>1, <2>2, <2>3, <2>4, <2>5, <2>6
<1>7. CASE Pause
  <2>1. HmcTypeOK'
    BY <1>7 DEF Pause, HmcTypeOK, ObjectTypeOK, Token, Leave
  <2>2. ObjectTypeOK'
    BY <1>0, <1>7 DEF Pause, HmcTypeOK, ObjectTypeOK, ControlTypeOK, Token, Leave
  <2>3. RequestTypeOK'
    BY <1>7 DEF Pause, RequestTypeOK, Leave
  <2>4. ControlTypeOK' /\ (op = "version" /\ pc \in Search => cont = "send")'
    BY <1>0, <1>7 DEF Pause, ControlTypeOK, Search, Outcome, Leave
  <2>5. FlagsTypeOK'
    BY <1>7 DEF Pause, FlagsTypeOK, Leave
  <2>6. /\ (op = "logonVerify" /\ pc = "send" => sid # 0)'
        /\ (waiting => op = "postWait")'
        /\ (pc \in JobSteps \cup {"pause"} => op = "postWait")'
        /\ (pc \in Search /\ cont \in JobSteps => op = "postWait")'
    BY <1>0, <1>7 DEF Search, JobSteps, Pause, HmcTypeOK, Leave
  <2> QED
    BY <2>1, <2>2, <2>3, <2>4, <2>5, <2>6
<1> QED
  BY <1>1, <1>2, <1>3, <1>4, <1>5, <1>6, <1>7

LEMMA TypeInductive == Spec => []TypeInv
<1>1. ASSUME TypeInv, [Next]_vars  PROVE TypeInv'
  <2>1. CASE UNCHANGED vars
    BY <1>1, <2>1 DEF TypeInv, TypeOK, HmcTypeOK, ObjectTypeOK, RequestTypeOK, ControlTypeOK,
                      FlagsTypeOK, Search, JobSteps, vars, hmcVars, idVars, hostVars, given, reqVars,
                      jobVars
  <2>2. CASE Next
    BY <1>1, <2>2, HmcType, UserType, LogonType, SendType, JobType DEF Next, Client
  <2> QED
    BY <1>1, <2>1, <2>2
<1> QED
  BY <1>1, InitType, PTL DEF Spec

\* Every variable has its type in every reachable state.
THEOREM TypeCorrect == Spec => []TypeOK
BY TypeInductive, PTL DEF TypeInv

--------------------------------------------------------------------------------
(* Sessions *)

\* The token in use is that of the object, of the HMC that was chosen last.  Without a
\* password no other HMC is ever chosen, since only a single one can be given then.
TokenKnown ==
    header # 0 => /\ header = sid
                  /\ issuer[header] = actual
                  /\ Len(hosts) = 1 => actual = hosts[1]
                  /\ ~hasPw => Len(hosts) = 1

\* There is no token where an HMC is chosen for the first time, and where one is requested.
NoTokenYet ==
    /\ base = NoHost => header = 0
    /\ op = "version" /\ pc \in Search => header = 0
    /\ pc = "logonPost" => hasPw /\ header = 0 /\ base = hosts[host] /\ actual = base

\* The session of the object is given up, or gone, before another one is requested.
OldGivenUp ==
    header = 0 \/ (pc \in Search /\ op # "version") => sid \notin alive \/ sid \in forsaken

SessionInv == TokenKnown /\ NoTokenYet /\ OldGivenUp /\ SessionsAccounted

\* Most steps have to do with neither tokens nor HMCs.
Quiet ==
    /\ UNCHANGED <<issuer, alive, idVars, hostVars, hosts, hasPw, forsaken, op, host>>
    /\ pc' \notin Search \/ pc' = pc

LEMMA QuietSession == SessionInv /\ Quiet => SessionInv'
BY DEF SessionInv, TokenKnown, NoTokenYet, OldGivenUp, SessionsAccounted, Quiet, idVars, hostVars,
       Search

LEMMA QuietSteps ==
  ASSUME \/ JobProceeds \/ TimePasses \/ LogonFails \/ SendLost \/ SendOk \/ SendBusy
         \/ VersionOk \/ JobUnreachable \/ JobRejected \/ JobGet \/ JobDelete \/ JobDeleteLost
         \/ Pause
  PROVE  Quiet
<1> USE DEF Quiet, Search, hmcVars, idVars, hostVars, given, reqVars, jobVars, Raise, Leave
<1>1. CASE JobProceeds \/ TimePasses
  BY <1>1 DEF JobProceeds, TimePasses
<1>2. CASE LogonFails \/ SendLost \/ SendOk
  BY <1>2 DEF LogonFails, SendLost, SendOk
<1>3. CASE SendBusy \/ VersionOk
  BY <1>3 DEF SendBusy, VersionOk
<1>4. CASE JobUnreachable \/ JobRejected \/ JobGet
  BY <1>4 DEF JobUnreachable, JobRejected, JobGet
<1>5. CASE JobDelete \/ JobDeleteLost \/ Pause
  BY <1>5 DEF JobDelete, JobDeleteLost, Pause
<1> QED
  BY <1>1, <1>2, <1>3, <1>4, <1>5

LEMMA UserSession ==
  ASSUME TypeInv, SessionInv, User
  PROVE  SessionInv'
<1> USE DEF SessionInv, TokenKnown, NoTokenYet, OldGivenUp, SessionsAccounted, Search, Begin,
            idVars, hostVars, given, StartHostSearch
<1>0. alive \subseteq Token /\ 0 \notin Token
  BY DEF TypeInv, TypeOK, HmcTypeOK, Token
<1>1. ASSUME NEW o \in Own, Request(o)  PROVE SessionInv'
  BY <1>0, <1>1 DEF Request, Own, Changing
<1>2. CASE Version
  BY <1>0, <1>2 DEF Version
<1>3. CASE Logon
  BY <1>0, <1>3 DEF Logon
<1>4. CASE LogonAlways
  BY <1>0, <1>4 DEF LogonAlways
<1>5. ASSUME NEW o \in {"logonVerify", "isLogonVerify", "logoff"}, WithSession(o)
      PROVE  SessionInv'
  BY <1>0, <1>5 DEF WithSession
<1> QED
  BY <1>1, <1>2, <1>3, <1>4, <1>5 DEF User, Own

LEMMA SearchSession ==
  ASSUME TypeInv, SessionInv, ProbeOk \/ ProbeRejected \/ ProbeFails \/ Found
  PROVE  SessionInv'
<1> USE DEF SessionInv, TokenKnown, NoTokenYet, OldGivenUp, SessionsAccounted, Search, Raise,
            Leave, hmcVars, idVars, hostVars, given, reqVars, jobVars
<1>1. /\ hosts[host] \in Host /\ NoHost \notin Host
      /\ Len(hosts) = 1 => host = 1
  BY HostsType DEF TypeInv, TypeOK, ObjectTypeOK, ControlTypeOK
<1>2. CASE ProbeOk
  BY <1>1, <1>2 DEF ProbeOk
<1>3. CASE ProbeRejected
  BY <1>1, <1>3 DEF ProbeRejected
<1>4. CASE ProbeFails
  BY <1>1, <1>4 DEF ProbeFails
<1>5. CASE Found
  <2>1. op = "version" => cont = "send"
    BY <1>5 DEF Found, TypeInv
  <2> QED
    BY <1>1, <1>5, <2>1 DEF Found
<1> QED
  BY <1>2, <1>3, <1>4, <1>5

LEMMA LogonSession ==
  ASSUME TypeInv, SessionInv, LogonOk \/ LogonLost
  PROVE  SessionInv'
<1> USE DEF SessionInv, TokenKnown, NoTokenYet, OldGivenUp, SessionsAccounted, Search, Raise,
            Leave, Issue, hmcVars, idVars, hostVars, given, reqVars, jobVars
<1>1. /\ hosts[host] \in Host /\ NoHost \notin Host
      /\ Len(hosts) = 1 => host = 1
  BY HostsType DEF TypeInv, TypeOK, ObjectTypeOK, ControlTypeOK
<1>2. /\ lastToken \in 0..MaxTokens
      /\ issuer \in [Token -> Host \cup {NoHost}]
      /\ cont \in {"end", "send", "jobGet", "jobDelete"}
  BY DEF TypeInv, TypeOK, HmcTypeOK, ControlTypeOK
<1>3. CASE LogonOk
  <2>1. issuer'[lastToken + 1] = base /\ lastToken + 1 # 0
    BY <1>2, <1>3 DEF LogonOk, Token
  <2>2. pc' \notin Search
    BY <1>2, <1>3 DEF LogonOk
  <2> QED
    BY <1>1, <1>3, <2>1, <2>2 DEF LogonOk
<1>4. CASE LogonLost
  BY <1>2, <1>4 DEF LogonLost
<1> QED
  BY <1>3, <1>4

LEMMA SendSession ==
  ASSUME TypeInv, SessionInv,
         \/ SendUnreachable \/ SendInvalid \/ SendRejected \/ Verify \/ Logoff
         \/ JobInvalid \/ \E t \in Token : Expire(t)
  PROVE  SessionInv'
<1> USE DEF SessionInv, TokenKnown, NoTokenYet, OldGivenUp, SessionsAccounted, Search, Raise,
            Leave, hmcVars, idVars, hostVars, given, reqVars, jobVars, StartHostSearch
<1>0. alive \subseteq Token /\ 0 \notin Token
  BY DEF TypeInv, TypeOK, HmcTypeOK, Token
<1>1. CASE SendUnreachable
  BY <1>0, <1>1 DEF SendUnreachable, ForgetSession
<1>2. CASE SendInvalid
  BY <1>0, <1>2 DEF SendInvalid, TokenInvalid, Own, Changing
<1>3. CASE SendRejected
  BY <1>0, <1>3 DEF SendRejected
<1>4. CASE Verify
  BY <1>0, <1>4 DEF Verify
<1>5. CASE Logoff
  BY <1>0, <1>5 DEF Logoff, ForgetSession
<1>6. CASE JobInvalid
  <2>1. op # "version"
    BY <1>6 DEF JobInvalid, TypeInv, JobSteps
  <2> QED
    BY <1>0, <1>6, <2>1 DEF JobInvalid, TokenInvalid
<1>7. CASE \E t \in Token : Expire(t)
  BY <1>0, <1>7 DEF Expire
<1> QED
  BY <1>1, <1>2, <1>3, <1>4, <1>5, <1>6, <1>7

\* The token in the headers is the session ID of the object and was issued by the HMC that
\* is talked to, and every other session that exists on an HMC was given up for a reason
\* that the specification names.
THEOREM SessionIsKept == Spec => []SessionKept
<1>1. Init => SessionInv
  <2> SUFFICES ASSUME Init  PROVE SessionInv
    OBVIOUS
  <2>1. NoHost # hosts[1] /\ 0 \notin {1}
    BY HostsType DEF Init
  <2> USE DEF Init, SessionInv, TokenKnown, NoTokenYet, OldGivenUp, SessionsAccounted, Token,
              Search
  <2>2. CASE sid = 0
    BY <2>2
  <2>3. CASE sid # 0
    <3>1. Len(hosts) = 1 /\ sid = 1 /\ header = 1 /\ actual = hosts[1] /\ base = hosts[1]
      BY <2>3
    <3>2. issuer[1] = hosts[1]
      BY <2>3
    <3> QED
      BY <2>1, <3>1, <3>2
  <2> QED
    BY <2>2, <2>3
<1>2. ASSUME TypeInv, SessionInv, [Next]_vars  PROVE SessionInv'
  <2>1. CASE UNCHANGED vars
    BY <1>2, <2>1, QuietSession DEF Quiet, vars, hmcVars, reqVars, given, idVars, hostVars
  <2>2. CASE Next
    BY <1>2, <2>2, QuietSession, QuietSteps, UserSession, SearchSession, LogonSession,
       SendSession DEF Next, Client
  <2> QED
    BY <1>2, <2>1, <2>2
<1>3. SessionInv => SessionKept
  BY DEF SessionInv, SessionKept, TokenKnown, TokenOfHost
<1> QED
  BY <1>1, <1>2, <1>3, TypeInductive, PTL DEF Spec

--------------------------------------------------------------------------------
(* Calls *)

Fresh == effects = 0 /\ ~waiting

\* A call that sends its request, or logs on in order to do so, has not been executed; one
\* that waits for its job has, once.
Executed ==
    /\ op \in Own =>
         /\ effects <= 1
         /\ pc = "send" => Fresh
         /\ pc \in Search => cont # "end" /\ (cont = "send" => Fresh)
    /\ waiting => effects = 1 /\ (pc \in Search => cont \in JobSteps)
    /\ pc \in JobSteps \cup {"pause"} => waiting
    /\ pc \in Search /\ cont \in JobSteps => waiting

\* The job is deleted only after its end was seen; when a call finds it deleted, the answer
\* to that was lost.
JobKnown ==
    /\ pc = "jobDelete" \/ (pc \in Search /\ cont = "jobDelete") => seen \in {"complete", "failed"}
    /\ waiting /\ pc # "idle" /\ job = "deleted" => undone

CallInv == Executed /\ JobKnown /\ ReportsHonest

LEMMA EnvironmentCall ==
  ASSUME TypeInv, CallInv, (\E t \in Token : Expire(t)) \/ JobProceeds \/ TimePasses
  PROVE  CallInv'
<1> USE DEF CallInv, Executed, JobKnown, ReportsHonest, HonestOutcome, JobResultTrue, Fresh,
            hmcVars, idVars, hostVars, given, reqVars, jobVars
<1>1. CASE \E t \in Token : Expire(t)
  BY <1>1 DEF Expire
<1>2. CASE JobProceeds
  BY <1>2 DEF JobProceeds
<1>3. CASE TimePasses
  BY <1>3 DEF TimePasses
<1> QED
  BY <1>1, <1>2, <1>3

LEMMA UserCall ==
  ASSUME TypeInv, CallInv, User
  PROVE  CallInv'
<1> USE DEF CallInv, Executed, JobKnown, ReportsHonest, HonestOutcome, JobResultTrue, Fresh,
            Search, JobSteps, Begin, StartHostSearch, Own, Changing
<1>1. ASSUME NEW o \in Own, Request(o)  PROVE CallInv'
  BY <1>1 DEF Request
<1>2. CASE Version
  BY <1>2 DEF Version
<1>3. CASE Logon \/ LogonAlways
  BY <1>3 DEF Logon, LogonAlways
<1>4. ASSUME NEW o \in {"logonVerify", "isLogonVerify", "logoff"}, WithSession(o)
      PROVE  CallInv'
  BY <1>4 DEF WithSession
<1> QED
  BY <1>1, <1>2, <1>3, <1>4 DEF User

LEMMA LogonCall ==
  ASSUME TypeInv, CallInv,
         \/ ProbeOk \/ ProbeRejected \/ ProbeFails \/ Found \/ LogonOk
         \/ LogonLost \/ LogonFails
  PROVE  CallInv'
<1> USE DEF TypeInv, CallInv, Executed, JobKnown, ReportsHonest, HonestOutcome, JobResultTrue,
            Fresh, Search, JobSteps, Own, Changing, hmcVars, idVars, hostVars, given, reqVars, jobVars
<1>0. cont \in {"end", "send", "jobGet", "jobDelete"}
  BY DEF TypeOK, ControlTypeOK
<1>1. CASE ProbeOk
  <2>1. Executed'
    BY <1>0, <1>1 DEF ProbeOk
  <2>2. JobKnown'
    BY <1>0, <1>1 DEF ProbeOk
  <2>3. ReportsHonest'
    BY <1>0, <1>1 DEF ProbeOk
  <2> QED
    BY <2>1, <2>2, <2>3
<1>2. CASE ProbeRejected
  <2>1. Executed'
    BY <1>0, <1>2 DEF ProbeRejected, Raise, Leave
  <2>2. JobKnown'
    BY <1>0, <1>2 DEF ProbeRejected, Raise, Leave
  <2>3. ReportsHonest'
    BY <1>0, <1>2 DEF ProbeRejected, Raise, Leave
  <2> QED
    BY <2>1, <2>2, <2>3
<1>3. CASE ProbeFails
  <2>1. Executed'
    BY <1>0, <1>3 DEF ProbeFails, Raise, Leave
  <2>2. JobKnown'
    BY <1>0, <1>3 DEF ProbeFails, Raise, Leave
  <2>3. ReportsHonest'
    BY <1>0, <1>3 DEF ProbeFails, Raise, Leave
  <2> QED
    BY <2>1, <2>2, <2>3
<1>4. CASE Found
  <2>1. Executed'
    BY <1>0, <1>4 DEF Found, Raise, Leave
  <2>2. JobKnown'
    BY <1>0, <1>4 DEF Found, Raise, Leave
  <2>3. ReportsHonest'
    BY <1>0, <1>4 DEF Found, Raise, Leave
  <2> QED
    BY <2>1, <2>2, <2>3
<1>5. CASE LogonOk
  <2>1. Executed'
    BY <1>0, <1>5 DEF LogonOk, Issue, Leave
  <2>2. JobKnown'
    BY <1>0, <1>5 DEF LogonOk, Issue, Leave
  <2>3. ReportsHonest'
    BY <1>0, <1>5 DEF LogonOk, Issue, Leave
  <2> QED
    BY <2>1, <2>2, <2>3
<1>6. CASE LogonLost
  <2>1. Executed'
    BY <1>0, <1>6 DEF LogonLost, Issue, Raise, Leave
  <2>2. JobKnown'
    BY <1>0, <1>6 DEF LogonLost, Issue, Raise, Leave
  <2>3. ReportsHonest'
    BY <1>0, <1>6 DEF LogonLost, Issue, Raise, Leave
  <2> QED
    BY <2>1, <2>2, <2>3
<1>7. CASE LogonFails
  <2>1. Executed'
    BY <1>0, <1>7 DEF LogonFails, Raise, Leave
  <2>2. JobKnown'
    BY <1>0, <1>7 DEF LogonFails, Raise, Leave
  <2>3. ReportsHonest'
    BY <1>0, <1>7 DEF LogonFails, Raise, Leave
  <2> QED
    BY <2>1, <2>2, <2>3
<1> QED
  BY <1>1, <1>2, <1>3, <1>4, <1>5, <1>6, <1>7

LEMMA SendCall ==
  ASSUME TypeInv, CallInv,
         \/ SendLost \/ SendOk \/ SendUnreachable \/ SendInvalid \/ SendBusy
         \/ SendRejected \/ VersionOk \/ Verify \/ Logoff
  PROVE  CallInv'
<1> USE DEF TypeInv, CallInv, Executed, JobKnown, ReportsHonest, HonestOutcome, JobResultTrue,
            Fresh, Search, JobSteps, Own, Changing, hmcVars, idVars, hostVars, given, reqVars, jobVars
<1>1. CASE SendLost
  <2>1. Executed'
    BY <1>1 DEF SendLost, Raise, Leave
  <2>2. JobKnown'
    BY <1>1 DEF SendLost, Raise, Leave
  <2>3. ReportsHonest'
    BY <1>1 DEF SendLost, Raise, Leave
  <2> QED
    BY <2>1, <2>2, <2>3
<1>2. CASE SendOk
  <2>1. Executed'
    BY <1>2 DEF SendOk, Leave
  <2>2. JobKnown'
    BY <1>2 DEF SendOk, Leave
  <2>3. ReportsHonest'
    BY <1>2 DEF SendOk, Leave
  <2> QED
    BY <2>1, <2>2, <2>3
<1>3. CASE SendUnreachable
  <2>1. Executed'
    BY <1>3 DEF SendUnreachable, ForgetSession, Raise, Leave, StartHostSearch
  <2>2. JobKnown'
    BY <1>3 DEF SendUnreachable, ForgetSession, Raise, Leave, StartHostSearch
  <2>3. ReportsHonest'
    BY <1>3 DEF SendUnreachable, ForgetSession, Raise, Leave, StartHostSearch
  <2> QED
    BY <2>1, <2>2, <2>3
<1>4. CASE SendInvalid
  <2>1. Executed'
    BY <1>4 DEF SendInvalid, TokenInvalid, Raise, Leave, StartHostSearch
  <2>2. JobKnown'
    BY <1>4 DEF SendInvalid, TokenInvalid, Raise, Leave, StartHostSearch
  <2>3. ReportsHonest'
    BY <1>4 DEF SendInvalid, TokenInvalid, Raise, Leave, StartHostSearch
  <2> QED
    BY <2>1, <2>2, <2>3
<1>5. CASE SendBusy
  <2>1. Executed'
    BY <1>5 DEF SendBusy
  <2>2. JobKnown'
    BY <1>5 DEF SendBusy
  <2>3. ReportsHonest'
    BY <1>5 DEF SendBusy
  <2> QED
    BY <2>1, <2>2, <2>3
<1>6. CASE SendRejected
  <2>1. Executed'
    BY <1>6 DEF SendRejected, Raise, Leave, StartHostSearch
  <2>2. JobKnown'
    BY <1>6 DEF SendRejected, Raise, Leave, StartHostSearch
  <2>3. ReportsHonest'
    BY <1>6 DEF SendRejected, Raise, Leave, StartHostSearch
  <2> QED
    BY <2>1, <2>2, <2>3
<1>7. CASE VersionOk
  <2>1. Executed'
    BY <1>7 DEF VersionOk, Leave
  <2>2. JobKnown'
    BY <1>7 DEF VersionOk, Leave
  <2>3. ReportsHonest'
    BY <1>7 DEF VersionOk, Leave
  <2> QED
    BY <2>1, <2>2, <2>3
<1>8. CASE Verify
  <2>1. Executed'
    BY <1>8 DEF Verify, Leave, StartHostSearch
  <2>2. JobKnown'
    BY <1>8 DEF Verify, Leave, StartHostSearch
  <2>3. ReportsHonest'
    BY <1>8 DEF Verify, Leave, StartHostSearch
  <2> QED
    BY <2>1, <2>2, <2>3
<1>9. CASE Logoff
  <2>1. Executed'
    BY <1>9 DEF Logoff, ForgetSession, Leave
  <2>2. JobKnown'
    BY <1>9 DEF Logoff, ForgetSession, Leave
  <2>3. ReportsHonest'
    BY <1>9 DEF Logoff, ForgetSession, Leave
  <2> QED
    BY <2>1, <2>2, <2>3
<1> QED
  BY <1>1, <1>2, <1>3, <1>4, <1>5, <1>6, <1>7, <1>8, <1>9

LEMMA JobCall ==
  ASSUME TypeInv, CallInv,
         \/ JobUnreachable \/ JobInvalid \/ JobRejected \/ JobGet \/ JobDelete
         \/ JobDeleteLost \/ Pause
  PROVE  CallInv'
<1> USE DEF TypeInv, CallInv, Executed, JobKnown, ReportsHonest, HonestOutcome, JobResultTrue,
            Fresh, Search, JobSteps, Own, Changing, hmcVars, idVars, hostVars, given, reqVars, jobVars
<1>1. CASE JobUnreachable
  <2>1. Executed'
    BY <1>1 DEF JobUnreachable, Raise, Leave
  <2>2. JobKnown'
    BY <1>1 DEF JobUnreachable, Raise, Leave
  <2>3. ReportsHonest'
    BY <1>1 DEF JobUnreachable, Raise, Leave
  <2> QED
    BY <2>1, <2>2, <2>3
<1>2. CASE JobInvalid
  <2>1. Executed'
    BY <1>2 DEF JobInvalid, TokenInvalid, Raise, Leave, StartHostSearch
  <2>2. JobKnown'
    BY <1>2 DEF JobInvalid, TokenInvalid, Raise, Leave, StartHostSearch
  <2>3. ReportsHonest'
    BY <1>2 DEF JobInvalid, TokenInvalid, Raise, Leave, StartHostSearch
  <2> QED
    BY <2>1, <2>2, <2>3
<1>3. CASE JobRejected
  <2>1. Executed'
    BY <1>3 DEF JobRejected, Raise, Leave
  <2>2. JobKnown'
    BY <1>3 DEF JobRejected, Raise, Leave
  <2>3. ReportsHonest'
    BY <1>3 DEF JobRejected, Raise, Leave
  <2> QED
    BY <2>1, <2>2, <2>3
<1>4. CASE JobGet
  <2>1. Executed'
    BY <1>4 DEF JobGet, Raise, Leave
  <2>2. JobKnown'
    BY <1>4 DEF JobGet, Raise, Leave
  <2>3. ReportsHonest'
    BY <1>4 DEF JobGet, Raise, Leave
  <2> QED
    BY <2>1, <2>2, <2>3
<1>5. CASE JobDelete
  <2>1. Executed'
    BY <1>5 DEF JobDelete, Leave
  <2>2. JobKnown'
    BY <1>5 DEF JobDelete, Leave
  <2>3. ReportsHonest'
    BY <1>5 DEF JobDelete, Leave
  <2> QED
    BY <2>1, <2>2, <2>3
<1>6. CASE JobDeleteLost
  <2>1. Executed'
    BY <1>6 DEF JobDeleteLost, Raise, Leave
  <2>2. JobKnown'
    BY <1>6 DEF JobDeleteLost, Raise, Leave
  <2>3. ReportsHonest'
    BY <1>6 DEF JobDeleteLost, Raise, Leave
  <2> QED
    BY <2>1, <2>2, <2>3
<1>7. CASE Pause
  <2>1. Executed'
    BY <1>7 DEF Pause, Leave
  <2>2. JobKnown'
    BY <1>7 DEF Pause, Leave
  <2>3. ReportsHonest'
    BY <1>7 DEF Pause, Leave
  <2> QED
    BY <2>1, <2>2, <2>3
<1> QED
  BY <1>1, <1>2, <1>3, <1>4, <1>5, <1>6, <1>7

LEMMA CallInductive == Spec => []CallInv
<1>1. Init => CallInv
  BY DEF Init, CallInv, Executed, JobKnown, ReportsHonest, HonestOutcome, JobResultTrue, Search,
         JobSteps, Own, Changing
<1>2. ASSUME TypeInv, CallInv, [Next]_vars  PROVE CallInv'
  <2>1. CASE UNCHANGED vars
    BY <1>2, <2>1 DEF CallInv, Executed, JobKnown, ReportsHonest, HonestOutcome, JobResultTrue,
                      Fresh, vars, hmcVars, idVars, hostVars, given, reqVars, jobVars
  <2>2. CASE Next
    BY <1>2, <2>2, EnvironmentCall, UserCall, LogonCall, SendCall, JobCall DEF Next, Client
  <2> QED
    BY <1>2, <2>1, <2>2
<1> QED
  BY <1>1, <1>2, TypeInductive, PTL DEF Spec

\* No retry executes a call twice: neither that after a new logon, nor the one of a busy
\* resource, nor the waiting for the job across lost connections.
THEOREM ExecutedAtMostOnce == Spec => []AtMostOnce
<1>1. CallInv => AtMostOnce
  BY DEF CallInv, Executed, AtMostOnce, Own
<1> QED
  BY <1>1, CallInductive, PTL

\* What a call reports of its operation and of its job is true.
THEOREM ReportsAreHonest == Spec => []ReportsHonest
<1>1. CallInv => ReportsHonest
  BY DEF CallInv
<1> QED
  BY <1>1, CallInductive, PTL
================================================================================
