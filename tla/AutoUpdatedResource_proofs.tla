---------------------- MODULE AutoUpdatedResource_proofs ----------------------
(***************************************************************************)
(* Proofs about AutoUpdatedResource, for any properties, any bound on how  *)
(* often they change and any behaviour of the query parameter: type        *)
(* correctness, SyncedIsPending, FullHasAll and CeasedIsGone.              *)
(***************************************************************************)
EXTENDS AutoUpdatedResource, FiniteSetTheorems, TLAPS

\* Nothing the client knows is newer than the HMC, and the topic has the changes
\* of a property in their order, up to the latest.
TopicOrder ==
    /\ chan # <<>> => subscribed
    /\ \A p \in Prop, v \in Version :
          Pending(Change(p, v)) => v <= hmc[p] /\ Pending(Change(p, hmc[p]))
    /\ \A i, j \in 1..Len(chan) :
          i < j /\ chan[i].type = "change" /\ chan[j].type = "change"
                /\ chan[i].prop = chan[j].prop => chan[i].value < chan[j].value
    /\ \A p \in Prop : local[p] <= hmc[p] /\ reply[p] <= hmc[p]

\* The remove notification is the last one.
TopicEnd ==
    /\ \A i \in 1..Len(chan) : chan[i] = Removed => i = Len(chan) /\ ~exists
    /\ ~exists /\ chan # <<>> => chan[Len(chan)] = Removed

\* What an answer has, by the step the operation is in.
ReplyShape ==
    /\ pc = "gotFull" => \A p \in Prop : reply[p] # NoValue
    /\ pc = "got" => LET got == {p \in Prop : reply[p] # NoValue} IN got = names \/ got = Prop
    /\ pc = "post" => \E p \in Prop : names = {p}
    /\ pc = "posted" => \A p \in names : reply[p] # NoValue
    /\ pc = "deleted" => ~exists

Answered == pc \in {"got", "gotFull", "posted"}

\* A value on its way to the object is current, or a newer one is pending or was
\* stored already.
ReplyLag ==
    /\ auto => subscribed
    /\ auto /\ Answered => \A p \in Prop : reply[p] # NoValue =>
          reply[p] = hmc[p] \/ local[p] = hmc[p] \/ Pending(Change(p, hmc[p]))
    /\ auto /\ Answered /\ ~exists => ceased \/ Pending(Removed)

ResourceInv ==
    /\ TypeOK /\ TopicOrder /\ TopicEnd /\ ReplyShape /\ ReplyLag
    /\ SyncedIsPending /\ FullHasAll /\ CeasedIsGone

--------------------------------------------------------------------------------
(* Type correctness *)

LEMMA NotificationShape ==
    /\ Removed \in Notification /\ Removed.type = "remove"
    /\ \A p \in Prop, v \in Version :
          /\ Change(p, v) \in Notification
          /\ Change(p, v).type = "change" /\ Change(p, v).prop = p /\ Change(p, v).value = v
    /\ \A n \in Notification : n.type = "change" =>
          n.prop \in Prop /\ n.value \in Version /\ n = Change(n.prop, n.value)
    /\ \A n \in Notification : n.type # "change" => n = Removed
  BY DEF Notification, Changes, Change, Removed

LEMMA TypeInit == Init => TypeOK
<1> SUFFICES ASSUME Init PROVE TypeOK
  OBVIOUS
<1>1. chan \in Seq(Notification)
  BY DEF Init
<1>2. 0 \in Version /\ Nothing \in [Prop -> Version \cup {NoValue}]
  BY ResourceAssumption DEF Version, Nothing
<1>3. local \in [Prop -> Version \cup {NoValue}] /\ hmc \in [Prop -> Version]
  BY <1>2 DEF Init
<1> QED BY <1>1, <1>2, <1>3 DEF Init, TypeOK

LEMMA TypeStep == TypeOK /\ [Next]_vars => TypeOK'
<1> SUFFICES ASSUME TypeOK, [Next]_vars PROVE TypeOK'
  OBVIOUS
<1> USE DEF TypeOK, hmcVars, objVars, callVars
<1>0. Nothing \in [Prop -> Version \cup {NoValue}]
  BY DEF Nothing
<1>1. ASSUME NEW p \in Prop, Advance(p)
      PROVE  /\ hmc' \in [Prop -> Version] /\ chan' \in Seq(Notification)
             /\ hmc[p] + 1 \in Version
  <2>1. hmc[p] + 1 \in Version
    BY <1>1, ResourceAssumption DEF Advance, Version
  <2>2. Change(p, hmc[p] + 1) \in Notification
    BY <2>1, NotificationShape
  <2> QED BY <1>1, <2>1, <2>2 DEF Advance, Announce
<1>2. Vanish => chan' \in Seq(Notification) /\ exists' \in BOOLEAN
  <2>1. Removed \in Notification
    BY NotificationShape
  <2>2. Append(chan, Removed) \in Seq(Notification)
    BY <2>1
  <2> QED BY <2>2 DEF Vanish, Announce
<1>3. CASE ChangedElsewhere
  BY <1>1, <1>2, <1>3 DEF ChangedElsewhere, Advance, Vanish
<1>4. CASE AnswerGet
  <2>1. reply' \in [Prop -> Version \cup {NoValue}]
    BY <1>4 DEF AnswerGet
  <2> QED BY <1>4, <2>1 DEF AnswerGet
<1>5. CASE RejectQuery
  BY <1>5 DEF RejectQuery
<1>6. CASE AnswerPost
  <2> PICK p \in names : Advance(p) /\ reply' = [Nothing EXCEPT ![p] = hmc[p] + 1]
    BY <1>6 DEF AnswerPost
  <2>1. reply' \in [Prop -> Version \cup {NoValue}]
    BY <1>0, <1>1
  <2> QED BY <1>6, <1>1, <2>1 DEF AnswerPost, Advance
<1>7. CASE AnswerDelete
  BY <1>7, <1>2 DEF AnswerDelete, Vanish
<1>8. ASSUME NEW asked \in Names, PullFull \/ PullProperties(asked) PROVE TypeOK'
  BY <1>8, ResourceAssumption DEF PullFull, PullProperties
<1>9. CASE PullFull \/ \E p \in Prop : GetProperty(p)
  BY <1>9 DEF PullFull, GetProperty
<1>10. CASE GetNotFound \/ RequestFails \/ MarkDeleted
  BY <1>10, <1>0 DEF GetNotFound, RequestFails, MarkDeleted, Return
<1>11. ASSUME NEW got \in SUBSET Prop, Merge(got), full' \in BOOLEAN PROVE TypeOK'
  <2>1. local' \in [Prop -> Version \cup {NoValue}]
    BY <1>11 DEF Merge
  <2>2. synced' \subseteq Prop
    BY <1>11 DEF Merge, InOrder
  <2> QED BY <1>11, <1>0, <2>1, <2>2 DEF Merge, Return
<1>12. CASE MergeGet
  BY <1>12, <1>11 DEF MergeGet
<1>13. CASE MergeUpdate
  BY <1>13, <1>11 DEF MergeUpdate
<1>14. ASSUME NEW p \in Writable, Update(p) PROVE TypeOK'
  BY <1>14, ResourceAssumption DEF Update
<1>15. CASE Destroy \/ Enable \/ Disable
  BY <1>15 DEF Destroy, Enable, Disable
<1>16. CASE OnChange \/ OnRemove \/ OnIgnored
  <2>1. chan # <<>> => Head(chan) \in Notification /\ Tail(chan) \in Seq(Notification)
    OBVIOUS
  <2>2. CASE OnChange
    <3>1. Head(chan).prop \in Prop /\ Head(chan).value \in Version
      BY <2>1, <2>2, NotificationShape DEF OnChange, Receive
    <3> QED BY <2>1, <2>2, <3>1 DEF OnChange, Receive
  <2> QED BY <1>16, <2>1, <2>2 DEF OnRemove, OnIgnored, Receive
<1>17. CASE UNCHANGED vars
  BY <1>17 DEF vars
<1> QED
  BY <1>3, <1>4, <1>5, <1>6, <1>7, <1>8, <1>9, <1>10, <1>12, <1>13, <1>14, <1>15, <1>16, <1>17
     DEF Next

\* Every variable keeps its type: an answer, a merge or a notification never puts
\* anything but a value of a known property into the object.
THEOREM TypeCorrect == Spec => []TypeOK
  BY TypeInit, TypeStep, PTL DEF Spec

--------------------------------------------------------------------------------
(* The inductive invariant *)

LEMMA AppendHas ==
    ASSUME NEW S, NEW s \in Seq(S), NEW n \in S, NEW m
    PROVE  Has(Append(s, n), m) <=> Has(s, m) \/ m = n
<1>1. /\ Len(Append(s, n)) = Len(s) + 1 /\ Len(s) \in Nat
      /\ Append(s, n)[Len(s) + 1] = n
      /\ \A i \in 1..Len(s) : Append(s, n)[i] = s[i]
  OBVIOUS
<1>2. Has(s, m) => Has(Append(s, n), m)
  BY <1>1 DEF Has
<1>3. m = n => Has(Append(s, n), m)
  BY <1>1 DEF Has
<1>4. ASSUME Has(Append(s, n), m), m # n PROVE Has(s, m)
  BY <1>1, <1>4 DEF Has
<1> QED BY <1>2, <1>3, <1>4

LEMMA TailHas ==
    ASSUME NEW S, NEW s \in Seq(S), s # <<>>, NEW m
    PROVE  Has(s, m) <=> m = Head(s) \/ Has(Tail(s), m)
<1>1. Has(s, m) => m = Head(s) \/ Has(Tail(s), m)
  <2> SUFFICES ASSUME NEW i \in 1..Len(s), s[i] = m, i # 1
               PROVE  Has(Tail(s), m)
    BY DEF Has
  <2>1. i - 1 \in 1..Len(Tail(s)) /\ Tail(s)[i - 1] = m
    BY SMT
  <2> QED BY <2>1 DEF Has
<1>2. m = Head(s) => Has(s, m)
  BY SMT DEF Has
<1>3. Has(Tail(s), m) => Has(s, m)
  <2> SUFFICES ASSUME NEW i \in 1..Len(Tail(s)), Tail(s)[i] = m
               PROVE  Has(s, m)
    BY DEF Has
  <2>1. i + 1 \in 1..Len(s) /\ s[i + 1] = m
    BY SMT
  <2> QED BY <2>1 DEF Has
<1> QED BY <1>1, <1>2, <1>3

LEMMA InvInit == Init => ResourceInv
<1> SUFFICES ASSUME Init PROVE ResourceInv
  OBVIOUS
<1>1. TypeOK
  BY TypeInit
<1>2. chan = <<>> /\ Len(chan) = 0
  BY DEF Init
<1>3. TopicOrder
  BY <1>2, ResourceAssumption DEF Init, TopicOrder, Pending, Has, Nothing, NoValue
<1>4. TopicEnd
  BY <1>2 DEF TopicEnd
<1> QED BY <1>1, <1>3, <1>4
        DEF Init, ResourceInv, ReplyShape, ReplyLag, Answered, SyncedIsPending, FullHasAll,
            CeasedIsGone

\* The topic after the HMC changed a property and announced it.
LEMMA TopicAdvance ==
    ASSUME ResourceInv, NEW p \in Prop, Advance(p), local' = local,
           \A q \in Prop : reply'[q] <= hmc'[q]
    PROVE  /\ TopicOrder' /\ TopicEnd'
           /\ \A m : Has(chan', m) <=> Has(chan, m) \/ (subscribed /\ m = Change(p, hmc'[p]))
<1> USE DEF ResourceInv, TypeOK
<1> DEFINE n == Change(p, hmc[p] + 1)
<1>1. /\ hmc' = [hmc EXCEPT ![p] = hmc[p] + 1] /\ hmc[p] \in Nat
      /\ UNCHANGED <<exists, subscribed>> /\ exists
  BY ResourceAssumption DEF Advance, Version
<1>2. n \in Notification /\ n.type = "change" /\ n.prop = p /\ n.value = hmc[p] + 1
  <2>1. hmc[p] + 1 \in Version
    BY ResourceAssumption DEF Advance, Version
  <2> QED BY <2>1, NotificationShape
<1>3. chan' = IF subscribed THEN Append(chan, n) ELSE chan
  BY DEF Advance, Announce
<1>4. \A m : Has(chan', m) <=> Has(chan, m) \/ (subscribed /\ m = n)
  BY <1>2, <1>3, AppendHas
<1>5. /\ \A q \in Prop : /\ local[q] <= hmc[q] /\ local[q] \in Int /\ hmc[q] \in Nat
                         /\ hmc'[q] \in Nat /\ hmc[q] <= hmc'[q]
      /\ \A v \in Version : v \in Nat
  BY <1>1, ResourceAssumption DEF TopicOrder, Version, NoValue
<1>6. TopicOrder'
  <2>1. chan' # <<>> => subscribed'
    BY <1>1, <1>3 DEF TopicOrder
  <2>2. ASSUME NEW q \in Prop, NEW v \in Version, Has(chan', Change(q, v))
        PROVE  v <= hmc'[q] /\ Has(chan', Change(q, hmc'[q]))
    <3>1. CASE q = p
      <4>1. subscribed
        BY <1>3, <2>2 DEF TopicOrder, Has
      <4>2. Has(chan, Change(q, v)) \/ v = hmc[p] + 1
        BY <1>4, <2>2 DEF Change
      <4> QED BY <3>1, <4>1, <4>2, <1>1, <1>4, <1>5 DEF TopicOrder, Pending
    <3>2. CASE q # p
      <4>1. Has(chan, Change(q, v))
        BY <1>4, <2>2, <3>2 DEF Change
      <4> QED BY <3>2, <4>1, <1>1, <1>4 DEF TopicOrder, Pending
    <3> QED BY <3>1, <3>2
  <2>3. ASSUME NEW i \in 1..Len(chan'), NEW j \in 1..Len(chan'), i < j,
               chan'[i].type = "change", chan'[j].type = "change",
               chan'[i].prop = chan'[j].prop
        PROVE  chan'[i].value < chan'[j].value
    <3>1. CASE ~subscribed
      BY <3>1, <2>3, <1>3 DEF TopicOrder
    <3>2. CASE subscribed
      <4>1. /\ Len(chan') = Len(chan) + 1 /\ Len(chan) \in Nat
            /\ \A k \in 1..Len(chan) : chan'[k] = chan[k] /\ chan[k] \in Notification
            /\ chan'[Len(chan')] = n
        BY <1>2, <1>3, <3>2
      <4>2. i \in 1..Len(chan)
        BY <2>3, <4>1
      <4>3. CASE j \in 1..Len(chan)
        BY <4>1, <4>2, <4>3, <2>3 DEF TopicOrder
      <4>4. CASE j = Len(chan')
        <5>1. chan[i] = Change(p, chan[i].value) /\ chan[i].value \in Version
          BY <4>1, <4>2, <4>4, <2>3, <1>2, NotificationShape
        <5>2. chan[i].value <= hmc[p]
          BY <5>1, <4>2 DEF TopicOrder, Pending, Has
        <5> QED BY <5>1, <5>2, <4>1, <4>2, <4>4, <1>1, <1>2, <1>5
      <4> QED BY <4>1, <4>3, <4>4
    <3> QED BY <3>1, <3>2
  <2>4. \A q \in Prop : local'[q] <= hmc'[q] /\ reply'[q] <= hmc'[q]
    BY <1>5
  <2> QED BY <2>1, <2>2, <2>3, <2>4 DEF TopicOrder, Pending
<1>7. TopicEnd'
  <2>1. n # Removed
    BY <1>2, NotificationShape
  <2> QED BY <2>1, <1>1, <1>2, <1>3 DEF TopicEnd
<1> QED BY <1>1, <1>4, <1>6, <1>7

\* The topic after the HMC deleted the resource and announced it.
LEMMA TopicVanish ==
    ASSUME ResourceInv, Vanish, local' = local, reply' = reply
    PROVE  /\ TopicOrder' /\ TopicEnd'
           /\ \A m : Has(chan', m) <=> Has(chan, m) \/ (subscribed /\ m = Removed)
<1> USE DEF ResourceInv, TypeOK
<1>1. exists /\ ~exists' /\ UNCHANGED <<hmc, query, subscribed>>
  BY DEF Vanish
<1>2. Removed \in Notification /\ Removed.type = "remove"
  BY NotificationShape
<1>3. chan' = IF subscribed THEN Append(chan, Removed) ELSE chan
  BY DEF Vanish, Announce
<1>4. \A m : Has(chan', m) <=> Has(chan, m) \/ (subscribed /\ m = Removed)
  BY <1>2, <1>3, AppendHas
<1>5. CASE ~subscribed
  BY <1>1, <1>3, <1>4, <1>5 DEF TopicOrder, TopicEnd, Pending
<1>6. CASE subscribed
  <2>1. /\ Len(chan') = Len(chan) + 1 /\ Len(chan) \in Nat
        /\ \A k \in 1..Len(chan) : chan'[k] = chan[k]
        /\ chan'[Len(chan')] = Removed
    BY <1>2, <1>3, <1>6
  <2>2. TopicOrder'
    <3>1. \A p \in Prop, v \in Version : Change(p, v) # Removed
      BY <1>2, NotificationShape
    <3>2. ASSUME NEW i \in 1..Len(chan'), NEW j \in 1..Len(chan'), i < j,
                 chan'[i].type = "change", chan'[j].type = "change",
                 chan'[i].prop = chan'[j].prop
          PROVE  chan'[i].value < chan'[j].value
      <4>1. i \in 1..Len(chan) /\ j \in 1..Len(chan)
        BY <3>2, <2>1, <1>2
      <4> QED BY <4>1, <3>2, <2>1 DEF TopicOrder
    <3> QED BY <3>1, <3>2, <1>1, <1>4, <1>6 DEF TopicOrder, Pending
  <2>3. TopicEnd'
    BY <2>1, <1>1 DEF TopicEnd
  <2> QED BY <2>2, <2>3, <1>4
<1> QED BY <1>4, <1>5, <1>6

\* The topic after the listener took the head of it.
LEMMA TopicTail ==
    ASSUME ResourceInv, Receive, UNCHANGED <<exists, hmc, subscribed>>,
           \A p \in Prop : local'[p] <= hmc[p] /\ reply'[p] <= hmc[p]
    PROVE  /\ TopicOrder' /\ TopicEnd'
           /\ Head(chan) \in Notification
           /\ \A m : Has(chan, m) <=> m = Head(chan) \/ Has(chan', m)
<1> USE DEF ResourceInv, TypeOK
<1>1. chan # <<>> /\ chan' = Tail(chan)
  BY DEF Receive
<1>2. \A m : Has(chan, m) <=> m = Head(chan) \/ Has(chan', m)
  BY <1>1, TailHas
<1>3. /\ Len(chan) \in Nat /\ Len(chan') = Len(chan) - 1
      /\ \A i \in 1..Len(chan') : chan'[i] = chan[i + 1] /\ i + 1 \in 1..Len(chan)
      /\ Head(chan) = chan[1] /\ 1 \in 1..Len(chan)
      /\ \A i \in 1..Len(chan) : chan[i] \in Notification
  BY <1>1
<1>4. TopicOrder'
  <2>1. ASSUME NEW p \in Prop, NEW v \in Version, Has(chan', Change(p, v))
        PROVE  v <= hmc[p] /\ Has(chan', Change(p, hmc[p]))
    <3>1. v <= hmc[p] /\ Has(chan, Change(p, hmc[p]))
      BY <2>1, <1>2 DEF TopicOrder, Pending
    <3>2. ASSUME Head(chan) = Change(p, hmc[p]) PROVE FALSE
      <4>1. PICK i \in 1..Len(chan') : chan'[i] = Change(p, v)
        BY <2>1 DEF Has
      <4>2. chan[i + 1] = Change(p, v) /\ i + 1 \in 1..Len(chan) /\ 1 < i + 1
        BY <4>1, <1>3
      <4>3. chan[1] = Change(p, hmc[p]) /\ 1 \in 1..Len(chan) /\ hmc[p] \in Version
        BY <3>2, <1>3
      <4>4. /\ chan[1].type = "change" /\ chan[1].prop = p /\ chan[1].value = hmc[p]
            /\ chan[i + 1].type = "change" /\ chan[i + 1].prop = p /\ chan[i + 1].value = v
        BY <4>2, <4>3 DEF Change
      <4>5. hmc[p] < v
        BY <4>2, <4>3, <4>4 DEF TopicOrder
      <4> QED BY <4>5, <3>1, ResourceAssumption DEF Version
    <3> QED BY <3>1, <3>2, <1>2
  <2>2. ASSUME NEW i \in 1..Len(chan'), NEW j \in 1..Len(chan'), i < j,
               chan'[i].type = "change", chan'[j].type = "change",
               chan'[i].prop = chan'[j].prop
        PROVE  chan'[i].value < chan'[j].value
    <3>1. i + 1 \in 1..Len(chan) /\ j + 1 \in 1..Len(chan) /\ i + 1 < j + 1
      BY <2>2, <1>3
    <3> QED BY <3>1, <2>2, <1>3 DEF TopicOrder
  <2> QED BY <2>1, <2>2, <1>1 DEF TopicOrder, Pending
<1>5. TopicEnd'
  <2>1. ASSUME NEW i \in 1..Len(chan'), chan'[i] = Removed PROVE i = Len(chan') /\ ~exists
    BY <2>1, <1>3 DEF TopicEnd
  <2>2. ASSUME ~exists, chan' # <<>> PROVE chan'[Len(chan')] = Removed
    <3>1. Len(chan') \in 1..Len(chan')
      BY <1>1, <2>2
    <3>2. chan'[Len(chan')] = chan[Len(chan)]
      BY <3>1, <1>3
    <3> QED BY <3>2, <2>2, <1>1 DEF TopicEnd
  <2> QED BY <2>1, <2>2 DEF TopicEnd
<1> QED BY <1>1, <1>2, <1>3, <1>4, <1>5

--------------------------------------------------------------------------------
(* Every step keeps the invariant *)

LEMMA KeepChangedElsewhere == ResourceInv /\ ChangedElsewhere /\ TypeOK' => ResourceInv'
<1> SUFFICES ASSUME ResourceInv, ChangedElsewhere, TypeOK' PROVE ResourceInv'
  OBVIOUS
<1> USE DEF ResourceInv
<1>1. UNCHANGED <<local, full, ceased, auto, pc, names, reply, synced>>
  BY DEF ChangedElsewhere, objVars, callVars
<1>2. CASE Vanish
  <2>1. /\ TopicOrder' /\ TopicEnd' /\ UNCHANGED <<hmc, subscribed>> /\ exists /\ ~exists'
        /\ \A m : Has(chan', m) <=> Has(chan, m) \/ (subscribed /\ m = Removed)
    BY <1>1, <1>2, TopicVanish DEF Vanish
  <2> QED BY <1>1, <2>1 DEF ReplyShape, ReplyLag, Answered, SyncedIsPending, FullHasAll,
             CeasedIsGone, Pending
<1>3. ASSUME NEW p \in Prop, Advance(p) PROVE ResourceInv'
  <2>1. \A q \in Prop : hmc'[q] = IF q = p THEN hmc[p] + 1 ELSE hmc[q]
    BY <1>3 DEF Advance, TypeOK
  <2>2. \A q \in Prop : reply'[q] <= hmc'[q]
    <3>1. \A q \in Prop : reply[q] \in Int /\ hmc[q] \in Int /\ reply[q] <= hmc[q]
      BY ResourceAssumption DEF TypeOK, TopicOrder, Version, NoValue
    <3> QED BY <1>1, <2>1, <3>1
  <2>3. /\ TopicOrder' /\ TopicEnd' /\ UNCHANGED <<exists, subscribed>> /\ exists
        /\ \A m : Has(chan', m) <=> Has(chan, m) \/ (subscribed /\ m = Change(p, hmc'[p]))
    BY <1>1, <1>3, <2>2, TopicAdvance DEF Advance
  <2>4. ReplyShape' /\ FullHasAll'
    BY <1>1, <2>3 DEF ReplyShape, FullHasAll
  <2>5. ReplyLag' /\ SyncedIsPending' /\ CeasedIsGone'
    BY <1>1, <2>1, <2>3 DEF ReplyLag, Answered, SyncedIsPending, CeasedIsGone, Pending, TypeOK
  <2> QED BY <2>3, <2>4, <2>5
<1> QED BY <1>2, <1>3 DEF ChangedElsewhere

\* The answers of the HMC.
LEMMA KeepAnswer ==
    ASSUME ResourceInv, AnswerGet \/ RejectQuery \/ AnswerPost \/ AnswerDelete, TypeOK'
    PROVE  ResourceInv'
<1> USE DEF ResourceInv
<1>1. UNCHANGED <<local, full, ceased, auto, names, synced>>
  BY DEF AnswerGet, RejectQuery, AnswerPost, AnswerDelete, objVars
<1>2. CASE AnswerGet
  <2>1. UNCHANGED <<exists, hmc, chan, subscribed>> /\ exists
    BY <1>2 DEF AnswerGet, hmcVars
  <2>2. \A p \in Prop : reply'[p] = hmc[p] \/ (reply'[p] = NoValue /\ reply'[p] <= hmc[p])
    BY <1>2, ResourceAssumption DEF AnswerGet, TypeOK, Version, NoValue
  <2>3. TopicOrder' /\ TopicEnd'
    <3>0. \A p \in Prop : hmc[p] \in Nat
      BY ResourceAssumption DEF TypeOK, Version
    <3>1. \A p \in Prop : reply'[p] <= hmc[p]
      BY <2>2, <3>0
    <3> QED BY <1>1, <2>1, <3>1 DEF TopicOrder, TopicEnd, Pending
  <2>4. ReplyShape'
    <3>1. \A p \in Prop : hmc[p] # NoValue
      BY ResourceAssumption DEF TypeOK, Version, NoValue
    <3>2. CASE pc = "query" /\ query = "supported"
      <4>1. {p \in Prop : reply'[p] # NoValue} = names
        BY <1>2, <3>1, <3>2 DEF AnswerGet, TypeOK
      <4> QED BY <1>1, <1>2, <3>2, <4>1 DEF AnswerGet, ReplyShape
    <3>3. CASE ~ (pc = "query" /\ query = "supported")
      <4>1. \A p \in Prop : reply'[p] # NoValue
        BY <1>2, <3>1, <3>3 DEF AnswerGet
      <4> QED BY <1>2, <4>1 DEF AnswerGet, ReplyShape
    <3> QED BY <3>2, <3>3
  <2> QED BY <1>1, <2>1, <2>2, <2>3, <2>4
          DEF ReplyLag, Answered, SyncedIsPending, FullHasAll, CeasedIsGone, Pending
<1>3. CASE RejectQuery
  BY <1>1, <1>3 DEF RejectQuery, hmcVars, TopicOrder, TopicEnd, ReplyShape, ReplyLag, Answered,
                    SyncedIsPending, FullHasAll, CeasedIsGone, Pending
<1>4. CASE AnswerPost
  <2> PICK p \in names : Advance(p) /\ reply' = [Nothing EXCEPT ![p] = hmc[p] + 1]
    BY <1>4 DEF AnswerPost
  <2>1. p \in Prop /\ names = {p} /\ pc' = "posted"
    BY <1>4 DEF AnswerPost, ReplyShape, TypeOK
  <2>2. \A q \in Prop : /\ hmc'[q] = IF q = p THEN hmc[p] + 1 ELSE hmc[q]
                        /\ reply'[q] = IF q = p THEN hmc[p] + 1 ELSE NoValue
                        /\ hmc[q] \in Nat
    BY <2>1, ResourceAssumption DEF Advance, TypeOK, Nothing, Version
  <2>3. \A q \in Prop : reply'[q] <= hmc'[q]
    BY <2>2 DEF NoValue
  <2>4. /\ TopicOrder' /\ TopicEnd' /\ UNCHANGED <<exists, subscribed>> /\ exists
        /\ \A m : Has(chan', m) <=> Has(chan, m) \/ (subscribed /\ m = Change(p, hmc'[p]))
    BY <1>1, <2>1, <2>3, TopicAdvance DEF Advance
  <2>5. ReplyShape'
    BY <1>1, <2>1, <2>2 DEF ReplyShape, NoValue
  <2>6. ReplyLag'
    BY <1>1, <2>1, <2>2, <2>4 DEF ReplyLag, Answered
  <2>7. SyncedIsPending'
    BY <1>1, <2>1, <2>2, <2>4 DEF SyncedIsPending, ReplyLag, Pending, TypeOK
  <2>8. FullHasAll' /\ CeasedIsGone'
    BY <1>1, <2>4 DEF FullHasAll, CeasedIsGone
  <2> QED BY <2>4, <2>5, <2>6, <2>7, <2>8
<1>5. CASE AnswerDelete
  <2>1. Vanish /\ UNCHANGED <<hmc, subscribed, reply>> /\ exists /\ ~exists' /\ pc' = "deleted"
    BY <1>5 DEF AnswerDelete, Vanish
  <2>2. /\ TopicOrder' /\ TopicEnd'
        /\ \A m : Has(chan', m) <=> Has(chan, m) \/ (subscribed /\ m = Removed)
    BY <1>1, <2>1, TopicVanish
  <2> QED BY <1>1, <2>1, <2>2 DEF ReplyShape, ReplyLag, Answered, SyncedIsPending, FullHasAll,
             CeasedIsGone, Pending
<1> QED BY <1>2, <1>3, <1>4, <1>5

\* The steps of the user thread that write no property.
LEMMA KeepUser ==
    ASSUME ResourceInv, TypeOK',
           \/ PullFull \/ (\E asked \in Names : PullProperties(asked)) \/ GetNotFound
           \/ RequestFails \/ (\E p \in Writable : Update(p)) \/ Destroy \/ MarkDeleted
           \/ Enable \/ Disable \/ (\E p \in Prop : GetProperty(p))
    PROVE  ResourceInv'
<1> USE DEF ResourceInv
<1>1. /\ UNCHANGED <<exists, hmc, query, chan, local, full>>
      /\ subscribed => subscribed'
      /\ reply' = reply \/ reply' = Nothing
      /\ synced' = synced \/ synced' = {}
      /\ auto' = auto \/ synced' = {}
      /\ auto' /\ auto' # auto => subscribed' /\ pc' \in {"idle", "full"}
      /\ subscribed' # subscribed => subscribed' /\ auto'
      /\ ceased => ceased'
      /\ ceased' # ceased => pc = "deleted" \/ ~exists
      /\ pc' \in {"idle", "query", "full", "post", "delete"}
  BY DEF PullFull, GetProperty, PullProperties, GetNotFound, RequestFails, Update, Destroy, MarkDeleted,
         Enable, Disable, Return, hmcVars, objVars, callVars, TypeOK
<1>2. TopicOrder' /\ TopicEnd'
  <2>1. \A p \in Prop : reply'[p] <= hmc[p]
    BY <1>1, ResourceAssumption DEF TopicOrder, Nothing, NoValue, TypeOK, Version
  <2> QED BY <1>1, <2>1 DEF TopicOrder, TopicEnd, Pending
<1>3. ReplyShape'
  <2>1. pc' = "post" => \E p \in Prop : names' = {p}
    BY ResourceAssumption
       DEF PullFull, GetProperty, PullProperties, GetNotFound, RequestFails, Update, Destroy, MarkDeleted,
           Enable, Disable, Return, callVars, ReplyShape
  <2> QED BY <1>1, <2>1 DEF ReplyShape
<1>4. ReplyLag' /\ FullHasAll'
  BY <1>1 DEF ReplyLag, Answered, FullHasAll
<1>5. SyncedIsPending'
  BY <1>1 DEF SyncedIsPending, Pending
<1>6. CeasedIsGone'
  BY <1>1 DEF CeasedIsGone, ReplyShape, Pending
<1> QED BY <1>2, <1>3, <1>4, <1>5, <1>6

\* Writing an answer into the object.
LEMMA KeepMerge ==
    ASSUME ResourceInv, TypeOK', NEW got \in SUBSET Prop, Merge(got), Answered,
           \A p \in got : reply[p] # NoValue,
           full' => full \/ got = Prop
    PROVE  ResourceInv'
<1> USE DEF ResourceInv
<1>1. /\ UNCHANGED <<exists, hmc, query, chan, subscribed, ceased, auto>>
      /\ pc' = "idle" /\ reply' = Nothing
      /\ synced' = IF auto THEN (synced \ got) \cup InOrder(got) ELSE {}
  BY DEF Merge, Return, hmcVars
<1>2. \A p \in Prop : local'[p] = IF p \in got THEN reply[p] ELSE local[p]
  BY DEF Merge
<1>3. \A p \in Prop : /\ reply[p] \in Int /\ local[p] \in Int /\ hmc[p] \in Nat
                      /\ reply[p] <= hmc[p] /\ local[p] <= hmc[p]
                      /\ reply'[p] = NoValue /\ NoValue <= hmc[p]
  BY <1>1, ResourceAssumption DEF TypeOK, TopicOrder, Version, NoValue, Nothing
<1>4. TopicOrder' /\ TopicEnd'
  BY <1>1, <1>2, <1>3 DEF TopicOrder, TopicEnd, Pending
<1>5. ReplyShape' /\ ReplyLag'
  BY <1>1 DEF ReplyShape, ReplyLag, Answered
<1>6. FullHasAll'
  BY <1>2 DEF FullHasAll
<1>7. SyncedIsPending'
  <2> SUFFICES ASSUME auto, NEW p \in synced'
               PROVE  local'[p] = hmc[p] \/ Has(chan, Change(p, hmc[p]))
    BY <1>1 DEF SyncedIsPending, Pending
  <2>1. p \in Prop
    BY DEF TypeOK
  <2>2. CASE p \notin got
    <3>1. p \in synced
      BY <1>1, <2>2 DEF InOrder
    <3> QED BY <2>1, <2>2, <3>1, <1>2 DEF SyncedIsPending, Pending
  <2>3. CASE p \in got
    <3>1. reply[p] >= local[p]
      BY <1>1, <2>3 DEF InOrder
    <3>2. reply[p] = hmc[p] \/ local[p] = hmc[p] \/ Has(chan, Change(p, hmc[p]))
      BY <2>1, <2>3 DEF ReplyLag, Pending
    <3> QED BY <2>1, <2>3, <3>1, <3>2, <1>2, <1>3
  <2> QED BY <2>2, <2>3
<1>8. CeasedIsGone'
  BY <1>1 DEF CeasedIsGone, ReplyLag, Pending
<1> QED BY <1>4, <1>5, <1>6, <1>7, <1>8

\* The listener thread.
LEMMA KeepListener ==
    ASSUME ResourceInv, TypeOK', Listener
    PROVE  ResourceInv'
<1> USE DEF ResourceInv
<1>1. Receive /\ UNCHANGED <<exists, hmc, query, subscribed, full, auto, pc, names, reply>>
  BY DEF Listener, OnChange, OnRemove, OnIgnored, objVars, callVars
<1>2. Head(chan) \in Notification
  BY <1>1 DEF Receive, TypeOK
<1>3. CASE OnChange
  <2>1. auto /\ ceased' = ceased /\ subscribed
    BY <1>3 DEF OnChange, ReplyLag
  <2>2. PICK p \in Prop, v \in Version : Head(chan) = Change(p, v)
    BY <1>2, <1>3, NotificationShape DEF OnChange
  <2>3. Head(chan).prop = p /\ Head(chan).value = v
    BY <2>2, NotificationShape
  <2>4. /\ \A q \in Prop : local'[q] = IF q = p THEN v ELSE local[q]
        /\ synced' = synced \cup {p}
    BY <1>3, <2>3 DEF OnChange, TypeOK
  <2>5. Has(chan, Change(p, v))
    BY <1>1, <2>2, TailHas DEF Receive, TypeOK
  <2>6. v <= hmc[p] /\ Has(chan, Change(p, hmc[p]))
    BY <2>5 DEF TopicOrder, Pending
  <2>7. /\ TopicOrder' /\ TopicEnd'
        /\ \A m : Has(chan, m) <=> m = Head(chan) \/ Has(chan', m)
    <3>1. \A q \in Prop : local'[q] <= hmc[q] /\ reply'[q] <= hmc[q]
      BY <1>1, <2>4, <2>6 DEF TopicOrder
    <3> QED BY <1>1, <3>1, TopicTail
  <2>8. ASSUME NEW q \in Prop, q # p, Has(chan, Change(q, hmc[q]))
        PROVE  Has(chan', Change(q, hmc[q]))
    BY <2>2, <2>7, <2>8 DEF Change
  <2>9. local'[p] = hmc[p] \/ Has(chan', Change(p, hmc[p]))
    BY <2>2, <2>4, <2>6, <2>7 DEF Change
  <2>10. ~exists => Has(chan', Removed)
    <3> SUFFICES ASSUME ~exists PROVE Has(chan', Removed)
      OBVIOUS
    <3>1. chan # <<>> /\ chan[Len(chan)] = Removed /\ Len(chan) \in 1..Len(chan)
      BY <1>1 DEF Receive, TopicEnd, TypeOK
    <3>2. Has(chan, Removed)
      BY <3>1 DEF Has
    <3>3. Change(p, v) # Removed
      BY NotificationShape
    <3> QED BY <2>2, <2>7, <3>2, <3>3
  <2>11. ReplyShape' /\ FullHasAll'
    <3>1. v # NoValue
      BY ResourceAssumption DEF Version, NoValue
    <3> QED BY <1>1, <2>4, <3>1 DEF ReplyShape, FullHasAll
  <2>12. ReplyLag'
    BY <1>1, <2>1, <2>4, <2>8, <2>9, <2>10 DEF ReplyLag, Answered, Pending
  <2>13. SyncedIsPending'
    BY <1>1, <2>1, <2>4, <2>8, <2>9 DEF SyncedIsPending, Pending, TypeOK
  <2>14. CeasedIsGone'
    BY <1>1, <2>1, <2>10 DEF CeasedIsGone, Pending
  <2> QED BY <2>7, <2>11, <2>12, <2>13, <2>14
<1>4. CASE OnRemove
  <2>1. ceased' /\ UNCHANGED <<local, synced>> /\ Head(chan) = Removed
    BY <1>2, <1>4, NotificationShape DEF OnRemove
  <2>2. ~exists
    <3>1. 1 \in 1..Len(chan) /\ chan[1] = Removed
      BY <1>1, <2>1 DEF Receive, TypeOK
    <3> QED BY <3>1 DEF TopicEnd
  <2>3. /\ TopicOrder' /\ TopicEnd'
        /\ \A m : Has(chan, m) <=> m = Head(chan) \/ Has(chan', m)
    <3>1. \A q \in Prop : local'[q] <= hmc[q] /\ reply'[q] <= hmc[q]
      BY <1>1, <2>1 DEF TopicOrder
    <3> QED BY <1>1, <3>1, TopicTail
  <2>4. \A p \in Prop, v \in Version : Has(chan, Change(p, v)) => Has(chan', Change(p, v))
    BY <2>1, <2>3, NotificationShape
  <2>5. ReplyShape' /\ FullHasAll' /\ CeasedIsGone'
    BY <1>1, <2>1, <2>2 DEF ReplyShape, FullHasAll, CeasedIsGone
  <2>6. ReplyLag' /\ SyncedIsPending'
    BY <1>1, <2>1, <2>4 DEF ReplyLag, Answered, SyncedIsPending, Pending, TypeOK
  <2> QED BY <2>3, <2>5, <2>6
<1>5. CASE OnIgnored
  <2>1. ~auto /\ UNCHANGED <<local, ceased, synced>>
    BY <1>5 DEF OnIgnored, objVars
  <2>2. TopicOrder' /\ TopicEnd'
    <3>1. \A q \in Prop : local'[q] <= hmc[q] /\ reply'[q] <= hmc[q]
      BY <1>1, <2>1 DEF TopicOrder
    <3> QED BY <1>1, <3>1, TopicTail
  <2> QED BY <1>1, <2>1, <2>2
          DEF ReplyShape, ReplyLag, FullHasAll, SyncedIsPending, CeasedIsGone
<1> QED BY <1>3, <1>4, <1>5 DEF Listener

\* The inductive invariant holds in every behaviour.
THEOREM ResourceInvariant == Spec => []ResourceInv
<1>1. Init => ResourceInv
  BY InvInit
<1>2. ResourceInv /\ [Next]_vars => ResourceInv'
  <2> SUFFICES ASSUME ResourceInv, [Next]_vars PROVE ResourceInv'
    OBVIOUS
  <2>1. TypeOK'
    BY TypeStep DEF ResourceInv
  <2>2. CASE ChangedElsewhere
    BY <2>1, <2>2, KeepChangedElsewhere
  <2>3. CASE AnswerGet \/ RejectQuery \/ AnswerPost \/ AnswerDelete
    BY <2>1, <2>3, KeepAnswer
  <2>4. CASE \/ PullFull \/ (\E asked \in Names : PullProperties(asked)) \/ GetNotFound
             \/ RequestFails \/ (\E p \in Writable : Update(p)) \/ Destroy \/ MarkDeleted
             \/ Enable \/ Disable \/ (\E p \in Prop : GetProperty(p))
    BY <2>1, <2>4, KeepUser
  <2>5. CASE MergeGet
    <3> DEFINE got == {p \in Prop : reply[p] # NoValue}
    <3>1. Merge(got) /\ Answered
      BY <2>5 DEF MergeGet, Answered
    <3>2. full' => full \/ got = Prop
      <4>1. got = names => ~ (Cardinality(got) > Cardinality(names))
        <5>1. Cardinality(names) \in Nat
          BY ResourceAssumption, FS_Subset, FS_CardinalityType DEF ResourceInv, TypeOK
        <5> QED BY <5>1
      <4>2. CASE pc = "gotFull"
        BY <4>2 DEF ResourceInv, ReplyShape
      <4>3. CASE pc = "got"
        <5>1. got = names \/ got = Prop
          BY <4>3 DEF ResourceInv, ReplyShape
        <5> QED BY <5>1, <4>1, <4>3, <2>5 DEF MergeGet
      <4> QED BY <4>2, <4>3, <2>5 DEF MergeGet
    <3> QED BY <2>1, <3>1, <3>2, KeepMerge
  <2>6. CASE MergeUpdate
    <3>1. names \in SUBSET Prop /\ Merge(names) /\ Answered /\ full' = full
          /\ \A p \in names : reply[p] # NoValue
      BY <2>6 DEF MergeUpdate, Answered, ResourceInv, ReplyShape, TypeOK
    <3> QED BY <2>1, <3>1, KeepMerge
  <2>7. CASE Listener
    BY <2>1, <2>7, KeepListener
  <2>8. CASE UNCHANGED vars
    BY <2>1, <2>8 DEF vars, hmcVars, objVars, callVars, ResourceInv, TopicOrder, TopicEnd,
                 ReplyShape, ReplyLag, Answered, SyncedIsPending, FullHasAll, CeasedIsGone, Pending
  <2> QED BY <2>2, <2>3, <2>4, <2>5, <2>6, <2>7, <2>8 DEF Next, Listener
<1> QED BY <1>1, <1>2, PTL DEF Spec

\* A property of an auto-updated object whose last write was in order has the
\* HMC's value, or that value is on its way.
THEOREM SyncedCorrect == Spec => []SyncedIsPending
  BY ResourceInvariant, PTL DEF ResourceInv

\* An object that is taken for complete has every property.
THEOREM FullCorrect == Spec => []FullHasAll
  BY ResourceInvariant, PTL DEF ResourceInv

\* An object is marked as ceased only when the resource is gone, and an
\* auto-updated one never misses it.
THEOREM CeasedCorrect == Spec => []CeasedIsGone
  BY ResourceInvariant, PTL DEF ResourceInv

\* Both together: what an object says of itself is true.
THEOREM SelfKnowledgeCorrect == Spec => []SelfKnowledge
  BY FullCorrect, CeasedCorrect, PTL DEF SelfKnowledge
================================================================================
