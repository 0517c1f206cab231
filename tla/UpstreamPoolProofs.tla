------------------------- MODULE UpstreamPoolProofs --------------------------
(* Theorems about UpstreamPool, for any requests, pools, connections and    *)
(* limits.                                                                  *)
EXTENDS UpstreamPool, FiniteSetTheorems, WellFoundedInduction, TLAPS

-----------------------------------------------------------------------------
(* Sequences: what is left of an idle list *)

LEMMA LeastNatural ==
  ASSUME NEW S \in SUBSET Nat, S # {}
  PROVE  \E m \in S : \A n \in S : m <= n
<1> DEFINE R == OpToRel(<, Nat)
<1>1. PICK m \in S : \A y \in S : ~ (<<y, m>> \in R)
  <2>1. IsWellFoundedOn(R, Nat)
        BY NatLessThanWellFounded
  <2> HIDE DEF R
  <2>2. QED
        BY <2>1, WFMin
<1>2. \A y \in S : ~ (y < m)
      BY <1>1 DEF OpToRel
<1>3. QED
      BY <1>2

Distinct(s) == \A i, j \in 1..Len(s) : s[i] = s[j] => i = j

\* Of the entries of t, none twice that t has but once.
Part(s, t) ==
  /\ s \in Seq(Conns) /\ Len(s) <= Len(t)
  /\ \A i \in 1..Len(s) : \E j \in 1..Len(t) : s[i] = t[j]
  /\ Distinct(t) => Distinct(s)

LEMMA PrefixPart ==
  ASSUME NEW t \in Seq(Conns), NEW i \in 1..Len(t)
  PROVE  Part(SubSeq(t, 1, i - 1), t) /\ Len(SubSeq(t, 1, i - 1)) < Len(t)
<1>1. Len(t) \in Nat /\ i \in Nat
      OBVIOUS
<1>2. /\ SubSeq(t, 1, i - 1) \in Seq(Conns)
      /\ Len(SubSeq(t, 1, i - 1)) = i - 1
      /\ \A k \in 1..(i - 1) : SubSeq(t, 1, i - 1)[k] = t[k]
      BY <1>1
<1>3. QED
      BY <1>1, <1>2 DEF Part, Distinct

LEMMA NonePart ==
  ASSUME NEW t \in Seq(Conns)
  PROVE  Part(<< >>, t)
BY DEF Part, Distinct

LEMMA SamePart ==
  ASSUME NEW t \in Seq(Conns)
  PROVE  Part(t, t)
BY DEF Part, Distinct

LEMMA CountTo ==
  ASSUME NEW l \in Nat
  PROVE  IsFiniteSet(1..l) /\ Cardinality(1..l) = l
<1>1. /\ IsFiniteSet(1..l)
      /\ Cardinality(1..l) = IF 1 > l THEN 0 ELSE l - 1 + 1
      BY FS_Interval
<1>2. QED
      BY <1>1

\* There is an entry of every rank, so that Retained is what it says.
LEMMA RankHit ==
  ASSUME NEW l \in Nat, NEW S \in SUBSET (1..l), NEW k \in 1..Cardinality(S)
  PROVE  \E i \in S : Cardinality({j \in S : j <= i}) = k
<1> DEFINE UpTo(m) == {j \in S : j <= m}
<1>0. \A j \in S : j \in Nat /\ 1 <= j /\ j <= l
      OBVIOUS
<1>1. /\ \A m \in Nat : IsFiniteSet(UpTo(m)) /\ Cardinality(UpTo(m)) \in Nat
      /\ Cardinality(S) \in Nat /\ k \in Nat
  <2>1. IsFiniteSet(1..l)
        BY FS_Interval
  <2>2. IsFiniteSet(S)
        BY <2>1, FS_Subset
  <2>3. \A m \in Nat : IsFiniteSet(UpTo(m))
        BY <2>2, FS_Subset
  <2>4. QED
        BY <2>2, <2>3, FS_CardinalityType
<1>2. PICK m \in Nat : /\ Cardinality(UpTo(m)) >= k
                       /\ \A n \in Nat : Cardinality(UpTo(n)) >= k => m <= n
  <2> DEFINE Enough == {m \in Nat : Cardinality(UpTo(m)) >= k}
  <2>1. UpTo(l) = S
        BY <1>0
  <2>2. l \in Enough
        BY <1>1, <2>1
  <2>3. Enough \subseteq Nat /\ Enough # {}
        BY <2>2
  <2>4. PICK m \in Enough : \A n \in Enough : m <= n
    <3> HIDE DEF Enough
    <3>1. QED
          BY <2>3, LeastNatural
  <2>5. QED
        BY <2>4
<1>3. m # 0
  <2>1. UpTo(0) = {}
    <3>1. \A j \in S : ~ j <= 0
          BY <1>0
    <3>2. QED
          BY <3>1
  <2>2. Cardinality({}) = 0
        BY FS_EmptySet
  <2>3. QED
        BY <1>1, <1>2, <2>1, <2>2
<1>4. m - 1 \in Nat /\ ~ Cardinality(UpTo(m - 1)) >= k
  <2>1. m - 1 \in Nat /\ ~ m <= m - 1
        BY <1>3
  <2>2. QED
        BY <1>2, <2>1
<1>5. m \in S
  <2>1. ASSUME m \notin S PROVE UpTo(m) = UpTo(m - 1)
    <3>1. \A j \in S : j <= m <=> j <= m - 1
          BY <1>0, <2>1
    <3>2. QED
          BY <3>1
  <2>2. QED
        BY <1>2, <1>4, <2>1
<1>6. Cardinality(UpTo(m)) = k
  <2>1. UpTo(m) = UpTo(m - 1) \cup {m}
    <3>1. \A j \in S : j <= m <=> j <= m - 1 \/ j = m
          BY <1>0
    <3>2. QED
          BY <1>5, <3>1
  <2>2. IsFiniteSet(UpTo(m - 1)) /\ Cardinality(UpTo(m - 1)) \in Nat
        /\ Cardinality(UpTo(m)) \in Nat
        BY <1>1, <1>4
  <2> HIDE DEF UpTo
  <2>3. Cardinality(UpTo(m - 1) \cup {m}) =
          IF m \in UpTo(m - 1) THEN Cardinality(UpTo(m - 1))
                               ELSE Cardinality(UpTo(m - 1)) + 1
        BY <2>2, FS_AddElement
  <2>4. QED
        BY <1>1, <1>2, <1>4, <2>1, <2>2, <2>3
<1>7. QED
      BY <1>5, <1>6

LEMMA RetainedPart ==
  ASSUME NEW p \in Pools, idle[p] \in Seq(Conns), NEW n \in Nat
  PROVE  Part(Retained(p, n), idle[p])
<1> DEFINE s == idle[p]
           stay == {i \in (n + 1)..Len(s) : driver[s[i]] # "none"}
           Nth(k) == CHOOSE i \in stay : Cardinality({j \in stay : j <= i}) = k
<1>1. /\ s \in Seq(Conns) /\ Len(s) \in Nat
      /\ Retained(p, n) = [k \in 1..Cardinality(stay) |-> s[Nth(k)]]
      BY DEF Retained
<1>2. stay \subseteq 1..Len(s)
      BY <1>1
<1> HIDE DEF stay, s
<1>3. Cardinality(stay) \in Nat /\ Cardinality(stay) <= Len(s)
  <2>1. IsFiniteSet(1..Len(s)) /\ Cardinality(1..Len(s)) = Len(s)
        BY <1>1, CountTo
  <2>2. QED
        BY <1>2, <2>1, FS_Subset, FS_CardinalityType
<1>4. ASSUME NEW k \in 1..Cardinality(stay)
      PROVE  Nth(k) \in stay /\ Cardinality({j \in stay : j <= Nth(k)}) = k
  <2>1. \E i \in stay : Cardinality({j \in stay : j <= i}) = k
    <3>1. stay \in SUBSET (1..Len(s)) /\ Len(s) \in Nat
          BY <1>1, <1>2
    <3>2. QED
          BY <3>1, RankHit
  <2>2. QED
        BY <2>1
<1> HIDE DEF Nth
<1>5. Retained(p, n) \in Seq(Conns) /\ Len(Retained(p, n)) = Cardinality(stay)
      /\ \A k \in 1..Cardinality(stay) : Retained(p, n)[k] = s[Nth(k)]
  <2>1. \A k \in 1..Cardinality(stay) : s[Nth(k)] \in Conns
    <3>1. \A i \in 1..Len(s) : s[i] \in Conns
          BY <1>1
    <3>2. QED
          BY <1>2, <1>4, <3>1
  <2>2. QED
        BY <1>1, <1>3, <2>1
<1>6. \A k \in 1..Len(Retained(p, n)) : \E j \in 1..Len(s) : Retained(p, n)[k] = s[j]
      BY <1>2, <1>4, <1>5
<1>7. ASSUME Distinct(s),
             NEW i \in 1..Cardinality(stay), NEW k \in 1..Cardinality(stay),
             s[Nth(i)] = s[Nth(k)]
      PROVE  i = k
  <2>1. Nth(i) \in 1..Len(s) /\ Nth(k) \in 1..Len(s)
        BY <1>2, <1>4
  <2>2. Nth(i) = Nth(k)
        BY <1>7, <2>1 DEF Distinct
  <2>3. QED
        BY <1>4, <2>2
<1>8. Distinct(s) => Distinct(Retained(p, n))
      BY <1>5, <1>7 DEF Distinct
<1>9. QED
      BY <1>3, <1>5, <1>6, <1>8 DEF Part, s

-----------------------------------------------------------------------------
(* Steps that several handlers take *)

LEMMA DroppedFacts ==
  ASSUME TypeOK, NEW S
  PROVE  /\ Dropped(S) \in [Conns -> {"none", "running", "cancelled"}]
         /\ \A c \in Conns :
              /\ Dropped(S)[c] = "none" <=> driver[c] = "none"
              /\ c \notin S => Dropped(S)[c] = driver[c]
BY DEF Dropped, TypeOK

LEMMA NotifyStep ==
  ASSUME NEW p, NEW others, NotifyOne(p, others)
  PROVE  /\ stored' \subseteq stored \cup {p}
         /\ others \subseteq notified'
         /\ notified' \subseteq others \cup Sleepers(p)
BY DEF NotifyOne

\* What a waiter leaves behind, or passes on.
LEMMA UnregisterStep ==
  ASSUME TypeOK, NEW r \in Requests, Unregister(r)
  PROVE  /\ r \notin notified' /\ stored' \subseteq stored \cup {pool[r]}
         /\ notified' \subseteq notified \cup Sleepers(pool[r])
BY NotifyStep DEF Unregister, notes, Sleepers

\* The ends of a request without a response.
Fails(r) == GiveUp(r) \/ Refused(r) \/ Reject(r) \/ EndTunnel(r)

LEMMA FailStep ==
  ASSUME NEW r \in Requests, Fails(r)
  PROVE  /\ Finish(r)
         /\ pc[r] \in Awaiting \cup {"local", "global", "gate", "ready", "tunnel"}
         /\ \/ UNCHANGED doomed
            \/ doomed' = doomed \cup {r} /\ upload'[r] = "held"
BY DEF Fails, GiveUp, Refused, Reject, EndTunnel, Awaiting

LEMMA FinishStep ==
  ASSUME TypeOK, NEW r \in Requests, Finish(r)
  PROVE  /\ pc' = [pc EXCEPT ![r] = "idle"]
         /\ conn' = [conn EXCEPT ![r] = Nobody]
         /\ answer' = [answer EXCEPT ![r] = "open"]
         /\ upload' = [upload EXCEPT ![r] = Orphaned(r)]
         /\ driver' = IF Http1(r) THEN Dropped({conn[r]}) ELSE driver
         /\ Unregister(r)
         /\ UNCHANGED <<pool, via, owner, owes, detached, idle, slot, shutdown, reap,
                        raced>>
BY DEF Finish, Goto, store, life

\* The steps of a request that only take or give up a permit.
Moves(r) ==
  \/ TryLocal(r) \/ Register(r) \/ WakeNotified(r) \/ WakePermit(r)
  \/ TryGate(r) \/ PassGate(r) \/ PassLocal(r)
  \/ TryGlobal(r) \/ PassGlobal(r) \/ AwaitReady(r) \/ Upgrade(r)

Hop(r, from, to) == pc[r] = from /\ pc' = [pc EXCEPT ![r] = to]

LEMMA MoveStep ==
  ASSUME NEW r \in Requests, Moves(r)
  PROVE  /\ UNCHANGED <<pool, conn, answer, upload, via, doomed, driver, owner,
                        owes, detached, idle, slot, shutdown, reap, raced>>
         /\ \/ Hop(r, "local", "global") /\ LocalFree(pool[r]) /\ UNCHANGED notes
            \/ Hop(r, "local", "register") /\ Http1(r) /\ UNCHANGED notes
            \/ Hop(r, "local", "localwait") /\ ~ Http1(r) /\ UNCHANGED notes
            \/ Register(r) /\ Hop(r, "register", "examine")
            \/ WakeNotified(r) /\ Hop(r, "wait", "register")
            \/ Hop(r, "wait", "global") /\ LocalFree(pool[r]) /\ Unregister(r)
            \/ Hop(r, "gate", "recheck") /\ GateFree(pool[r]) /\ UNCHANGED notes
            \/ Hop(r, "gate", "gatewait") /\ UNCHANGED notes
            \/ Hop(r, "gatewait", "recheck") /\ GateFree(pool[r]) /\ UNCHANGED notes
            \/ Hop(r, "localwait", "global") /\ LocalFree(pool[r]) /\ UNCHANGED notes
            \/ Hop(r, "global", "connect") /\ GlobalFree /\ UNCHANGED notes
            \/ Hop(r, "global", "globalwait") /\ UNCHANGED notes
            \/ Hop(r, "globalwait", "connect") /\ GlobalFree /\ UNCHANGED notes
            \/ Hop(r, "ready", "readywait") /\ UNCHANGED notes
            \/ Hop(r, "sent", "tunnel") /\ upload[r] = "done" /\ UNCHANGED notes
<1> USE DEF Hop, Goto, reqs, ups, wires, store, life
<1>1. CASE TryLocal(r)
      BY <1>1 DEF TryLocal
<1>2. CASE Register(r)
      BY <1>2 DEF Register
<1>3. CASE WakeNotified(r)
      BY <1>3 DEF WakeNotified
<1>4. CASE WakePermit(r)
      BY <1>4 DEF WakePermit
<1>5. CASE TryGate(r)
      BY <1>5 DEF TryGate
<1>6. CASE PassGate(r)
      BY <1>6 DEF PassGate
<1>7. CASE PassLocal(r)
      BY <1>7 DEF PassLocal
<1>8. CASE TryGlobal(r)
      BY <1>8 DEF TryGlobal
<1>9. CASE PassGlobal(r)
      BY <1>9 DEF PassGlobal
<1>10. CASE AwaitReady(r)
       BY <1>10 DEF AwaitReady
<1>11. CASE Upgrade(r)
       BY <1>11 DEF Upgrade
<1>12. QED
       BY <1>1, <1>2, <1>3, <1>4, <1>5, <1>6, <1>7, <1>8, <1>9, <1>10, <1>11
       DEF Moves

\* What acquire_http1 and the waiter do with the idle list.
LEMMA TakeStep ==
  ASSUME TypeOK, NEW r \in Requests, AcquireHttp1(r) \/ Examine(r)
  PROVE  /\ UNCHANGED <<pool, answer, upload, via, doomed, owner, owes, detached,
                        slot, shutdown, reap, raced>>
         /\ pc[r] \in {"acquire", "examine"} /\ (pc[r] = "acquire" => Http1(r))
         /\ \/ \E i \in DOMAIN idle[pool[r]] :
                 /\ TakeIdle(r, i)
                 /\ IF pc[r] = "examine" THEN Unregister(r) ELSE UNCHANGED notes
            \/ /\ TakeNone(r, IF pc[r] = "examine" THEN "wait" ELSE "local")
               /\ UNCHANGED notes
BY DEF AcquireHttp1, Examine, ups, life

Appended(r) ==
  /\ ~ shutdown /\ driver[conn[r]] # "none"
  /\ Len(idle[pool[r]]) < MaxIdle[pool[r]]
  /\ conn' = [conn EXCEPT ![r] = Nobody]
  /\ idle' = [idle EXCEPT ![pool[r]] = Append(@, conn[r])]
  /\ NotifyOne(pool[r], notified)
  /\ UNCHANGED driver

LEMMA SettleStep ==
  ASSUME TypeOK, NEW r \in Requests, NEW state, Settle(r, state)
  PROVE  \/ /\ ~ Http1(r) \/ conn[r] = Nobody
            /\ UNCHANGED <<conn, driver, idle, notes>>
         \/ /\ Http1(r) /\ conn' = [conn EXCEPT ![r] = Nobody]
            /\ driver' = Dropped({conn[r]}) /\ UNCHANGED <<idle, notes>>
         \/ /\ Http1(r) /\ conn[r] # Nobody /\ state = "ended" /\ upload[r] = "done"
            /\ Appended(r)
<1>1. CASE ~ (Http1(r) /\ conn[r] # Nobody)
      BY <1>1 DEF Settle
<1>2. CASE Http1(r) /\ conn[r] # Nobody
  <2>1. FinishHttp1(r, state)
        BY <1>2 DEF Settle
  <2>2. CASE state = "ended" /\ upload[r] = "done"
    <3>1. Return(pool[r], conn[r]) /\ conn' = [conn EXCEPT ![r] = Nobody]
          BY <2>1, <2>2 DEF FinishHttp1
    <3>2. Len(idle[pool[r]]) \in Nat /\ MaxIdle[pool[r]] \in Nat
          BY PoolAssumption DEF TypeOK
    <3>3. CASE shutdown \/ driver[conn[r]] = "none" \/ Len(idle[pool[r]]) >= MaxIdle[pool[r]]
          BY <1>2, <3>1, <3>3 DEF Return
    <3>4. CASE ~ (shutdown \/ driver[conn[r]] = "none" \/ Len(idle[pool[r]]) >= MaxIdle[pool[r]])
          BY <1>2, <2>2, <3>1, <3>2, <3>4 DEF Return, Appended
    <3>5. QED
          BY <3>3, <3>4
  <2>3. CASE ~ (state = "ended" /\ upload[r] = "done")
        BY <1>2, <2>1, <2>3 DEF FinishHttp1
  <2>4. QED
        BY <2>2, <2>3
<1>3. QED
      BY <1>1, <1>2

\* The connection of an answered request goes back to the list, or away.
Returns(r) ==
  /\ pc[r] = "body" /\ Http1(r) /\ conn[r] # Nobody /\ upload[r] = "done"
  /\ \/ answer[r] = "ended" /\ UNCHANGED owes
     \/ answer[r] = "ended" /\ owes' = Answered(r)
     \/ answer[r] = "open" /\ owes' = Answered(r)
  /\ Appended(r)

LEMMA BodyStep ==
  ASSUME TypeOK, NEW r \in Requests,
         ReadEnd(r) \/ ReadError(r) \/ IdleTimeout(r) \/ DropBody(r)
  PROVE  /\ pc[r] = "body"
         /\ UNCHANGED <<pool, via, owner, detached, slot, shutdown, reap, raced>>
         /\ \/ pc' = pc /\ upload' = upload
            \/ /\ pc' = [pc EXCEPT ![r] = "idle"] /\ conn'[r] = Nobody
               /\ upload' = [upload EXCEPT ![r] = Orphaned(r)]
               /\ answer' = [answer EXCEPT ![r] = "open"]
         /\ \E state \in {"open", "ended", "broken"} :
              answer' = [answer EXCEPT ![r] = state]
         /\ \/ UNCHANGED doomed
            \/ doomed' = doomed \cup {r} /\ upload[r] = "held"
         /\ owes' = owes \/ (conn[r] # Nobody /\ owes' = Answered(r))
         /\ \/ Returns(r)
            \/ UNCHANGED <<conn, driver, idle, notes>>
            \/ /\ conn' = [conn EXCEPT ![r] = Nobody]
               /\ driver' = IF Http1(r) THEN Dropped({conn[r]}) ELSE driver
               /\ UNCHANGED <<idle, notes>>
<1> USE DEF Goto, reqs, ups, notes, wires, store, life
<1>1. CASE ReadError(r)
      BY <1>1 DEF ReadError, TypeOK
<1>2. CASE IdleTimeout(r)
      BY <1>2 DEF IdleTimeout, Doom, TypeOK
<1>3. CASE ReadEnd(r)
  <2>1. /\ pc[r] = "body" /\ UNCHANGED <<pc, pool, upload, via, doomed, owner, detached,
                                         slot, shutdown, reap, raced>>
        /\ answer' = [answer EXCEPT ![r] = IF answer[r] = "broken" THEN "broken"
                                                                    ELSE "ended"]
        /\ Settle(r, IF answer[r] = "broken" THEN "broken" ELSE "ended")
        /\ owes' = IF answer[r] = "open" /\ conn[r] # Nobody
                   THEN Answered(r) ELSE owes
        BY <1>3 DEF ReadEnd
  <2>2. answer[r] \in {"open", "ended", "broken"}
        BY DEF TypeOK
  <2>3. QED
        BY <2>1, <2>2, SettleStep DEF Returns
<1>4. CASE DropBody(r)
  <2>1. /\ pc[r] = "body" /\ pc' = [pc EXCEPT ![r] = "idle"]
        /\ UNCHANGED <<pool, via, owner, owes, detached, slot, shutdown, reap, raced>>
        /\ answer' = [answer EXCEPT ![r] = "open"]
        /\ upload' = [upload EXCEPT ![r] = Orphaned(r)]
        /\ IF Http1(r) THEN Settle(r, answer[r])
           ELSE conn' = [conn EXCEPT ![r] = Nobody] /\ UNCHANGED <<driver, idle, notes>>
        /\ Doom(r)
        BY <1>4 DEF DropBody
  <2>2. /\ \/ Returns(r)
           \/ UNCHANGED <<conn, driver, idle, notes>>
           \/ /\ conn' = [conn EXCEPT ![r] = Nobody]
              /\ driver' = IF Http1(r) THEN Dropped({conn[r]}) ELSE driver
              /\ UNCHANGED <<idle, notes>>
        /\ conn'[r] = Nobody
    <3>1. CASE ~ Http1(r)
          BY <2>1, <3>1 DEF TypeOK
    <3>2. CASE Http1(r) /\ conn[r] = Nobody
          BY <2>1, <3>2 DEF Settle
    <3>3. CASE Http1(r) /\ conn[r] # Nobody
      <4>1. conn' = [conn EXCEPT ![r] = Nobody] => conn'[r] = Nobody
            BY DEF TypeOK
      <4>2. QED
            BY <2>1, <3>3, <4>1, SettleStep DEF Returns, Appended
    <3>4. QED
          BY <3>1, <3>2, <3>3
  <2>3. UNCHANGED doomed \/ (doomed' = doomed \cup {r} /\ upload[r] = "held")
        BY <2>1 DEF Doom
  <2>4. QED
        BY <2>1, <2>2, <2>3
<1>5. QED
      BY <1>1, <1>2, <1>3, <1>4

-----------------------------------------------------------------------------
(* Types *)

\* A body is carried, or doomed, only while its connection may poll it.
HandInv ==
  \A r \in Requests :
    /\ via[r] # Nobody => pc[r] \in {"sent", "body", "idle"}
    /\ r \in doomed => pc[r] \in {"body", "idle"}

LEMMA TypeInit == Init => TypeOK /\ HandInv
<1> SUFFICES ASSUME Init PROVE TypeOK /\ HandInv
    OBVIOUS
<1>1. TypeOK
  <2>1. (CHOOSE p \in Pools : TRUE) \in Pools
        BY PoolAssumption
  <2>2. /\ pc \in [Requests -> Places] /\ pool \in [Requests -> Pools]
        /\ conn \in [Requests -> Conns \cup {Nobody}]
        /\ answer \in [Requests -> {"open", "ended", "broken"}]
        /\ upload \in [Requests -> {"held", "done", "gone"}]
        /\ via \in [Requests -> Conns \cup {Nobody}]
        /\ driver \in [Conns -> {"none", "running", "cancelled"}]
        /\ owner \in [Conns -> Pools]
        /\ owes \in [Conns -> SUBSET {"request", "response"}]
        /\ detached \subseteq Conns
        BY <2>1 DEF Init, Places
  <2>3. /\ idle \in [Pools -> Seq(Conns)]
        /\ slot \in [Pools -> Conns \cup {Nobody}]
        /\ reap \in [pc : {"sleep", "idle", "look", "take", "ended"},
                     todo : SUBSET Pools, pool : Pools, round : {"tick", "last"}]
        BY <2>1 DEF Init
  <2>4. \A p \in Pools : Len(idle[p]) <= MaxIdle[p]
        BY PoolAssumption DEF Init
  <2>5. QED
        BY <2>2, <2>3, <2>4 DEF Init, TypeOK
<1>2. HandInv
      BY DEF Init, HandInv
<1>3. QED
      BY <1>1, <1>2

\* The variables of a request, but for its permits.
RequestTypes ==
  /\ pc \in [Requests -> Places] /\ pool \in [Requests -> Pools]
  /\ conn \in [Requests -> Conns \cup {Nobody}]
  /\ answer \in [Requests -> {"open", "ended", "broken"}]

UploadTypes ==
  /\ upload \in [Requests -> {"held", "done", "gone"}]
  /\ via \in [Requests -> Conns \cup {Nobody}]
  /\ doomed \subseteq {r \in Requests : upload[r] = "held"}
  /\ \A r \in Requests : via[r] # Nobody => upload[r] = "held"

NoteTypes ==
  /\ notified \subseteq {r \in Requests : pc[r] \in {"examine", "wait"}}
  /\ stored \subseteq Pools

WireTypes ==
  /\ driver \in [Conns -> {"none", "running", "cancelled"}]
  /\ owner \in [Conns -> Pools]
  /\ owes \in [Conns -> SUBSET {"request", "response"}]
  /\ detached \subseteq Conns
  /\ idle \in [Pools -> Seq(Conns)]
  /\ \A p \in Pools : Len(idle[p]) <= MaxIdle[p]
  /\ slot \in [Pools -> Conns \cup {Nobody}]

LifeTypes ==
  /\ raced \subseteq Requests
  /\ shutdown \in BOOLEAN
  /\ reap \in [pc : {"sleep", "idle", "look", "take", "ended"},
               todo : SUBSET Pools, pool : Pools, round : {"tick", "last"}]

LEMMA AllTypes ==
  TypeOK <=> /\ RequestTypes /\ UploadTypes /\ NoteTypes
             /\ WireTypes /\ LifeTypes
BY DEF TypeOK, RequestTypes, UploadTypes, NoteTypes, WireTypes, LifeTypes

LEMMA RequestStep ==
  ASSUME TypeOK, [Next]_vars
  PROVE  RequestTypes'
<1>0. RequestTypes /\ WireTypes
      BY AllTypes
<1> USE DEF RequestTypes
<1>1. ASSUME NEW r \in Requests, NEW p \in Pools, NEW body \in Uploads,
             Begin(r, p, body)
      PROVE  RequestTypes'
      BY <1>0, <1>1 DEF Begin, Goto, Places
<1>2. ASSUME NEW r \in Requests, Fails(r)
      PROVE  RequestTypes'
  <2>1. Finish(r)
        BY <1>2, FailStep
  <2>2. QED
        BY <1>0, <2>1, FinishStep DEF Places
<1>3. ASSUME NEW r \in Requests, Moves(r)
      PROVE  RequestTypes'
      BY <1>0, <1>3, MoveStep DEF Hop, Places, Queues, Reserved, Gated
<1>4. ASSUME NEW r \in Requests, AcquireHttp1(r) \/ Examine(r)
      PROVE  RequestTypes'
  <2>1. ASSUME NEW i \in DOMAIN idle[pool[r]], TakeIdle(r, i)
        PROVE  conn' \in [Requests -> Conns \cup {Nobody}] /\ pc' \in [Requests -> Places]
    <3>1. idle[pool[r]][i] \in Conns
          BY <1>0, <2>1 DEF WireTypes
    <3>2. QED
          BY <1>0, <2>1, <3>1 DEF TakeIdle, Goto, Places
  <2>2. ASSUME TakeNone(r, IF pc[r] = "examine" THEN "wait" ELSE "local")
        PROVE  conn' \in [Requests -> Conns \cup {Nobody}] /\ pc' \in [Requests -> Places]
        BY <1>0, <2>2 DEF TakeNone, Goto, Places, Queues, Gated
  <2>3. QED
        BY <1>0, <1>4, <2>1, <2>2, TakeStep
<1>5. ASSUME NEW r \in Requests, AcquireHttp2(r) \/ Recheck(r)
      PROVE  RequestTypes'
      BY <1>0, <1>5 DEF AcquireHttp2, Recheck, Current, Goto, Places, Gated, WireTypes
<1>6. ASSUME NEW r \in Requests, NEW c \in Conns, Connected(r, c)
      PROVE  RequestTypes'
      BY <1>0, <1>6 DEF Connected, Goto, Places
<1>7. ASSUME NEW r \in Requests, Send(r) \/ Respond(r)
      PROVE  RequestTypes'
      BY <1>0, <1>7 DEF Send, Respond, Goto, Places
<1>8. ASSUME NEW r \in Requests,
             ReadEnd(r) \/ ReadError(r) \/ IdleTimeout(r) \/ DropBody(r)
      PROVE  RequestTypes'
  <2>1. conn' \in [Requests -> Conns \cup {Nobody}]
        BY <1>0, <1>8, BodyStep DEF Returns, Appended
  <2>2. pc' \in [Requests -> Places] /\ pool' = pool
        BY <1>0, <1>8, BodyStep DEF Places
  <2>3. answer' \in [Requests -> {"open", "ended", "broken"}]
        BY <1>0, <1>8, BodyStep
  <2>4. QED
        BY <1>0, <2>1, <2>2, <2>3
<1>9. CASE UNCHANGED reqs
      BY <1>0, <1>9 DEF reqs
<1>10. QED
       BY <1>1, <1>2, <1>3, <1>4, <1>5, <1>6, <1>7, <1>8, <1>9
       DEF Next, Acquire, Exchange, End, Fails, Moves, UploadEnds, UploadCut,
           DriverEnds, ReapStart, ReapBegin, Reap, ReapIdle, ReapLook, ReapTake,
           Shutdown, WindsDown, vars

LEMMA BeginStep ==
  ASSUME TypeOK, NEW r \in Requests, NEW p \in Pools, NEW body \in Uploads,
         Begin(r, p, body)
  PROVE  /\ pc[r] = "idle" /\ upload[r] # "held" /\ body \in {"held", "done"}
         /\ pc' = [pc EXCEPT ![r] = "acquire"] /\ pool' = [pool EXCEPT ![r] = p]
         /\ upload' = [upload EXCEPT ![r] = body]
         /\ UNCHANGED <<conn, answer, via, doomed, notes, driver, owner, owes,
                        idle, slot, shutdown, reap>>
         /\ ~ shutdown
<1>1. pc[r] = "idle" /\ upload[r] # "held"
  <2>1. r \in Of(pool[r]) /\ pool[r] \in Pools
        BY DEF Of, TypeOK
  <2>2. r \notin Leases(pool[r])
        BY <2>1 DEF Begin
  <2>3. QED
        BY <2>1, <2>2 DEF Leases
<1>2. QED
      BY <1>1, PoolAssumption DEF Begin, Goto, wires, store

LEMMA UploadStep ==
  ASSUME TypeOK, HandInv, [Next]_vars
  PROVE  UploadTypes' /\ HandInv'
<1>0. UploadTypes /\ RequestTypes
      BY AllTypes
<1> USE DEF UploadTypes, RequestTypes, HandInv
<1>1. ASSUME NEW r \in Requests, NEW p \in Pools, NEW body \in Uploads,
             Begin(r, p, body)
      PROVE  UploadTypes' /\ HandInv'
      BY <1>0, <1>1, BeginStep
<1>2. ASSUME NEW r \in Requests, Fails(r)
      PROVE  UploadTypes' /\ HandInv'
  <2>1. /\ pc' = [pc EXCEPT ![r] = "idle"] /\ via' = via
        /\ upload' = [upload EXCEPT ![r] = Orphaned(r)]
        /\ pc[r] # "idle" /\ pc[r] # "body"
        /\ UNCHANGED doomed \/ (doomed' = doomed \cup {r} /\ upload'[r] = "held")
        BY <1>2, FailStep, FinishStep DEF Awaiting
  <2>2. r \notin doomed
        BY <2>1
  <2>3. via[r] # Nobody => Orphaned(r) = "held"
        BY <1>0, <2>1 DEF Orphaned
  <2>4. Orphaned(r) \in {"held", "gone"}
        BY DEF Orphaned
  <2>5. QED
        BY <1>0, <2>1, <2>2, <2>3, <2>4
<1>3. ASSUME NEW r \in Requests, Moves(r)
      PROVE  UploadTypes' /\ HandInv'
      BY <1>0, <1>3, MoveStep DEF Hop
<1>4. ASSUME NEW r \in Requests, AcquireHttp1(r) \/ Examine(r)
      PROVE  UploadTypes' /\ HandInv'
      BY <1>0, <1>4, TakeStep DEF TakeIdle, TakeNone, Goto
<1>5. ASSUME NEW r \in Requests, AcquireHttp2(r) \/ Recheck(r)
      PROVE  UploadTypes' /\ HandInv'
      BY <1>0, <1>5 DEF AcquireHttp2, Recheck, Current, Goto, ups
<1>6. ASSUME NEW r \in Requests, NEW c \in Conns, Connected(r, c)
      PROVE  UploadTypes' /\ HandInv'
      BY <1>0, <1>6 DEF Connected, Goto, ups
<1>7. ASSUME NEW r \in Requests, Send(r)
      PROVE  UploadTypes' /\ HandInv'
      BY <1>0, <1>7 DEF Send, Goto
<1>8. ASSUME NEW r \in Requests, Respond(r)
      PROVE  UploadTypes' /\ HandInv'
      BY <1>0, <1>8 DEF Respond, Goto, ups
<1>9. ASSUME NEW r \in Requests,
             ReadEnd(r) \/ ReadError(r) \/ IdleTimeout(r) \/ DropBody(r)
      PROVE  UploadTypes' /\ HandInv'
  <2>1. upload[r] = "held" => Orphaned(r) = "held"
        BY <1>9, BodyStep DEF Orphaned
  <2>2. Orphaned(r) \in {"held", "gone"}
        BY DEF Orphaned
  <2>3. /\ via' = via /\ pc[r] = "body"
        /\ UNCHANGED doomed \/ (doomed' = doomed \cup {r} /\ upload[r] = "held")
        /\ \/ pc' = pc /\ upload' = upload
           \/ /\ pc' = [pc EXCEPT ![r] = "idle"]
              /\ upload' = [upload EXCEPT ![r] = Orphaned(r)]
        BY <1>9, BodyStep
  <2>4. QED
        BY <1>0, <2>1, <2>2, <2>3
<1>10. ASSUME NEW r \in Requests, UploadEnds(r) \/ UploadCut(r)
       PROVE  UploadTypes' /\ HandInv'
  <2>1. /\ UNCHANGED pc /\ via' = [via EXCEPT ![r] = Nobody]
        /\ \E u \in {"gone", "done"} : upload' = [upload EXCEPT ![r] = u]
        /\ doomed' \subseteq doomed /\ r \notin doomed'
        BY <1>10 DEF UploadEnds, UploadCut, reqs
  <2>2. QED
        BY <1>0, <2>1
<1>11. ASSUME NEW c \in Conns, DriverEnds(c)
       PROVE  UploadTypes' /\ HandInv'
       BY <1>0, <1>11 DEF DriverEnds, reqs
<1>12. CASE UNCHANGED <<pc, upload, via, doomed>>
       BY <1>0, <1>12
<1>13. QED
       BY <1>1, <1>2, <1>3, <1>4, <1>5, <1>6, <1>7, <1>8, <1>9, <1>10, <1>11, <1>12
       DEF Next, Acquire, Exchange, End, Fails, Moves, ReapStart, ReapBegin, Reap,
           ReapIdle, ReapLook, ReapTake, Shutdown, WindsDown, vars, reqs, ups

LEMMA NoteStep ==
  ASSUME TypeOK, [Next]_vars
  PROVE  NoteTypes'
<1>0. NoteTypes /\ RequestTypes
      BY AllTypes
<1> USE DEF NoteTypes, RequestTypes
<1>1. ASSUME NEW r \in Requests, NEW p \in Pools, NEW body \in Uploads,
             Begin(r, p, body)
      PROVE  NoteTypes'
      BY <1>0, <1>1, BeginStep DEF notes
<1>2. ASSUME NEW r \in Requests, NEW place, pc' = [pc EXCEPT ![r] = place],
             Unregister(r)
      PROVE  NoteTypes'
  <2>1. Sleepers(pool[r]) \subseteq {q \in Requests : pc[q] \in {"examine", "wait"}}
        BY DEF Sleepers, At, Of
  <2>2. QED
        BY <1>0, <1>2, <2>1, UnregisterStep
<1>3. ASSUME NEW r \in Requests, NEW place, pc' = [pc EXCEPT ![r] = place],
             pc[r] \notin {"examine", "wait"} \/ place \in {"examine", "wait"},
             UNCHANGED notes
      PROVE  NoteTypes'
      BY <1>0, <1>3 DEF notes
<1>4. ASSUME NEW r \in Requests, Fails(r)
      PROVE  NoteTypes'
      BY <1>2, <1>4, FailStep, FinishStep
<1>5. ASSUME NEW r \in Requests, Moves(r)
      PROVE  NoteTypes'
  <2>1. CASE Register(r) /\ Hop(r, "register", "examine")
        BY <1>0, <2>1 DEF Register, Hop
  <2>2. CASE WakeNotified(r) /\ Hop(r, "wait", "register")
        BY <1>0, <2>2 DEF WakeNotified, Hop
  <2>3. CASE Hop(r, "wait", "global") /\ Unregister(r)
        BY <1>2, <2>3 DEF Hop
  <2>4. QED
        BY <1>3, <1>5, <2>1, <2>2, <2>3, MoveStep DEF Hop
<1>6. ASSUME NEW r \in Requests, AcquireHttp1(r) \/ Examine(r)
      PROVE  NoteTypes'
  <2>1. CASE pc[r] = "examine"
        BY <1>2, <1>3, <1>6, <2>1, TakeStep DEF TakeIdle, TakeNone, Goto
  <2>2. CASE pc[r] # "examine"
    <3>1. pc[r] = "acquire" /\ UNCHANGED notes
          BY <1>6, <2>2, TakeStep
    <3>2. \E place : pc' = [pc EXCEPT ![r] = place]
          BY <1>6, TakeStep DEF TakeIdle, TakeNone, Goto
    <3>3. QED
          BY <1>3, <3>1, <3>2
  <2>3. QED
        BY <2>1, <2>2
<1>7. ASSUME NEW r \in Requests, AcquireHttp2(r) \/ Recheck(r)
      PROVE  NoteTypes'
      BY <1>3, <1>7 DEF AcquireHttp2, Recheck, Current, Goto
<1>8. ASSUME NEW r \in Requests, NEW c \in Conns, Connected(r, c)
      PROVE  NoteTypes'
      BY <1>3, <1>8 DEF Connected, Goto
<1>9. ASSUME NEW r \in Requests, Send(r) \/ Respond(r)
      PROVE  NoteTypes'
      BY <1>3, <1>9 DEF Send, Respond, Goto
<1>10. ASSUME NEW r \in Requests,
              ReadEnd(r) \/ ReadError(r) \/ IdleTimeout(r) \/ DropBody(r)
       PROVE  NoteTypes'
  <2>0. /\ pc[r] = "body"
        /\ pc' = pc \/ pc' = [pc EXCEPT ![r] = "idle"]
        /\ UNCHANGED notes \/ Returns(r)
        BY <1>10, BodyStep
  <2>1. /\ pc[r] = "body" /\ \A q \in Requests : q # r => pc'[q] = pc[q]
        /\ UNCHANGED notes \/ NotifyOne(pool[r], notified)
        BY <1>0, <2>0 DEF Returns, Appended
  <2>2. Sleepers(pool[r]) \subseteq {q \in Requests : pc[q] \in {"examine", "wait"}}
        BY DEF Sleepers, At, Of
  <2>3. notified' \subseteq {q \in Requests : pc[q] \in {"examine", "wait"}}
        /\ stored' \subseteq Pools
        BY <1>0, <2>1, <2>2, NotifyStep DEF notes
  <2>4. QED
        BY <2>1, <2>3
<1>11. CASE UNCHANGED <<pc, notes>>
       BY <1>0, <1>11 DEF notes
<1>12. QED
       BY <1>1, <1>4, <1>5, <1>6, <1>7, <1>8, <1>9, <1>10, <1>11
       DEF Next, Acquire, Exchange, End, Fails, Moves, UploadEnds, UploadCut,
           DriverEnds, ReapStart, ReapBegin, Reap, ReapIdle, ReapLook, ReapTake,
           Shutdown, WindsDown, vars, reqs

\* An idle list loses entries, or is given the connection of a request.
LEMMA IdleStep ==
  ASSUME TypeOK, [Next]_vars
  PROVE  \/ UNCHANGED idle
         \/ \E p \in Pools, s \in Seq(Conns) :
              idle' = [idle EXCEPT ![p] = s] /\ Part(s, idle[p])
         \/ \E r \in Requests : Returns(r)
<1>0. \A p \in Pools : idle[p] \in Seq(Conns)
      BY DEF TypeOK
<1>1. ASSUME NEW r \in Requests, AcquireHttp1(r) \/ Examine(r)
      PROVE  \E p \in Pools, s \in Seq(Conns) :
               idle' = [idle EXCEPT ![p] = s] /\ Part(s, idle[p])
  <2>0. pool[r] \in Pools /\ idle[pool[r]] \in Seq(Conns)
        BY <1>0 DEF TypeOK
  <2>1. ASSUME NEW i \in DOMAIN idle[pool[r]], TakeIdle(r, i)
        PROVE  \E s \in Seq(Conns) : /\ idle' = [idle EXCEPT ![pool[r]] = s]
                                     /\ Part(s, idle[pool[r]])
    <3>1. i \in 1..Len(idle[pool[r]])
          BY <2>0
    <3>2. Part(SubSeq(idle[pool[r]], 1, i - 1), idle[pool[r]])
          BY <2>0, <3>1, PrefixPart
    <3>3. idle' = [idle EXCEPT ![pool[r]] = SubSeq(idle[pool[r]], 1, i - 1)]
          BY <2>1 DEF TakeIdle
    <3>4. QED
          BY <3>2, <3>3 DEF Part
  <2>2. ASSUME NEW place, TakeNone(r, place)
        PROVE  \E s \in Seq(Conns) : /\ idle' = [idle EXCEPT ![pool[r]] = s]
                                     /\ Part(s, idle[pool[r]])
    <3>1. Part(<< >>, idle[pool[r]])
          BY <2>0, NonePart
    <3>2. QED
          BY <2>2, <3>1 DEF TakeNone, Part
  <2>3. QED
        BY <1>1, <2>0, <2>1, <2>2, TakeStep
<1>2. ASSUME NEW p \in Pools, NEW n \in 0..Len(idle[p]), ReapIdle(p, n)
      PROVE  \E s \in Seq(Conns) : idle' = [idle EXCEPT ![p] = s] /\ Part(s, idle[p])
  <2>1. idle' = [idle EXCEPT ![p] = IF shutdown THEN << >> ELSE Retained(p, n)]
        BY <1>2 DEF ReapIdle
  <2>2. n \in Nat /\ idle[p] \in Seq(Conns)
        BY <1>0
  <2>3. Part(<< >>, idle[p]) /\ Part(Retained(p, n), idle[p])
        BY <2>2, NonePart, RetainedPart
  <2>4. QED
        BY <2>1, <2>3 DEF Part
<1>3. ASSUME NEW r \in Requests,
             ReadEnd(r) \/ ReadError(r) \/ IdleTimeout(r) \/ DropBody(r)
      PROVE  UNCHANGED idle \/ Returns(r)
      BY <1>3, BodyStep
<1>4. ASSUME NEW r \in Requests, Fails(r)
      PROVE  UNCHANGED idle
      BY <1>4, FailStep, FinishStep
<1>5. ASSUME NEW r \in Requests, Moves(r)
      PROVE  UNCHANGED idle
      BY <1>5, MoveStep
<1>6. CASE UNCHANGED idle
      BY <1>6
<1>7. QED
      BY <1>1, <1>2, <1>3, <1>4, <1>5, <1>6
      DEF Next, Begin, Acquire, AcquireHttp2, Recheck, Connected, Exchange, Send,
          Respond, End, Fails, Moves, UploadEnds, UploadCut, DriverEnds, ReapStart,
          ReapBegin, Reap, ReapLook, ReapTake, Shutdown, WindsDown, vars, store

LEMMA IdleTypes ==
  ASSUME TypeOK, [Next]_vars
  PROVE  /\ idle' \in [Pools -> Seq(Conns)]
         /\ \A p \in Pools : Len(idle'[p]) <= MaxIdle[p]
<1>0. /\ idle \in [Pools -> Seq(Conns)]
      /\ \A p \in Pools : Len(idle[p]) <= MaxIdle[p]
      /\ \A p \in Pools : MaxIdle[p] \in Nat
      BY PoolAssumption DEF TypeOK
<1>1. ASSUME NEW p \in Pools, NEW s \in Seq(Conns), Part(s, idle[p]),
             idle' = [idle EXCEPT ![p] = s]
      PROVE  /\ idle' \in [Pools -> Seq(Conns)]
             /\ \A q \in Pools : Len(idle'[q]) <= MaxIdle[q]
  <2>1. Len(s) <= MaxIdle[p]
    <3>1. Len(s) \in Nat /\ Len(idle[p]) \in Nat /\ Len(s) <= Len(idle[p])
          BY <1>0, <1>1 DEF Part
    <3>2. QED
          BY <1>0, <3>1
  <2>2. QED
        BY <1>0, <1>1, <2>1
<1>2. ASSUME NEW r \in Requests, Returns(r)
      PROVE  /\ idle' \in [Pools -> Seq(Conns)]
             /\ \A q \in Pools : Len(idle'[q]) <= MaxIdle[q]
  <2>1. /\ pool[r] \in Pools /\ conn[r] \in Conns
        /\ Len(idle[pool[r]]) < MaxIdle[pool[r]]
        /\ idle' = [idle EXCEPT ![pool[r]] = Append(idle[pool[r]], conn[r])]
        BY <1>2 DEF Returns, Appended, TypeOK
  <2>2. /\ Append(idle[pool[r]], conn[r]) \in Seq(Conns)
        /\ Len(Append(idle[pool[r]], conn[r])) = Len(idle[pool[r]]) + 1
        /\ Len(idle[pool[r]]) \in Nat
        BY <1>0, <2>1
  <2>3. Len(Append(idle[pool[r]], conn[r])) <= MaxIdle[pool[r]]
        BY <1>0, <2>1, <2>2
  <2>4. QED
        BY <1>0, <2>1, <2>2, <2>3
<1>3. QED
      BY <1>0, <1>1, <1>2, IdleStep

\* The wires apart from the idle list.
PlainWires ==
  /\ driver \in [Conns -> {"none", "running", "cancelled"}]
  /\ owner \in [Conns -> Pools]
  /\ owes \in [Conns -> SUBSET {"request", "response"}]
  /\ detached \subseteq Conns
  /\ slot \in [Pools -> Conns \cup {Nobody}]

LEMMA PlainStep ==
  ASSUME TypeOK, [Next]_vars
  PROVE  PlainWires'
<1>0. WireTypes /\ RequestTypes
      BY AllTypes
<1>1. PlainWires
      BY <1>0 DEF WireTypes, PlainWires
<1>D. ASSUME driver' = driver \/ \E S : driver' = Dropped(S)
      PROVE  driver' \in [Conns -> {"none", "running", "cancelled"}]
      BY <1>1, <1>D, DroppedFacts DEF PlainWires
<1>2. ASSUME NEW r \in Requests, Fails(r)
      PROVE  PlainWires'
  <2>1. Finish(r)
        BY <1>2, FailStep
  <2>2. UNCHANGED <<owner, owes, detached, slot>>
        /\ driver' = IF Http1(r) THEN Dropped({conn[r]}) ELSE driver
        BY <2>1, FinishStep
  <2>3. QED
        BY <1>1, <1>D, <2>2 DEF PlainWires
<1>3. ASSUME NEW r \in Requests, Moves(r)
      PROVE  PlainWires'
      BY <1>1, <1>3, MoveStep DEF PlainWires
<1>4. ASSUME NEW r \in Requests, AcquireHttp1(r) \/ Examine(r)
      PROVE  PlainWires'
  <2>1. \E S : driver' = Dropped(S)
        BY <1>4, TakeStep DEF TakeIdle, TakeNone
  <2>2. QED
        BY <1>1, <1>4, <1>D, <2>1, TakeStep DEF PlainWires
<1>5. ASSUME NEW r \in Requests, AcquireHttp2(r) \/ Recheck(r)
      PROVE  PlainWires'
      BY <1>0, <1>1, <1>5 DEF AcquireHttp2, Recheck, Current, wires, PlainWires, RequestTypes
<1>6. ASSUME NEW r \in Requests, NEW c \in Conns, Connected(r, c)
      PROVE  PlainWires'
  <2>1. /\ \E S : driver' = [Dropped(S) EXCEPT ![c] = "running"]
        /\ owner' = [owner EXCEPT ![c] = pool[r]] /\ pool[r] \in Pools
        /\ slot' = slot \/ slot' = [slot EXCEPT ![pool[r]] = c]
        /\ owes' = owes /\ detached' = detached
        BY <1>0, <1>6 DEF Connected, RequestTypes
  <2>2. QED
        BY <1>1, <2>1, DroppedFacts DEF PlainWires
<1>7. ASSUME NEW r \in Requests, Send(r) \/ Respond(r)
      PROVE  PlainWires'
      BY <1>0, <1>1, <1>7 DEF Send, Respond, Answered, RequestTypes, store, PlainWires
<1>8. ASSUME NEW r \in Requests,
             ReadEnd(r) \/ ReadError(r) \/ IdleTimeout(r) \/ DropBody(r)
      PROVE  PlainWires'
  <2>1. /\ driver' = driver \/ \E S : driver' = Dropped(S)
        /\ UNCHANGED <<owner, detached, slot>>
        /\ owes' = owes \/ (conn[r] # Nobody /\ owes' = Answered(r))
        BY <1>8, BodyStep DEF Returns, Appended
  <2>2. conn[r] # Nobody => conn[r] \in Conns
        BY <1>0 DEF RequestTypes
  <2>3. owes' \in [Conns -> SUBSET {"request", "response"}]
        BY <1>1, <2>1, <2>2 DEF Answered, PlainWires
  <2>4. QED
        BY <1>1, <1>D, <2>1, <2>3 DEF PlainWires
<1>9. ASSUME NEW r \in Requests, UploadEnds(r) \/ UploadCut(r)
      PROVE  PlainWires'
      BY <1>1, <1>9 DEF UploadEnds, UploadCut, wires, store, PlainWires
<1>10. ASSUME NEW c \in Conns, DriverEnds(c)
       PROVE  PlainWires'
       BY <1>1, <1>10 DEF DriverEnds, store, PlainWires
<1>11. ASSUME NEW p \in Pools, NEW n \in 0..Len(idle[p]), ReapIdle(p, n)
       PROVE  PlainWires'
  <2>1. UNCHANGED <<owner, owes, detached, slot>> /\ \E S : driver' = Dropped(S)
        BY <1>11 DEF ReapIdle
  <2>2. QED
        BY <1>1, <1>D, <2>1 DEF PlainWires
<1>12. CASE ReapTake
  <2>1. UNCHANGED <<owner, owes, detached>> /\ slot' = [slot EXCEPT ![reap.pool] = Nobody]
        /\ \E S : driver' = Dropped(S)
        BY <1>12 DEF ReapTake
  <2>2. QED
        BY <1>1, <1>D, <2>1 DEF PlainWires
<1>13. CASE UNCHANGED <<driver, owner, owes, slot>> /\ detached' \subseteq detached
       BY <1>1, <1>13 DEF PlainWires
<1>14. QED
       BY <1>2, <1>3, <1>4, <1>5, <1>6, <1>7, <1>8, <1>9, <1>10, <1>11, <1>12, <1>13
       DEF Next, Begin, Acquire, Exchange, End, Fails, Moves, ReapStart, ReapBegin,
           Reap, ReapLook, Shutdown, WindsDown, vars, wires, store

LEMMA WireStep ==
  ASSUME TypeOK, [Next]_vars
  PROVE  WireTypes'
BY PlainStep, IdleTypes DEF WireTypes, PlainWires

LEMMA LifeStep ==
  ASSUME TypeOK, [Next]_vars
  PROVE  LifeTypes'
<1>0. LifeTypes
      BY AllTypes
<1> USE DEF LifeTypes
<1>1. ASSUME NEW r \in Requests, NEW p \in Pools, NEW body \in Uploads,
             Begin(r, p, body)
      PROVE  LifeTypes'
      BY <1>0, <1>1 DEF Begin
<1>2. CASE ReapStart
      BY <1>0, <1>2 DEF ReapStart, ReapBegin
<1>3. CASE Reap
      BY <1>0, <1>3 DEF Reap, ReapIdle, ReapLook, ReapTake, AfterPool
<1>4. CASE Shutdown
      BY <1>0, <1>4 DEF Shutdown
<1>5. ASSUME NEW r \in Requests, Fails(r) PROVE UNCHANGED life
      BY <1>5, FailStep, FinishStep DEF life
<1>6. ASSUME NEW r \in Requests, Moves(r) PROVE UNCHANGED life
      BY <1>6, MoveStep DEF life
<1>7. ASSUME NEW r \in Requests, AcquireHttp1(r) \/ Examine(r) PROVE UNCHANGED life
      BY <1>7, TakeStep DEF life
<1>8. ASSUME NEW r \in Requests,
             ReadEnd(r) \/ ReadError(r) \/ IdleTimeout(r) \/ DropBody(r)
      PROVE  UNCHANGED life
      BY <1>8, BodyStep DEF life
<1>9. CASE UNCHANGED life
      BY <1>0, <1>9 DEF life
<1>10. QED
      BY <1>1, <1>2, <1>3, <1>4, <1>5, <1>6, <1>7, <1>8, <1>9
      DEF Next, Acquire, AcquireHttp2, Recheck, Connected, Exchange, Send, Respond,
          UploadEnds, UploadCut, End, Fails, Moves, DriverEnds, WindsDown, vars

LEMMA TypeStep ==
  ASSUME TypeOK, HandInv, [Next]_vars
  PROVE  TypeOK' /\ HandInv'
<1>1. TypeOK' <=> /\ RequestTypes' /\ UploadTypes' /\ NoteTypes'
                  /\ WireTypes' /\ LifeTypes'
      BY DEF TypeOK, RequestTypes, UploadTypes, NoteTypes, WireTypes, LifeTypes
<1>2. QED
      BY <1>1, RequestStep, UploadStep, NoteStep, WireStep, LifeStep

\* Every variable of the pools keeps its type.
THEOREM PoolTyped == Spec => [](TypeOK /\ HandInv)
<1>1. TypeOK /\ HandInv /\ [Next]_vars => (TypeOK /\ HandInv)'
      BY TypeStep
<1>2. QED
      BY <1>1, TypeInit, PTL DEF Spec

-----------------------------------------------------------------------------
(* The permits *)

BodySteps(r) == ReadEnd(r) \/ ReadError(r) \/ IdleTimeout(r) \/ DropBody(r)

\* The steps that change no request and no connection.
Aside ==
  UNCHANGED <<pc, pool, conn, answer, ups, notes, driver, owner, owes, store>>

\* Every step, by what it does to requests and connections.
LEMMA NextCases ==
  ASSUME [Next]_vars
  PROVE  \/ \E r \in Requests, p \in Pools, body \in Uploads : Begin(r, p, body)
         \/ \E r \in Requests :
              \/ Fails(r) \/ Moves(r)
              \/ AcquireHttp1(r) \/ Examine(r)
              \/ AcquireHttp2(r) \/ Recheck(r)
              \/ Send(r) \/ Respond(r) \/ BodySteps(r)
              \/ UploadEnds(r) \/ UploadCut(r)
         \/ \E r \in Requests, c \in Conns : Connected(r, c)
         \/ \E c \in Conns : DriverEnds(c)
         \/ \E p \in Pools : \E n \in 0..Len(idle[p]) : ReapIdle(p, n)
         \/ ReapTake
         \/ Aside
<1>1. CASE \/ ReapStart \/ ReapLook \/ Shutdown \/ UNCHANGED vars
           \/ \E c \in Conns : WindsDown(c)
      BY <1>1 DEF ReapStart, ReapBegin, ReapLook, Shutdown, WindsDown, vars, reqs,
                  wires, Aside
<1>2. CASE Next
      BY <1>1, <1>2 DEF Next, Acquire, Exchange, End, Fails, Moves, BodySteps, Reap
<1>3. QED
      BY <1>1, <1>2

\* The variables a reference to a connection is in, apart from a new one.
NoNewUse ==
  /\ owner' = owner
  /\ \A r \in Requests : conn'[r] # conn[r] /\ conn'[r] # Nobody => InUse(conn'[r])
  /\ \A p \in Pools : slot'[p] \in {slot[p], Nobody}
  /\ \A p \in Pools, c \in Conns : Listed(p, c)' => InUse(c)
  /\ \A c \in Conns : driver'[c] # "none" => driver[c] # "none"

LEMMA UseShrinks ==
  ASSUME TypeOK, TypeOK', NoNewUse, NEW c \in Conns, InUse(c)'
  PROVE  InUse(c)
<1>1. c # Nobody
      BY PoolAssumption
<1>2. CASE driver'[c] # "none"
      BY <1>2 DEF NoNewUse, InUse
<1>3. CASE \E r \in Requests : conn'[r] = c
      BY <1>1, <1>3 DEF NoNewUse, InUse, Held
<1>4. CASE \E p \in Pools : c = slot'[p] \/ Listed(p, c)'
      BY <1>1, <1>4 DEF NoNewUse, InUse, Held
<1>5. QED
      BY <1>2, <1>3, <1>4 DEF InUse, Held

LEMMA ListedInUse ==
  ASSUME TypeOK, NEW p \in Pools, NEW s \in Seq(Conns), Part(s, idle[p]),
         idle' = [idle EXCEPT ![p] = s]
  PROVE  \A q \in Pools, c \in Conns : Listed(q, c)' => Listed(q, c)
<1>1. ASSUME NEW q \in Pools, NEW c \in Conns, Listed(q, c)' PROVE Listed(q, c)
  <2>0. idle \in [Pools -> Seq(Conns)]
        BY DEF TypeOK
  <2>1. CASE q = p
    <3>1. PICK i \in 1..Len(s) : s[i] = c
          BY <1>1, <2>0, <2>1 DEF Listed
    <3>2. \E j \in 1..Len(idle[p]) : idle[p][j] = c
          BY <3>1 DEF Part
    <3>3. QED
          BY <2>0, <2>1, <3>2 DEF Listed
  <2>2. CASE q # p
        BY <1>1, <2>0, <2>2 DEF Listed
  <2>3. QED
        BY <2>1, <2>2
<1>2. QED
      BY <1>1

LEMMA ListedOne ==
  ASSUME TypeOK, NEW r \in Requests, Returns(r)
  PROVE  /\ conn[r] \in Conns /\ pool[r] \in Pools
         /\ \A q \in Pools, c \in Conns :
              Listed(q, c)' <=> Listed(q, c) \/ (q = pool[r] /\ c = conn[r])
<1>0. /\ idle \in [Pools -> Seq(Conns)] /\ conn[r] \in Conns /\ pool[r] \in Pools
      /\ idle' = [idle EXCEPT ![pool[r]] = Append(@, conn[r])]
      BY DEF Returns, Appended, TypeOK
<1>1. ASSUME NEW q \in Pools, NEW c \in Conns
      PROVE  Listed(q, c)' <=> Listed(q, c) \/ (q = pool[r] /\ c = conn[r])
  <2>1. CASE q = pool[r]
    <3>1. idle'[q] = Append(idle[q], conn[r])
          BY <1>0, <2>1
    <3>2. /\ DOMAIN idle[q] = 1..Len(idle[q]) /\ Len(idle[q]) \in Nat
          /\ DOMAIN idle'[q] = 1..(Len(idle[q]) + 1)
          /\ \A i \in 1..Len(idle[q]) : idle'[q][i] = idle[q][i]
          /\ idle'[q][Len(idle[q]) + 1] = conn[r]
          BY <1>0, <3>1
    <3>3. QED
          BY <2>1, <3>2 DEF Listed
  <2>2. CASE q # pool[r]
        BY <1>0, <2>2 DEF Listed
  <2>3. QED
        BY <2>1, <2>2
<1>2. QED
      BY <1>0, <1>1

LEMMA ListStep ==
  ASSUME TypeOK, [Next]_vars
  PROVE  \A q \in Pools, c \in Conns : Listed(q, c)' => InUse(c)
<1>1. CASE UNCHANGED idle
      BY <1>1 DEF Listed, InUse, Held
<1>2. ASSUME NEW p \in Pools, NEW s \in Seq(Conns), Part(s, idle[p]),
             idle' = [idle EXCEPT ![p] = s]
      PROVE  \A q \in Pools, c \in Conns : Listed(q, c)' => InUse(c)
      BY <1>2, ListedInUse DEF InUse, Held
<1>3. ASSUME NEW r \in Requests, Returns(r)
      PROVE  \A q \in Pools, c \in Conns : Listed(q, c)' => InUse(c)
      BY <1>3, ListedOne DEF InUse, Held
<1>4. QED
      BY <1>1, <1>2, <1>3, IdleStep

\* A connection comes into use only when one is opened.
LEMMA UseStep ==
  ASSUME TypeOK, [Next]_vars
  PROVE  NoNewUse \/ \E r \in Requests, c \in Conns : Connected(r, c)
<1> DEFINE Plain == /\ owner' = owner
                    /\ \A r \in Requests : conn'[r] # conn[r] /\ conn'[r] # Nobody
                                           => InUse(conn'[r])
                    /\ \A p \in Pools : slot'[p] \in {slot[p], Nobody}
                    /\ \A c \in Conns : driver'[c] # "none" => driver[c] # "none"
<1>0. /\ conn \in [Requests -> Conns \cup {Nobody}] /\ slot \in [Pools -> Conns \cup {Nobody}]
      /\ pool \in [Requests -> Pools] /\ driver \in [Conns -> {"none", "running", "cancelled"}]
      BY DEF TypeOK
<1>D. ASSUME driver' = driver \/ \E S : driver' = Dropped(S)
      PROVE  \A c \in Conns : driver'[c] # "none" => driver[c] # "none"
      BY <1>D, DroppedFacts
<1>1. ASSUME NEW r \in Requests, NEW p \in Pools, NEW body \in Uploads, Begin(r, p, body)
      PROVE  Plain
      BY <1>1, BeginStep
<1>2. ASSUME NEW r \in Requests, Fails(r) PROVE Plain
  <2>1. Finish(r)
        BY <1>2, FailStep
  <2>2. UNCHANGED <<owner, slot>> /\ conn' = [conn EXCEPT ![r] = Nobody]
        /\ driver' = IF Http1(r) THEN Dropped({conn[r]}) ELSE driver
        BY <2>1, FinishStep
  <2>3. QED
        BY <1>0, <1>D, <2>2
<1>3. ASSUME NEW r \in Requests, Moves(r) PROVE Plain
      BY <1>3, MoveStep
<1>4. ASSUME NEW r \in Requests, AcquireHttp1(r) \/ Examine(r) PROVE Plain
  <2>1. UNCHANGED <<owner, slot>>
        /\ \/ \E i \in DOMAIN idle[pool[r]] : TakeIdle(r, i)
           \/ \E place : TakeNone(r, place)
        BY <1>4, TakeStep
  <2>2. ASSUME NEW i \in DOMAIN idle[pool[r]], TakeIdle(r, i)
        PROVE  /\ \A q \in Requests : conn'[q] # conn[q] => InUse(conn'[q])
               /\ driver' = Dropped(Above(pool[r], i))
    <3>1. Listed(pool[r], idle[pool[r]][i])
          BY DEF Listed
    <3>2. QED
          BY <1>0, <2>2, <3>1 DEF TakeIdle, InUse, Held
  <2>3. ASSUME NEW place, TakeNone(r, place)
        PROVE  conn' = conn /\ driver' = Dropped(Above(pool[r], 0))
        BY <2>3 DEF TakeNone
  <2>4. QED
        BY <1>D, <2>1, <2>2, <2>3
<1>5. ASSUME NEW r \in Requests, AcquireHttp2(r) \/ Recheck(r) PROVE Plain
      BY <1>0, <1>5 DEF AcquireHttp2, Recheck, Current, wires, InUse, Held
<1>6. ASSUME NEW r \in Requests, Send(r) \/ Respond(r) PROVE Plain
      BY <1>6 DEF Send, Respond, store
<1>7. ASSUME NEW r \in Requests, BodySteps(r) PROVE Plain
  <2>1. /\ driver' = driver \/ \E S : driver' = Dropped(S)
        /\ UNCHANGED <<owner, slot>>
        /\ conn' = conn \/ conn' = [conn EXCEPT ![r] = Nobody]
        BY <1>7, BodyStep DEF Returns, Appended, BodySteps
  <2>2. QED
        BY <1>0, <1>D, <2>1
<1>8. ASSUME NEW r \in Requests, UploadEnds(r) \/ UploadCut(r) PROVE Plain
      BY <1>8 DEF UploadEnds, UploadCut, reqs, wires, store
<1>9. ASSUME NEW c \in Conns, DriverEnds(c) PROVE Plain
      BY <1>0, <1>9 DEF DriverEnds, reqs, store
<1>10. ASSUME NEW p \in Pools, NEW n \in 0..Len(idle[p]), ReapIdle(p, n) PROVE Plain
  <2>1. UNCHANGED <<owner, slot, conn>> /\ \E S : driver' = Dropped(S)
        BY <1>10 DEF ReapIdle, reqs
  <2>2. QED
        BY <1>D, <2>1
<1>11. ASSUME ReapTake PROVE Plain
  <2>1. UNCHANGED <<owner, conn>> /\ slot' = [slot EXCEPT ![reap.pool] = Nobody]
        /\ \E S : driver' = Dropped(S)
        BY <1>11 DEF ReapTake, reqs
  <2>2. QED
        BY <1>0, <1>D, <2>1
<1>12. ASSUME Aside PROVE Plain
       BY <1>12 DEF Aside, wires, store
<1>13. Plain \/ \E r \in Requests, c \in Conns : Connected(r, c)
       BY <1>1, <1>2, <1>3, <1>4, <1>5, <1>6, <1>7, <1>8, <1>9, <1>10, <1>11,
          <1>12, NextCases
<1>14. QED
       BY <1>13, ListStep DEF NoNewUse

\* No pool, and not the proxy, has given out more permits than it has.
PermitInv ==
  /\ \A p \in Pools :
       Cardinality({c \in Conns : InUse(c) /\ owner[c] = p})
         + Cardinality(At(p, Reserved)) <= MaxConnections[p]
  /\ Cardinality({c \in Conns : InUse(c)})
       + Cardinality({r \in Requests : pc[r] = "connect"}) <= GlobalMax

Users(p) == {c \in Conns : InUse(c) /\ owner[c] = p}
AllUsers == {c \in Conns : InUse(c)}
Connecting == {r \in Requests : pc[r] = "connect"}

LEMMA Sizes ==
  ASSUME NEW S, NEW T, IsFiniteSet(T), S \subseteq T
  PROVE  /\ IsFiniteSet(S) /\ Cardinality(S) \in Nat /\ Cardinality(T) \in Nat
         /\ Cardinality(S) <= Cardinality(T)
BY FS_Subset, FS_CardinalityType

LEMMA SizesPlus ==
  ASSUME NEW S, NEW T, IsFiniteSet(T), NEW x, S \subseteq T \cup {x}
  PROVE  /\ IsFiniteSet(S) /\ Cardinality(S) \in Nat /\ Cardinality(T) \in Nat
         /\ Cardinality(S) <= Cardinality(T) + 1
<1>1. /\ IsFiniteSet(T \cup {x}) /\ Cardinality(T) \in Nat
      /\ Cardinality(T \cup {x}) =
           IF x \in T THEN Cardinality(T) ELSE Cardinality(T) + 1
      BY FS_AddElement, FS_CardinalityType
<1>2. /\ IsFiniteSet(S) /\ Cardinality(S) \in Nat
      /\ Cardinality(S) <= Cardinality(T \cup {x})
      BY <1>1, Sizes
<1>3. QED
      BY <1>1, <1>2

LEMMA SizesMinus ==
  ASSUME NEW S, NEW T, IsFiniteSet(T), NEW x \in T, S \subseteq T \ {x}
  PROVE  /\ IsFiniteSet(S) /\ Cardinality(S) \in Nat /\ Cardinality(T) \in Nat
         /\ Cardinality(S) + 1 <= Cardinality(T)
<1>1. /\ IsFiniteSet(T \ {x}) /\ Cardinality(T) \in Nat
      /\ Cardinality(T \ {x}) = Cardinality(T) - 1
      BY FS_RemoveElement, FS_CardinalityType
<1>2. /\ IsFiniteSet(S) /\ Cardinality(S) \in Nat
      /\ Cardinality(S) <= Cardinality(T \ {x})
      BY <1>1, Sizes
<1>3. QED
      BY <1>1, <1>2

LEMMA FiniteHere ==
  ASSUME NEW p
  PROVE  /\ IsFiniteSet(Users(p)) /\ IsFiniteSet(AllUsers)
         /\ IsFiniteSet(Of(p)) /\ IsFiniteSet(Connecting)
         /\ \A places : IsFiniteSet(At(p, places))
<1>1. /\ Users(p) \subseteq Conns /\ AllUsers \subseteq Conns
      /\ Of(p) \subseteq Requests /\ Connecting \subseteq Requests
      /\ \A places : At(p, places) \subseteq Requests
      BY DEF Users, AllUsers, Of, At, Connecting
<1>2. QED
      BY <1>1, PoolAssumption, FS_Subset

\* Who comes to hold a reserved permit, or a permit to connect.
LEMMA ReserveStep ==
  ASSUME TypeOK, [Next]_vars
  PROVE  \/ \A r \in Requests :
              /\ pc'[r] \in Reserved => pc[r] \in Reserved /\ pool'[r] = pool[r]
              /\ pc'[r] = "connect" => pc[r] = "connect"
         \/ \E r \in Requests :
              /\ pool' = pool /\ pc' = [pc EXCEPT ![r] = "global"]
              /\ LocalFree(pool[r])
         \/ \E r \in Requests :
              /\ pool' = pool /\ pc' = [pc EXCEPT ![r] = "connect"]
              /\ pc[r] \in Reserved /\ GlobalFree
<1> DEFINE Less == \A r \in Requests :
              /\ pc'[r] \in Reserved => pc[r] \in Reserved /\ pool'[r] = pool[r]
              /\ pc'[r] = "connect" => pc[r] = "connect"
           Gains == \/ \E r \in Requests :
                         /\ pool' = pool /\ pc' = [pc EXCEPT ![r] = "global"]
                         /\ LocalFree(pool[r])
                    \/ \E r \in Requests :
                         /\ pool' = pool /\ pc' = [pc EXCEPT ![r] = "connect"]
                         /\ pc[r] \in Reserved /\ GlobalFree
<1> USE DEF Reserved
<1>0. pc \in [Requests -> Places] /\ pool \in [Requests -> Pools]
      BY DEF TypeOK
<1>1. ASSUME NEW r \in Requests, NEW p \in Pools, NEW body \in Uploads, Begin(r, p, body)
      PROVE  Less
      BY <1>0, <1>1, BeginStep
<1>2. ASSUME NEW r \in Requests, Fails(r) PROVE Less
  <2>1. pool' = pool /\ pc' = [pc EXCEPT ![r] = "idle"]
        BY <1>2, FailStep, FinishStep
  <2>2. QED
        BY <1>0, <2>1
<1>3. ASSUME NEW r \in Requests, Moves(r) PROVE Less \/ Gains
  <2>1. CASE /\ pc[r] = "local" \/ pc[r] = "wait" \/ pc[r] = "localwait"
             /\ pc' = [pc EXCEPT ![r] = "global"] /\ LocalFree(pool[r])
        BY <1>3, <2>1, MoveStep
  <2>2. CASE /\ pc[r] = "global" \/ pc[r] = "globalwait"
             /\ pc' = [pc EXCEPT ![r] = "connect"] /\ GlobalFree
        BY <1>3, <2>2, MoveStep
  <2>3. CASE /\ pc[r] = "global" /\ pc' = [pc EXCEPT ![r] = "globalwait"]
        BY <1>0, <1>3, <2>3, MoveStep
  <2>4. CASE \E place \in {"register", "localwait", "examine", "recheck", "gatewait",
                           "readywait", "tunnel"} :
               pc' = [pc EXCEPT ![r] = place]
        BY <1>0, <1>3, <2>4, MoveStep
  <2>5. QED
        BY <1>3, <2>1, <2>2, <2>3, <2>4, MoveStep DEF Hop
<1>4. ASSUME NEW r \in Requests, AcquireHttp1(r) \/ Examine(r) PROVE Less
  <2>1. pool' = pool /\ \E place \in {"ready", "wait", "local"} :
                          pc' = [pc EXCEPT ![r] = place]
        BY <1>4, TakeStep DEF TakeIdle, TakeNone, Goto
  <2>2. QED
        BY <1>0, <2>1
<1>5. ASSUME NEW r \in Requests, AcquireHttp2(r) \/ Recheck(r) PROVE Less
      BY <1>0, <1>5 DEF AcquireHttp2, Recheck, Current, Goto
<1>6. ASSUME NEW r \in Requests, Send(r) \/ Respond(r) PROVE Less
      BY <1>0, <1>6 DEF Send, Respond, Goto
<1>7. ASSUME NEW r \in Requests, BodySteps(r) PROVE Less
  <2>1. pool' = pool /\ (pc' = pc \/ pc' = [pc EXCEPT ![r] = "idle"])
        BY <1>7, BodyStep DEF BodySteps
  <2>2. QED
        BY <1>0, <2>1
<1>8. ASSUME NEW r \in Requests, NEW c \in Conns, Connected(r, c) PROVE Less
      BY <1>0, <1>8 DEF Connected, Goto
<1>9. ASSUME UNCHANGED <<pc, pool>> PROVE Less
      BY <1>9
<1>10. Less \/ Gains
       BY <1>1, <1>2, <1>3, <1>4, <1>5, <1>6, <1>7, <1>8, <1>9, NextCases
       DEF UploadEnds, UploadCut, DriverEnds, ReapIdle, ReapTake, Aside, reqs
<1>11. QED
       BY <1>10

LEMMA ConnectedStep ==
  ASSUME TypeOK, NEW r \in Requests, NEW c \in Conns, Connected(r, c), TypeOK'
  PROVE  /\ \A p \in Pools :
              /\ Users(p)' \subseteq IF p = pool[r] THEN Users(p) \cup {c} ELSE Users(p)
              /\ At(p, Reserved)' \subseteq At(p, Reserved) \ {r}
         /\ AllUsers' \subseteq AllUsers \cup {c}
         /\ Connecting' \subseteq Connecting \ {r}
         /\ r \in At(pool[r], Reserved) /\ r \in Connecting
<1>0. /\ pc \in [Requests -> Places] /\ pool \in [Requests -> Pools]
      /\ conn \in [Requests -> Conns \cup {Nobody}]
      /\ slot \in [Pools -> Conns \cup {Nobody}]
      /\ owner \in [Conns -> Pools]
      /\ driver \in [Conns -> {"none", "running", "cancelled"}]
      BY DEF TypeOK
<1>1. /\ pc[r] = "connect" /\ pc' = [pc EXCEPT ![r] = "ready"]
      /\ conn' = [conn EXCEPT ![r] = c]
      /\ \E S : driver' = [Dropped(S) EXCEPT ![c] = "running"]
      /\ owner' = [owner EXCEPT ![c] = pool[r]]
      /\ slot' \in {slot, [slot EXCEPT ![pool[r]] = c]}
      /\ pool' = pool /\ idle' = idle
      BY DEF Connected, Goto
<1>2. ASSUME NEW d \in Conns, d # c, InUse(d)' PROVE InUse(d) /\ owner'[d] = owner[d]
  <2>0. d # Nobody
        BY PoolAssumption
  <2>1. driver'[d] # "none" => driver[d] # "none"
        BY <1>0, <1>1, <1>2, DroppedFacts
  <2>2. \A q \in Requests : conn'[q] = d => conn[q] = d
        BY <1>0, <1>1, <1>2
  <2>3. \A p \in Pools : (slot'[p] = d => slot[p] = d) /\ (Listed(p, d)' => Listed(p, d))
        BY <1>0, <1>1, <1>2 DEF Listed
  <2>4. QED
        BY <1>0, <1>1, <1>2, <2>1, <2>2, <2>3 DEF InUse, Held
<1>3. owner'[c] = pool[r]
      BY <1>0, <1>1
<1>4. \A p \in Pools :
        Users(p)' \subseteq IF p = pool[r] THEN Users(p) \cup {c} ELSE Users(p)
      BY <1>2, <1>3 DEF Users
<1>5. AllUsers' \subseteq AllUsers \cup {c}
      BY <1>2 DEF AllUsers
<1>6. /\ \A p \in Pools : At(p, Reserved)' \subseteq At(p, Reserved) \ {r}
      /\ Connecting' \subseteq Connecting \ {r}
      /\ r \in At(pool[r], Reserved) /\ r \in Connecting
      BY <1>0, <1>1 DEF At, Of, Reserved, Connecting
<1>7. QED
      BY <1>4, <1>5, <1>6

LEMMA PermitStep ==
  ASSUME TypeOK, TypeOK', PermitInv, [Next]_vars
  PROVE  PermitInv'
<1>0. /\ pc \in [Requests -> Places] /\ pool \in [Requests -> Pools]
      BY DEF TypeOK
<1>1. /\ \A p \in Pools : /\ Cardinality(Users(p)) + Cardinality(At(p, Reserved))
                               <= MaxConnections[p]
                          /\ MaxConnections[p] \in Nat
      /\ Cardinality(AllUsers) + Cardinality(Connecting) <= GlobalMax
      /\ GlobalMax \in Nat
      BY PoolAssumption DEF PermitInv, Users, AllUsers, Connecting
<1>2. SUFFICES /\ \A p \in Pools : Cardinality(Users(p)') + Cardinality(At(p, Reserved)')
                                     <= MaxConnections[p]
               /\ Cardinality(AllUsers') + Cardinality(Connecting') <= GlobalMax
      BY DEF PermitInv, Users, AllUsers, Connecting
<1>3. CASE \E r \in Requests, c \in Conns : Connected(r, c)
  <2>1. PICK r \in Requests, c \in Conns : Connected(r, c)
        BY <1>3
  <2>2. /\ \A p \in Pools :
              /\ Users(p)' \subseteq IF p = pool[r] THEN Users(p) \cup {c} ELSE Users(p)
              /\ At(p, Reserved)' \subseteq At(p, Reserved) \ {r}
        /\ AllUsers' \subseteq AllUsers \cup {c}
        /\ Connecting' \subseteq Connecting \ {r}
        /\ r \in At(pool[r], Reserved) /\ r \in Connecting
        BY <2>1, ConnectedStep
  <2>3. ASSUME NEW p \in Pools
        PROVE  Cardinality(Users(p)') + Cardinality(At(p, Reserved)') <= MaxConnections[p]
    <3>1. CASE p = pool[r]
      <4>1. /\ Cardinality(Users(p)') \in Nat /\ Cardinality(Users(p)) \in Nat
            /\ Cardinality(Users(p)') <= Cardinality(Users(p)) + 1
            BY <2>2, <3>1, FiniteHere, SizesPlus
      <4>2. /\ Cardinality(At(p, Reserved)') \in Nat /\ Cardinality(At(p, Reserved)) \in Nat
            /\ Cardinality(At(p, Reserved)') + 1 <= Cardinality(At(p, Reserved))
        <5>1. r \in At(p, Reserved) /\ IsFiniteSet(At(p, Reserved))
              BY <2>2, <3>1, FiniteHere
        <5>2. At(p, Reserved)' \subseteq At(p, Reserved) \ {r}
              BY <2>2
        <5>3. QED
              BY <5>1, <5>2, SizesMinus
      <4>3. QED
            BY <1>1, <4>1, <4>2
    <3>2. CASE p # pool[r]
      <4>1. /\ Cardinality(Users(p)') \in Nat /\ Cardinality(Users(p)) \in Nat
            /\ Cardinality(Users(p)') <= Cardinality(Users(p))
            BY <2>2, <3>2, FiniteHere, Sizes
      <4>2. /\ Cardinality(At(p, Reserved)') \in Nat /\ Cardinality(At(p, Reserved)) \in Nat
            /\ Cardinality(At(p, Reserved)') <= Cardinality(At(p, Reserved))
        <5>1. At(p, Reserved)' \subseteq At(p, Reserved)
              BY <2>2
        <5>2. QED
              BY <5>1, FiniteHere, Sizes
      <4>3. QED
            BY <1>1, <4>1, <4>2
    <3>3. QED
          BY <3>1, <3>2
  <2>4. Cardinality(AllUsers') + Cardinality(Connecting') <= GlobalMax
    <3>1. /\ Cardinality(AllUsers') \in Nat /\ Cardinality(AllUsers) \in Nat
          /\ Cardinality(AllUsers') <= Cardinality(AllUsers) + 1
          BY <2>2, FiniteHere, SizesPlus
    <3>2. /\ Cardinality(Connecting') \in Nat /\ Cardinality(Connecting) \in Nat
          /\ Cardinality(Connecting') + 1 <= Cardinality(Connecting)
      <4>1. r \in Connecting /\ IsFiniteSet(Connecting) /\ Connecting' \subseteq Connecting \ {r}
            BY <2>2, FiniteHere
      <4>2. QED
            BY <4>1, SizesMinus
    <3>3. QED
          BY <1>1, <3>1, <3>2
  <2>5. QED
        BY <2>3, <2>4
<1>4. CASE NoNewUse
  <2>1. /\ \A p \in Pools : Users(p)' \subseteq Users(p)
        /\ AllUsers' \subseteq AllUsers
        BY <1>4, UseShrinks DEF Users, AllUsers, NoNewUse
  <2>2. \A p \in Pools : /\ Cardinality(Users(p)') \in Nat /\ Cardinality(Users(p)) \in Nat
                         /\ Cardinality(Users(p)') <= Cardinality(Users(p))
        BY <2>1, FiniteHere, Sizes
  <2>3. /\ Cardinality(AllUsers') \in Nat /\ Cardinality(AllUsers) \in Nat
        /\ Cardinality(AllUsers') <= Cardinality(AllUsers)
        BY <2>1, FiniteHere, Sizes
  <2>4. ASSUME NEW p \in Pools, At(p, Reserved)' \subseteq At(p, Reserved)
        PROVE  Cardinality(Users(p)') + Cardinality(At(p, Reserved)') <= MaxConnections[p]
    <3>1. /\ Cardinality(At(p, Reserved)') \in Nat /\ Cardinality(At(p, Reserved)) \in Nat
          /\ Cardinality(At(p, Reserved)') <= Cardinality(At(p, Reserved))
          BY <2>4, FiniteHere, Sizes
    <3>2. QED
          BY <1>1, <2>2, <3>1
  <2>5. ASSUME Connecting' \subseteq Connecting
        PROVE  Cardinality(AllUsers') + Cardinality(Connecting') <= GlobalMax
    <3>1. /\ Cardinality(Connecting') \in Nat /\ Cardinality(Connecting) \in Nat
          /\ Cardinality(Connecting') <= Cardinality(Connecting)
          BY <2>5, FiniteHere, Sizes
    <3>2. QED
          BY <1>1, <2>3, <3>1
  <2>6. CASE \A r \in Requests :
               /\ pc'[r] \in Reserved => pc[r] \in Reserved /\ pool'[r] = pool[r]
               /\ pc'[r] = "connect" => pc[r] = "connect"
    <3>1. /\ \A p \in Pools : At(p, Reserved)' \subseteq At(p, Reserved)
          /\ Connecting' \subseteq Connecting
          BY <2>6 DEF At, Of, Connecting
    <3>2. QED
          BY <2>4, <2>5, <3>1
  <2>7. ASSUME NEW r \in Requests, pool' = pool, pc' = [pc EXCEPT ![r] = "global"],
               LocalFree(pool[r])
        PROVE  /\ \A p \in Pools : Cardinality(Users(p)') + Cardinality(At(p, Reserved)')
                                     <= MaxConnections[p]
               /\ Cardinality(AllUsers') + Cardinality(Connecting') <= GlobalMax
    <3>1. Connecting' \subseteq Connecting
          BY <1>0, <2>7 DEF Connecting
    <3>2. ASSUME NEW p \in Pools, p # pool[r]
          PROVE  At(p, Reserved)' \subseteq At(p, Reserved)
          BY <1>0, <2>7, <3>2 DEF At, Of
    <3>3. ASSUME NEW p \in Pools, p = pool[r]
          PROVE  Cardinality(Users(p)') + Cardinality(At(p, Reserved)') <= MaxConnections[p]
      <4>1. At(p, Reserved)' \subseteq At(p, Reserved) \cup {r}
            BY <1>0, <2>7, <3>3 DEF At, Of
      <4>2. /\ Cardinality(At(p, Reserved)') \in Nat
            /\ Cardinality(At(p, Reserved)) \in Nat
            /\ Cardinality(At(p, Reserved)') <= Cardinality(At(p, Reserved)) + 1
            BY <4>1, FiniteHere, SizesPlus
      <4>3. Cardinality(Users(p)) + Cardinality(At(p, Reserved)) < MaxConnections[p]
            BY <2>7, <3>3 DEF LocalFree, Users
      <4>4. QED
            BY <1>1, <2>2, <4>2, <4>3
    <3>4. \A p \in Pools : Cardinality(Users(p)') + Cardinality(At(p, Reserved)')
                            <= MaxConnections[p]
          BY <2>4, <3>2, <3>3
    <3>5. QED
          BY <2>5, <3>1, <3>4
  <2>8. ASSUME NEW r \in Requests, pool' = pool, pc' = [pc EXCEPT ![r] = "connect"],
               pc[r] \in Reserved, GlobalFree
        PROVE  /\ \A p \in Pools : Cardinality(Users(p)') + Cardinality(At(p, Reserved)')
                                     <= MaxConnections[p]
               /\ Cardinality(AllUsers') + Cardinality(Connecting') <= GlobalMax
    <3>1. \A p \in Pools : At(p, Reserved)' \subseteq At(p, Reserved)
          BY <1>0, <2>8 DEF At, Of
    <3>2. Connecting' \subseteq Connecting \cup {r}
          BY <1>0, <2>8 DEF Connecting
    <3>3. /\ Cardinality(Connecting') \in Nat /\ Cardinality(Connecting) \in Nat
          /\ Cardinality(Connecting') <= Cardinality(Connecting) + 1
          BY <3>2, FiniteHere, SizesPlus
    <3>4. Cardinality(AllUsers) + Cardinality(Connecting) < GlobalMax
          BY <2>8 DEF GlobalFree, AllUsers, Connecting
    <3>5. QED
          BY <1>1, <2>3, <2>4, <3>1, <3>3, <3>4
  <2>9. QED
        BY <2>6, <2>7, <2>8, ReserveStep
<1>5. QED
      BY <1>3, <1>4, UseStep

LEMMA PermitInit == Init => PermitInv
<1> SUFFICES ASSUME Init PROVE PermitInv
    OBVIOUS
<1>1. Cardinality({}) = 0
      BY FS_EmptySet
<1>2. \A c \in Conns : ~ InUse(c)
  <2>1. \A c \in Conns : c # Nobody
        BY PoolAssumption
  <2>2. QED
        BY <2>1 DEF Init, InUse, Held, Listed
<1>3. /\ \A p \in Pools : {c \in Conns : InUse(c) /\ owner[c] = p} = {}
      /\ {c \in Conns : InUse(c)} = {}
      BY <1>2
<1>4. /\ \A p \in Pools : At(p, Reserved) = {}
      /\ {r \in Requests : pc[r] = "connect"} = {}
  <2>1. \A r \in Requests : pc[r] = "idle"
        BY DEF Init
  <2>2. QED
        BY <2>1 DEF At, Of, Reserved
<1>5. /\ \A p \in Pools : 0 + 0 <= MaxConnections[p]
      /\ 0 + 0 <= GlobalMax
      BY PoolAssumption
<1>6. QED
      BY <1>1, <1>3, <1>4, <1>5 DEF PermitInv

\* "Aggregate socket capacity across all ordinary HTTP/fallback pools": the
\* sockets and the connection attempts of a pool, and of all of them, stay
\* within the configured limits, whoever holds on to a connection: its driver,
\* a tunnel, a body.  An HTTP/2 connection without driver that nobody refers to
\* is not counted.
THEOREM PoolsBounded == Spec => []SocketsBounded
<1>1. TypeOK /\ PermitInv => SocketsBounded
  <2> SUFFICES ASSUME TypeOK, PermitInv PROVE SocketsBounded
      OBVIOUS
  <2> DEFINE Counted == Sockets \ Abandoned
  <2>0. \A c \in Counted : c \in Conns /\ InUse(c)
        BY DEF Sockets, Abandoned, Upgraded, InUse, Held
  <2>1. /\ Counted \subseteq AllUsers
        /\ \A p \in Pools : /\ {c \in Counted : owner[c] = p} \subseteq Users(p)
                            /\ At(p, {"connect"}) \subseteq At(p, Reserved)
        BY <2>0 DEF AllUsers, Users, At, Reserved
  <2> HIDE DEF Counted
  <2>2. /\ Cardinality(Counted) \in Nat /\ Cardinality(AllUsers) \in Nat
        /\ Cardinality(Counted) <= Cardinality(AllUsers)
        BY <2>1, FiniteHere, Sizes
  <2>3. Cardinality(Connecting) \in Nat
        BY FiniteHere, FS_CardinalityType
  <2>4. Cardinality(AllUsers) + Cardinality(Connecting) <= GlobalMax /\ GlobalMax \in Nat
        BY PoolAssumption DEF PermitInv, AllUsers, Connecting
  <2>5. Cardinality(Counted) + Cardinality({r \in Requests : pc[r] = "connect"})
          <= GlobalMax
        BY <2>2, <2>3, <2>4 DEF Connecting
  <2>6. ASSUME NEW p \in Pools
        PROVE  Cardinality({c \in Counted : owner[c] = p}) + Cardinality(At(p, {"connect"}))
                 <= MaxConnections[p]
    <3>1. LET S == {c \in Counted : owner[c] = p}
          IN  /\ Cardinality(S) \in Nat /\ Cardinality(Users(p)) \in Nat
              /\ Cardinality(S) <= Cardinality(Users(p))
          BY <2>1, FiniteHere, Sizes
    <3>2. /\ Cardinality(At(p, {"connect"})) \in Nat /\ Cardinality(At(p, Reserved)) \in Nat
          /\ Cardinality(At(p, {"connect"})) <= Cardinality(At(p, Reserved))
          BY <2>1, FiniteHere, Sizes
    <3>3. Cardinality(Users(p)) + Cardinality(At(p, Reserved)) <= MaxConnections[p]
          /\ MaxConnections[p] \in Nat
          BY PoolAssumption DEF PermitInv, Users
    <3>4. QED
          BY <3>1, <3>2, <3>3
  <2>7. QED
        BY <2>5, <2>6 DEF SocketsBounded, Counted
<1>2. TypeOK /\ HandInv /\ PermitInv /\ [Next]_vars => (TypeOK /\ HandInv /\ PermitInv)'
      BY TypeStep, PermitStep
<1>3. QED
      BY <1>1, <1>2, TypeInit, PermitInit, PTL DEF Spec

-----------------------------------------------------------------------------
(* Who holds a connection *)

Linked == {"ready", "readywait", "sent", "body", "tunnel"}

\* A connection is held by requests of its own pool, at the steps that need
\* one; the idle lists and the slots hold connections of their own pools.
HolderInv ==
  /\ \A r \in Requests : conn[r] # Nobody =>
       pc[r] \in Linked /\ owner[conn[r]] = pool[r]
  /\ \A r \in Requests : pc[r] \in Linked \ {"body"} => conn[r] # Nobody
  /\ \A p \in Pools, c \in Conns : Listed(p, c) =>
       owner[c] = p /\ Protocol[p] = "http1"
  /\ \A p \in Pools : slot[p] # Nobody =>
       owner[slot[p]] = p /\ Protocol[p] = "http2"

\* An HTTP/1 connection is in one place only.
AloneInv ==
  /\ \A r, q \in Requests : conn[r] # Nobody /\ conn[r] = conn[q] /\ Http1(r) => r = q
  /\ \A r \in Requests, p \in Pools : conn[r] # Nobody => ~ Listed(p, conn[r])
  /\ \A p \in Pools : Distinct(idle[p])

\* Where a listed connection comes from.
LEMMA ListOrigin ==
  ASSUME TypeOK, [Next]_vars, NEW p \in Pools, NEW c \in Conns, Listed(p, c)'
  PROVE  \/ Listed(p, c)
         \/ \E r \in Requests : Returns(r) /\ p = pool[r] /\ c = conn[r]
<1>1. CASE UNCHANGED idle
      BY <1>1 DEF Listed
<1>2. CASE \E q \in Pools, s \in Seq(Conns) :
             idle' = [idle EXCEPT ![q] = s] /\ Part(s, idle[q])
      BY <1>2, ListedInUse
<1>3. CASE \E r \in Requests : Returns(r)
      BY <1>3, ListedOne
<1>4. QED
      BY <1>1, <1>2, <1>3, IdleStep

LEMMA OwnerStep ==
  ASSUME TypeOK, [Next]_vars, NEW c \in Conns, InUse(c)
  PROVE  owner'[c] = owner[c]
<1>1. CASE NoNewUse
      BY <1>1 DEF NoNewUse
<1>2. ASSUME NEW r \in Requests, NEW d \in Conns, Connected(r, d)
      PROVE  owner'[c] = owner[c]
  <2>1. d # c /\ owner' = [owner EXCEPT ![d] = pool[r]]
        BY <1>2 DEF Connected
  <2>2. QED
        BY <2>1 DEF TypeOK
<1>3. QED
      BY <1>1, <1>2, UseStep

\* A request lets go of its connection, or gets one, or none.
Keeps(r) ==
  /\ conn'[r] = conn[r] /\ pool'[r] = pool[r]
  /\ pc[r] \in Linked => pc'[r] \in Linked
  /\ pc'[r] \in Linked \ {"body"} => pc[r] \in Linked \ {"body"}

LetsGo(r) == conn'[r] = Nobody /\ pc'[r] \notin Linked \ {"body"}

Gets(r, c) ==
  /\ pc[r] \notin Linked /\ pc'[r] = "ready"
  /\ pool'[r] = pool[r] /\ conn'[r] = c
  /\ \/ Listed(pool[r], c) /\ \A p \in Pools : ~ Listed(p, c)'
     \/ slot[pool[r]] = c
     \/ Connected(r, c)

Others(r) ==
  \A q \in Requests \ {r} : pc'[q] = pc[q] /\ pool'[q] = pool[q] /\ conn'[q] = conn[q]

\* A connection taken from an idle list is in it no longer.
LEMMA TakenStep ==
  ASSUME TypeOK, HolderInv, AloneInv, NEW r \in Requests,
         NEW i \in DOMAIN idle[pool[r]], TakeIdle(r, i),
         NEW c, c = idle[pool[r]][i]
  PROVE  /\ c \in Conns /\ Listed(pool[r], c)
         /\ \A p \in Pools : ~ Listed(p, c)'
<1> DEFINE s == idle[pool[r]]
<1>0. /\ s \in Seq(Conns) /\ i \in 1..Len(s) /\ Len(s) \in Nat /\ pool[r] \in Pools
      /\ idle \in [Pools -> Seq(Conns)] /\ c \in Conns /\ Listed(pool[r], c)
      /\ c = s[i]
      BY DEF TypeOK, Listed
<1>1. idle' = [idle EXCEPT ![pool[r]] = SubSeq(s, 1, i - 1)]
      BY DEF TakeIdle
<1>2. ASSUME NEW p \in Pools, Listed(p, c)' PROVE FALSE
  <2>1. CASE p = pool[r]
    <3>1. /\ SubSeq(s, 1, i - 1) \in Seq(Conns) /\ Len(SubSeq(s, 1, i - 1)) = i - 1
          /\ \A k \in 1..(i - 1) : SubSeq(s, 1, i - 1)[k] = s[k]
          BY <1>0
    <3>2. idle'[p] = SubSeq(s, 1, i - 1)
          BY <1>0, <1>1, <2>1
    <3>3. DOMAIN idle'[p] = 1..(i - 1)
          BY <1>0, <3>1, <3>2
    <3>4. PICK k \in 1..(i - 1) : idle'[p][k] = c
          BY <1>2, <3>3 DEF Listed
    <3>5. k \in 1..Len(s) /\ k # i /\ s[k] = s[i]
          BY <1>0, <3>1, <3>2, <3>4
    <3>6. QED
          BY <1>0, <3>5 DEF AloneInv, Distinct
  <2>2. CASE p # pool[r]
    <3>1. idle'[p] = idle[p]
          BY <1>0, <1>1, <2>2
    <3>2. Listed(p, c)
          BY <1>2, <3>1 DEF Listed
    <3>3. QED
          BY <1>0, <2>2, <3>2 DEF HolderInv
  <2>3. QED
        BY <2>1, <2>2
<1>3. QED
      BY <1>0, <1>2

LEMMA LinkStep ==
  ASSUME TypeOK, HolderInv, AloneInv, [Next]_vars
  PROVE  \/ \A q \in Requests : pc'[q] = pc[q] /\ pool'[q] = pool[q] /\ conn'[q] = conn[q]
         \/ \E r \in Requests :
              /\ Others(r)
              /\ Keeps(r) \/ LetsGo(r) \/ \E c \in Conns : Gets(r, c)
<1> DEFINE Good(r) == /\ Others(r)
                      /\ Keeps(r) \/ LetsGo(r) \/ \E c \in Conns : Gets(r, c)
<1>0. /\ conn \in [Requests -> Conns \cup {Nobody}] /\ slot \in [Pools -> Conns \cup {Nobody}]
      /\ pool \in [Requests -> Pools] /\ pc \in [Requests -> Places]
      BY DEF TypeOK
<1> USE DEF Others, Linked
<1>1. ASSUME NEW r \in Requests, NEW p \in Pools, NEW body \in Uploads, Begin(r, p, body)
      PROVE  Good(r)
  <2>1. conn[r] = Nobody
        BY <1>1, BeginStep DEF HolderInv
  <2>2. QED
        BY <1>0, <1>1, <2>1, BeginStep DEF LetsGo
<1>2. ASSUME NEW r \in Requests, Fails(r) PROVE Good(r)
  <2>1. Finish(r)
        BY <1>2, FailStep
  <2>2. /\ pool' = pool /\ conn' = [conn EXCEPT ![r] = Nobody]
        /\ pc' = [pc EXCEPT ![r] = "idle"]
        BY <2>1, FinishStep
  <2>3. QED
        BY <1>0, <2>2 DEF LetsGo
<1>3. ASSUME NEW r \in Requests, Moves(r) PROVE Good(r)
      BY <1>0, <1>3, MoveStep DEF Hop, Keeps
<1>4. ASSUME NEW r \in Requests, AcquireHttp1(r) \/ Examine(r) PROVE Good(r)
  <2>1. /\ pool' = pool /\ pc[r] \in {"acquire", "examine"}
        /\ \/ \E i \in DOMAIN idle[pool[r]] : TakeIdle(r, i)
           \/ \E place \in {"wait", "local"} : TakeNone(r, place)
        BY <1>4, TakeStep
  <2>2. ASSUME NEW i \in DOMAIN idle[pool[r]], TakeIdle(r, i) PROVE Good(r)
    <3>0. PICK c : c = idle[pool[r]][i]
          OBVIOUS
    <3>1. /\ pc' = [pc EXCEPT ![r] = "ready"] /\ conn' = [conn EXCEPT ![r] = c]
          BY <2>2, <3>0 DEF TakeIdle, Goto
    <3>2. c \in Conns /\ Listed(pool[r], c) /\ \A p \in Pools : ~ Listed(p, c)'
          BY <2>2, <3>0, TakenStep
    <3>3. Gets(r, c) /\ Others(r)
          BY <1>0, <2>1, <3>1, <3>2 DEF Gets
    <3>4. QED
          BY <3>2, <3>3
  <2>3. ASSUME NEW place \in {"wait", "local"}, TakeNone(r, place) PROVE Good(r)
        BY <1>0, <2>1, <2>3 DEF TakeNone, Goto, Keeps
  <2>4. QED
        BY <2>1, <2>2, <2>3
<1>5. ASSUME NEW r \in Requests, AcquireHttp2(r) \/ Recheck(r) PROVE Good(r)
  <2>1. /\ pool' = pool /\ pc[r] \in {"acquire", "recheck"}
        /\ Current(r, "gate") \/ Current(r, "local")
        BY <1>5 DEF AcquireHttp2, Recheck
  <2>2. CASE slot[pool[r]] # Nobody /\ driver[slot[pool[r]]] # "none"
    <3>1. /\ slot[pool[r]] \in Conns
          /\ pc' = [pc EXCEPT ![r] = "ready"] /\ conn' = [conn EXCEPT ![r] = slot[pool[r]]]
          BY <1>0, <2>1, <2>2 DEF Current, Goto
    <3>2. Gets(r, slot[pool[r]])
          BY <1>0, <2>1, <3>1 DEF Gets
    <3>3. QED
          BY <1>0, <2>1, <3>1, <3>2
  <2>3. CASE ~ (slot[pool[r]] # Nobody /\ driver[slot[pool[r]]] # "none")
    <3>1. /\ \E place \in {"gate", "local"} : pc' = [pc EXCEPT ![r] = place]
          /\ conn' = [conn EXCEPT ![r] = Nobody]
          BY <2>1, <2>3 DEF Current, Goto
    <3>2. QED
          BY <1>0, <2>1, <3>1 DEF LetsGo
  <2>4. QED
        BY <2>2, <2>3
<1>6. ASSUME NEW r \in Requests, NEW c \in Conns, Connected(r, c) PROVE Good(r)
  <2>1. /\ pool' = pool /\ pc[r] = "connect" /\ pc' = [pc EXCEPT ![r] = "ready"]
        /\ conn' = [conn EXCEPT ![r] = c]
        BY <1>6 DEF Connected, Goto
  <2>2. QED
        BY <1>0, <1>6, <2>1 DEF Gets
<1>7. ASSUME NEW r \in Requests, Send(r) \/ Respond(r) PROVE Good(r)
      BY <1>0, <1>7 DEF Send, Respond, Goto, Keeps
<1>8. ASSUME NEW r \in Requests, BodySteps(r) PROVE Good(r)
  <2>1. /\ pool' = pool /\ pc[r] = "body"
        /\ pc' = pc \/ (pc' = [pc EXCEPT ![r] = "idle"] /\ conn'[r] = Nobody)
        /\ conn' = conn \/ conn' = [conn EXCEPT ![r] = Nobody]
        BY <1>8, BodyStep DEF BodySteps, Returns, Appended
  <2>2. QED
        BY <1>0, <2>1 DEF LetsGo, Keeps
<1>9. QED
      BY <1>1, <1>2, <1>3, <1>4, <1>5, <1>6, <1>7, <1>8, NextCases
      DEF UploadEnds, UploadCut, DriverEnds, ReapIdle, ReapTake, Aside, reqs

LEMMA SlotStep ==
  ASSUME TypeOK, [Next]_vars
  PROVE  \A p \in Pools :
           \/ slot'[p] \in {slot[p], Nobody}
           \/ \E r \in Requests, c \in Conns :
                Connected(r, c) /\ p = pool[r] /\ ~ Http1(r) /\ slot'[p] = c
<1>1. CASE NoNewUse
      BY <1>1 DEF NoNewUse
<1>2. ASSUME NEW r \in Requests, NEW c \in Conns, Connected(r, c), NEW p \in Pools
      PROVE  \/ slot'[p] \in {slot[p], Nobody}
             \/ Connected(r, c) /\ p = pool[r] /\ ~ Http1(r) /\ slot'[p] = c
  <2>1. slot' = IF Http1(r) THEN slot ELSE [slot EXCEPT ![pool[r]] = c]
        BY <1>2 DEF Connected
  <2>2. QED
        BY <1>2, <2>1 DEF TypeOK
<1>3. QED
      BY <1>1, <1>2, UseStep

LEMMA NewOwner ==
  ASSUME TypeOK, NEW r \in Requests, NEW c \in Conns, Connected(r, c)
  PROVE  /\ owner'[c] = pool[r] /\ ~ InUse(c) /\ pool' = pool
         /\ \A q \in Requests : conn[q] # c
         /\ \A p \in Pools : slot[p] # c /\ ~ Listed(p, c)
BY DEF Connected, TypeOK, InUse, Held

LEMMA HolderStep ==
  ASSUME TypeOK, TypeOK', HolderInv, AloneInv, [Next]_vars
  PROVE  HolderInv'
<1>0. /\ conn \in [Requests -> Conns \cup {Nobody}] /\ slot \in [Pools -> Conns \cup {Nobody}]
      /\ pool \in [Requests -> Pools] /\ Protocol \in [Pools -> {"http1", "http2"}]
      /\ Nobody \notin Conns
      BY PoolAssumption DEF TypeOK
<1>1. ASSUME NEW r \in Requests
      PROVE  /\ conn'[r] # Nobody => pc'[r] \in Linked /\ owner'[conn'[r]] = pool'[r]
             /\ pc'[r] \in Linked \ {"body"} => conn'[r] # Nobody
  <2>1. CASE Keeps(r)
    <3>1. conn[r] # Nobody => conn[r] \in Conns /\ InUse(conn[r])
          BY <1>0 DEF InUse, Held
    <3>2. QED
          BY <2>1, <3>1, OwnerStep DEF Keeps, HolderInv
  <2>2. CASE LetsGo(r)
        BY <2>2 DEF LetsGo
  <2>3. ASSUME NEW c \in Conns, Gets(r, c)
        PROVE  conn'[r] = c /\ pc'[r] = "ready" /\ owner'[c] = pool'[r]
    <3>1. conn'[r] = c /\ pc'[r] = "ready" /\ pool'[r] = pool[r]
          BY <2>3 DEF Gets
    <3>2. CASE Listed(pool[r], c)
      <4>1. owner[c] = pool[r] /\ InUse(c)
            BY <1>0, <3>2 DEF HolderInv, InUse, Held
      <4>2. QED
            BY <3>1, <4>1, OwnerStep
    <3>3. CASE slot[pool[r]] = c
      <4>1. owner[c] = pool[r] /\ InUse(c)
            BY <1>0, <3>3 DEF HolderInv, InUse, Held
      <4>2. QED
            BY <3>1, <4>1, OwnerStep
    <3>4. CASE Connected(r, c)
          BY <3>1, <3>4, NewOwner
    <3>5. QED
          BY <2>3, <3>2, <3>3, <3>4 DEF Gets
  <2>4. CASE pc'[r] = pc[r] /\ pool'[r] = pool[r] /\ conn'[r] = conn[r]
        BY <2>1, <2>4 DEF Keeps
  <2>5. QED
        BY <1>0, <2>1, <2>2, <2>3, <2>4, LinkStep DEF Others, Linked
<1>2. ASSUME NEW p \in Pools, NEW c \in Conns, Listed(p, c)'
      PROVE  owner'[c] = p /\ Protocol[p] = "http1"
  <2>1. CASE Listed(p, c)
        BY <2>1, OwnerStep DEF HolderInv, InUse, Held
  <2>2. ASSUME NEW r \in Requests, Returns(r), p = pool[r], c = conn[r]
        PROVE  owner'[c] = p /\ Protocol[p] = "http1"
    <3>1. owner[c] = p /\ InUse(c) /\ Http1(r)
          BY <2>2 DEF Returns, HolderInv, InUse, Held
    <3>2. QED
          BY <2>2, <3>1, OwnerStep DEF Http1
  <2>3. QED
        BY <1>2, <2>1, <2>2, ListOrigin
<1>3. ASSUME NEW p \in Pools, slot'[p] # Nobody
      PROVE  owner'[slot'[p]] = p /\ Protocol[p] = "http2"
  <2>1. CASE slot'[p] = slot[p]
    <3>1. InUse(slot[p]) /\ slot[p] \in Conns
          BY <1>0, <1>3, <2>1 DEF InUse, Held
    <3>2. QED
          BY <1>3, <2>1, <3>1, OwnerStep DEF HolderInv
  <2>2. ASSUME NEW r \in Requests, NEW c \in Conns,
               Connected(r, c), p = pool[r], ~ Http1(r), slot'[p] = c
        PROVE  owner'[slot'[p]] = p /\ Protocol[p] = "http2"
        BY <1>0, <2>2, NewOwner DEF Http1
  <2>3. QED
        BY <1>3, <2>1, <2>2, SlotStep
<1>4. QED
      BY <1>1, <1>2, <1>3 DEF HolderInv

LEMMA AloneStep ==
  ASSUME TypeOK, TypeOK', HolderInv, AloneInv, [Next]_vars
  PROVE  AloneInv'
<1>0. /\ conn \in [Requests -> Conns \cup {Nobody}] /\ slot \in [Pools -> Conns \cup {Nobody}]
      /\ pool \in [Requests -> Pools] /\ idle \in [Pools -> Seq(Conns)]
      /\ Nobody \notin Conns
      BY PoolAssumption DEF TypeOK
\* A connection that is taken from a list or is new is nobody else's.
<1>1. ASSUME NEW r \in Requests, NEW c \in Conns, Gets(r, c), Others(r),
             NEW q \in Requests, q # r, conn'[q] = c
      PROVE  ~ Http1(r)' /\ ~ Http1(q)'
  <2>1. conn[q] = c /\ pool'[q] = pool[q] /\ pool'[r] = pool[r]
        BY <1>1 DEF Others, Gets
  <2>2. CASE Listed(pool[r], c)
        BY <1>0, <2>1, <2>2 DEF AloneInv
  <2>3. CASE slot[pool[r]] = c
    <3>1. owner[c] = pool[r] /\ Protocol[pool[r]] = "http2" /\ owner[c] = pool[q]
          BY <1>0, <2>1, <2>3 DEF HolderInv
    <3>2. QED
          BY <2>1, <3>1 DEF Http1
  <2>4. CASE Connected(r, c)
        BY <2>1, <2>4, NewOwner
  <2>5. QED
        BY <1>1, <2>2, <2>3, <2>4 DEF Gets
<1>2. ASSUME NEW r \in Requests, NEW q \in Requests,
             conn'[r] # Nobody, conn'[r] = conn'[q], Http1(r)'
      PROVE  r = q
  <2>1. ASSUME Keeps(r) \/ (pool'[r] = pool[r] /\ conn'[r] = conn[r]),
               conn'[q] = conn[q]
        PROVE  r = q
        BY <1>2, <2>1 DEF Keeps, Http1, AloneInv
  <2>2. ASSUME NEW s \in Requests, Others(s), s # r, s # q PROVE r = q
        BY <2>1, <2>2 DEF Others
  <2>3. ASSUME Others(r), Keeps(r) \/ LetsGo(r) \/ \E c \in Conns : Gets(r, c)
        PROVE  r = q
    <3>1. CASE Keeps(r)
          BY <2>1, <2>3, <3>1 DEF Keeps, Others
    <3>2. CASE LetsGo(r)
          BY <1>2, <3>2 DEF LetsGo
    <3>3. ASSUME NEW c \in Conns, Gets(r, c) PROVE r = q
          BY <1>1, <1>2, <2>3, <3>3 DEF Gets
    <3>4. QED
          BY <2>3, <3>1, <3>2, <3>3
  <2>4. ASSUME Others(q), Keeps(q) \/ LetsGo(q) \/ \E c \in Conns : Gets(q, c), r # q
        PROVE  FALSE
    <3>1. CASE Keeps(q)
          BY <2>1, <2>4, <3>1 DEF Keeps, Others
    <3>2. CASE LetsGo(q)
          BY <1>2, <3>2 DEF LetsGo
    <3>3. ASSUME NEW c \in Conns, Gets(q, c) PROVE FALSE
          BY <1>1, <1>2, <2>4, <3>3 DEF Gets
    <3>4. QED
          BY <2>4, <3>1, <3>2, <3>3
  <2>5. QED
        BY <2>1, <2>2, <2>3, <2>4, LinkStep
<1>3. ASSUME NEW r \in Requests, NEW p \in Pools, conn'[r] # Nobody,
             NEW c, c = conn'[r], Listed(p, c)'
      PROVE  FALSE
  <2>0. c \in Conns
        BY <1>3 DEF TypeOK
  <2>1. CASE Listed(p, c)
    <3>1. CASE conn'[r] = conn[r]
          BY <1>3, <2>1, <3>1 DEF AloneInv
    <3>2. ASSUME NEW d \in Conns, Gets(r, d) PROVE FALSE
      <4>1. d = c
            BY <1>3, <3>2 DEF Gets
      <4>2. CASE \A s \in Pools : ~ Listed(s, d)'
            BY <1>3, <4>1, <4>2
      <4>3. CASE slot[pool[r]] = c
        <5>1. owner[c] = pool[r] /\ Protocol[pool[r]] = "http2"
          <6>1. pool[r] \in Pools /\ slot[pool[r]] # Nobody
                BY <1>0, <2>0, <4>3
          <6>2. QED
                BY <4>3, <6>1 DEF HolderInv
        <5>2. owner[c] = p /\ Protocol[p] = "http1"
              BY <2>0, <2>1 DEF HolderInv
        <5>3. QED
              BY <5>1, <5>2
      <4>4. CASE Connected(r, c)
            BY <2>0, <2>1, <4>4, NewOwner
      <4>5. QED
            BY <3>2, <4>1, <4>2, <4>3, <4>4 DEF Gets
    <3>3. QED
          BY <1>3, <3>1, <3>2, LinkStep DEF Keeps, LetsGo, Others
  <2>2. ASSUME NEW s \in Requests, Returns(s), p = pool[s], c = conn[s] PROVE FALSE
    <3>1. conn' = [conn EXCEPT ![s] = Nobody] /\ Http1(s) /\ conn[s] # Nobody
          BY <2>2 DEF Returns, Appended
    <3>2. r # s /\ conn[r] = conn[s]
          BY <1>0, <1>3, <2>2, <3>1
    <3>3. QED
          BY <3>1, <3>2 DEF AloneInv
  <2>3. QED
        BY <1>3, <2>0, <2>1, <2>2, ListOrigin
<1>4. ASSUME NEW p \in Pools PROVE Distinct(idle[p])'
  <2>1. CASE UNCHANGED idle
        BY <2>1 DEF AloneInv, Distinct
  <2>2. ASSUME NEW q \in Pools, NEW s \in Seq(Conns), Part(s, idle[q]),
               idle' = [idle EXCEPT ![q] = s]
        PROVE  Distinct(idle'[p])
        BY <1>0, <2>2 DEF Part, AloneInv
  <2>3. ASSUME NEW r \in Requests, Returns(r) PROVE Distinct(idle'[p])
    <3>1. /\ conn[r] \in Conns /\ ~ Listed(p, conn[r]) /\ Distinct(idle[p])
          /\ idle' = [idle EXCEPT ![pool[r]] = Append(@, conn[r])]
          BY <1>0, <2>3 DEF Returns, Appended, AloneInv
    <3>2. CASE p = pool[r]
      <4>1. idle'[p] = Append(idle[p], conn[r])
            BY <1>0, <3>1, <3>2
      <4>2. /\ Len(idle'[p]) = Len(idle[p]) + 1 /\ Len(idle[p]) \in Nat
            /\ \A i \in 1..Len(idle[p]) : idle'[p][i] = idle[p][i]
            /\ idle'[p][Len(idle[p]) + 1] = conn[r]
            BY <1>0, <3>1, <4>1
      <4>3. \A i \in 1..Len(idle[p]) : idle[p][i] # conn[r]
            BY <1>0, <3>1 DEF Listed
      <4>4. QED
            BY <3>1, <4>2, <4>3 DEF Distinct
    <3>3. CASE p # pool[r]
          BY <1>0, <3>1, <3>3
    <3>4. QED
          BY <3>2, <3>3
  <2>4. QED
        BY <2>1, <2>2, <2>3, IdleStep DEF Distinct
<1>5. ASSUME NEW r \in Requests, NEW p \in Pools, conn'[r] # Nobody
      PROVE  ~ Listed(p, conn[r])'
      BY <1>3, <1>5 DEF Listed
<1>6. QED
      BY <1>2, <1>4, <1>5 DEF AloneInv

-----------------------------------------------------------------------------
(* What a connection owes *)

\* What the connection of an HTTP/1 exchange owes follows from how far its
\* upload and its answer are.
Owing(r) ==
  /\ Http1(r) /\ conn[r] # Nobody =>
       /\ pc[r] \in {"ready", "readywait"} => owes[conn[r]] = {}
       /\ upload[r] = "done" => "request" \notin owes[conn[r]]
       /\ answer[r] = "ended" => "response" \notin owes[conn[r]]
       /\ pc[r] \in {"sent", "body"} /\ upload[r] = "held" => via[r] = conn[r]
  /\ pc[r] # "body" => answer[r] = "open"

OweInv ==
  /\ \A c \in Conns : driver[c] = "none" => owes[c] = {}
  /\ \A p \in Pools, c \in Conns : Listed(p, c) => owes[c] = {}
  /\ \A r \in Requests : Owing(r)

\* A connection owes more only when a request is sent on it.
LEMMA OwesStep ==
  ASSUME TypeOK, HolderInv, [Next]_vars
  PROVE  \/ \A c \in Conns : owes'[c] \subseteq owes[c]
         \/ \E r \in Requests :
              /\ Send(r) /\ Http1(r) /\ conn[r] \in Conns
              /\ \A c \in Conns : c # conn[r] => owes'[c] = owes[c]
<1> DEFINE Less == \A c \in Conns : owes'[c] \subseteq owes[c]
<1>0. owes \in [Conns -> SUBSET {"request", "response"}]
      /\ conn \in [Requests -> Conns \cup {Nobody}]
      BY DEF TypeOK
<1>1. ASSUME NEW r \in Requests, Send(r), Http1(r)
      PROVE  /\ conn[r] \in Conns
             /\ \A c \in Conns : c # conn[r] => owes'[c] = owes[c]
  <2>1. conn[r] \in Conns
        BY <1>0, <1>1 DEF Send, HolderInv, Linked
  <2>2. QED
        BY <1>0, <1>1, <2>1 DEF Send
<1>2. ASSUME NEW r \in Requests, Send(r), ~ Http1(r) PROVE Less
      BY <1>2 DEF Send
<1>3. ASSUME NEW r \in Requests, Respond(r) PROVE Less
      BY <1>0, <1>3 DEF Respond, Answered
<1>4. ASSUME NEW r \in Requests, BodySteps(r) PROVE Less
  <2>1. owes' = owes \/ (conn[r] # Nobody /\ owes' = Answered(r))
        BY <1>4, BodyStep DEF BodySteps
  <2>2. QED
        BY <1>0, <2>1 DEF Answered
<1>5. ASSUME NEW r \in Requests, UploadEnds(r) \/ UploadCut(r) PROVE Less
      BY <1>0, <1>5 DEF UploadEnds, UploadCut, wires
<1>6. ASSUME NEW c \in Conns, DriverEnds(c) PROVE Less
      BY <1>0, <1>6 DEF DriverEnds
<1>7. ASSUME NEW r \in Requests, Fails(r) PROVE Less
  <2>1. Finish(r)
        BY <1>7, FailStep
  <2>2. QED
        BY <2>1, FinishStep
<1>8. ASSUME NEW r \in Requests, Moves(r) PROVE Less
      BY <1>8, MoveStep
<1>9. ASSUME NEW r \in Requests, AcquireHttp1(r) \/ Examine(r) PROVE Less
      BY <1>9, TakeStep
<1>10. ASSUME UNCHANGED owes PROVE Less
       BY <1>10
<1>11. Less \/ \E r \in Requests : Send(r) /\ Http1(r)
       BY <1>2, <1>3, <1>4, <1>5, <1>6, <1>7, <1>8, <1>9, <1>10, NextCases
       DEF Begin, AcquireHttp2, Recheck, Connected, ReapIdle, ReapTake, Aside, wires
<1>12. QED
       BY <1>1, <1>11

\* Only a driver that ends leaves a connection without one.
LEMMA DriverStep ==
  ASSUME TypeOK, [Next]_vars, NEW c \in Conns, driver'[c] = "none"
  PROVE  driver[c] = "none" \/ DriverEnds(c)
<1>0. driver \in [Conns -> {"none", "running", "cancelled"}]
      BY DEF TypeOK
<1> DEFINE Was == driver[c] = "none"
<1>D. ASSUME driver' = driver \/ \E S : driver' = Dropped(S) PROVE Was
      BY <1>D, DroppedFacts
<1>1. ASSUME NEW r \in Requests, Fails(r) PROVE Was
  <2>1. Finish(r)
        BY <1>1, FailStep
  <2>2. driver' = IF Http1(r) THEN Dropped({conn[r]}) ELSE driver
        BY <2>1, FinishStep
  <2>3. QED
        BY <1>D, <2>2
<1>2. ASSUME NEW r \in Requests, Moves(r) PROVE Was
      BY <1>2, <1>D, MoveStep
<1>3. ASSUME NEW r \in Requests, AcquireHttp1(r) \/ Examine(r) PROVE Was
  <2>1. \E S : driver' = Dropped(S)
        BY <1>3, TakeStep DEF TakeIdle, TakeNone
  <2>2. QED
        BY <1>D, <2>1
<1>4. ASSUME NEW r \in Requests, NEW d \in Conns, Connected(r, d) PROVE Was
  <2>1. \E S : driver' = [Dropped(S) EXCEPT ![d] = "running"]
        BY <1>4 DEF Connected
  <2>2. QED
        BY <1>0, <2>1, DroppedFacts
<1>5. ASSUME NEW r \in Requests, BodySteps(r) PROVE Was
  <2>1. driver' = driver \/ \E S : driver' = Dropped(S)
        BY <1>5, BodyStep DEF BodySteps, Returns, Appended
  <2>2. QED
        BY <1>D, <2>1
<1>6. ASSUME NEW d \in Conns, DriverEnds(d) PROVE Was \/ DriverEnds(c)
      BY <1>0, <1>6 DEF DriverEnds
<1>7. ASSUME NEW p \in Pools, NEW n \in 0..Len(idle[p]), ReapIdle(p, n) PROVE Was
  <2>1. \E S : driver' = Dropped(S)
        BY <1>7 DEF ReapIdle
  <2>2. QED
        BY <1>D, <2>1
<1>8. ASSUME ReapTake PROVE Was
  <2>1. \E S : driver' = Dropped(S)
        BY <1>8 DEF ReapTake
  <2>2. QED
        BY <1>D, <2>1
<1>9. ASSUME UNCHANGED driver PROVE Was
      BY <1>9
<1>10. QED
       BY <1>1, <1>2, <1>3, <1>4, <1>5, <1>6, <1>7, <1>8, <1>9, NextCases
       DEF Begin, AcquireHttp2, Recheck, Send, Respond, UploadEnds, UploadCut,
           Aside, wires

\* One HTTP/1 connection owes what its one holder has not had from it.
LEMMA OthersOwe ==
  ASSUME TypeOK, HolderInv, AloneInv, [Next]_vars,
         NEW q \in Requests, conn[q] # Nobody, Http1(q), ~ Send(q)
  PROVE  owes'[conn[q]] \subseteq owes[conn[q]]
<1>1. conn[q] \in Conns
      BY DEF TypeOK
<1>2. ASSUME NEW r \in Requests, Send(r), Http1(r), conn[r] \in Conns,
             \A c \in Conns : c # conn[r] => owes'[c] = owes[c]
      PROVE  owes'[conn[q]] = owes[conn[q]]
  <2>1. conn[r] # conn[q]
        BY <1>2 DEF AloneInv
  <2>2. QED
        BY <1>1, <1>2, <2>1
<1>3. QED
      BY <1>1, <1>2, OwesStep

\* A request that another one's step leaves as it was.
LEMMA OwingKept ==
  ASSUME TypeOK, HolderInv, AloneInv, [Next]_vars, NEW q \in Requests, Owing(q),
         pool'[q] = pool[q], answer'[q] = answer[q],
         conn'[q] = conn[q], pc'[q] = pc[q],
         \/ upload'[q] = upload[q] /\ via'[q] = via[q]
         \/ upload'[q] = "gone"
  PROVE  Owing(q)'
<1>1. ~ Send(q)
  <2>1. Send(q) => pc[q] \in {"ready", "readywait"} /\ pc'[q] = "sent"
        BY DEF Send, Goto, TypeOK
  <2>2. QED
        BY <2>1
<1>2. conn[q] # Nobody /\ Http1(q) => owes'[conn[q]] \subseteq owes[conn[q]]
      BY <1>1, OthersOwe
<1>3. QED
      BY <1>2 DEF Owing, Http1

LEMMA OwingStep ==
  ASSUME TypeOK, TypeOK', HandInv, HandInv', HolderInv, HolderInv', AloneInv, OweInv,
         [Next]_vars, NEW q \in Requests
  PROVE  Owing(q)'
<1>0. /\ pc \in [Requests -> Places] /\ pool \in [Requests -> Pools]
      /\ conn \in [Requests -> Conns \cup {Nobody}]
      /\ answer \in [Requests -> {"open", "ended", "broken"}]
      /\ upload \in [Requests -> {"held", "done", "gone"}]
      /\ via \in [Requests -> Conns \cup {Nobody}]
      /\ owes \in [Conns -> SUBSET {"request", "response"}]
      /\ Owing(q) /\ Nobody \notin Conns
      BY PoolAssumption DEF TypeOK, OweInv
<1> DEFINE Same == /\ pool'[q] = pool[q] /\ answer'[q] = answer[q]
                   /\ conn'[q] = conn[q] /\ pc'[q] = pc[q]
                   /\ upload'[q] = upload[q] /\ via'[q] = via[q]
<1>1. Same => Owing(q)'
      BY <1>0, OwingKept
<1>2. (answer'[q] = "open" /\ conn'[q] = Nobody) => Owing(q)'
      BY DEF Owing
<1>3. ASSUME NEW r \in Requests, NEW p \in Pools, NEW body \in Uploads, Begin(r, p, body)
      PROVE  Owing(q)'
  <2>1. CASE q = r
    <3>1. conn[r] = Nobody /\ answer[r] = "open"
          BY <1>0, <1>3, <2>1, BeginStep DEF HolderInv, Linked, Owing
    <3>2. QED
          BY <1>2, <1>3, <2>1, <3>1, BeginStep
  <2>2. CASE q # r
        BY <1>0, <1>1, <1>3, <2>2, BeginStep
  <2>3. QED
        BY <2>1, <2>2
<1>4. ASSUME NEW r \in Requests, Fails(r) PROVE Owing(q)'
  <2>1. Finish(r)
        BY <1>4, FailStep
  <2>2. /\ pc' = [pc EXCEPT ![r] = "idle"] /\ conn' = [conn EXCEPT ![r] = Nobody]
        /\ answer' = [answer EXCEPT ![r] = "open"]
        /\ upload' = [upload EXCEPT ![r] = Orphaned(r)]
        /\ UNCHANGED <<pool, via>>
        BY <2>1, FinishStep
  <2>3. QED
        BY <1>0, <1>1, <1>2, <2>2
<1>5. ASSUME NEW r \in Requests, Moves(r) PROVE Owing(q)'
  <2>0. UNCHANGED <<pool, conn, answer, upload, via, owes>>
        BY <1>5, MoveStep
  <2>1. CASE q # r
    <3>1. pc'[q] = pc[q]
          BY <1>0, <1>5, <2>1, MoveStep DEF Hop
    <3>2. QED
          BY <1>1, <2>0, <3>1
  <2>2. CASE q = r
    <3>1. pc[q] # "body"
          BY <1>5, <2>2, MoveStep DEF Hop
    <3>2. pc'[q] \in {"ready", "readywait"} => pc[q] \in {"ready", "readywait"}
          BY <1>0, <1>5, <2>2, MoveStep DEF Hop
    <3>3. pc'[q] \notin {"sent", "body"}
          BY <1>0, <1>5, <2>2, MoveStep DEF Hop
    <3>4. QED
          BY <1>0, <2>0, <3>1, <3>2, <3>3 DEF Owing, Http1
  <2>3. QED
        BY <2>1, <2>2
\* A connection taken, for what it owes.
<1>6. ASSUME NEW r \in Requests, UNCHANGED <<answer, upload, via, owes, pool>>,
             NEW place \in {"ready", "wait", "local", "gate"},
             pc' = [pc EXCEPT ![r] = place], pc[r] \notin Linked,
             \A s \in Requests \ {r} : conn'[s] = conn[s],
             Http1(r) /\ conn'[r] # Nobody => owes[conn'[r]] = {}
      PROVE  Owing(q)'
  <2>1. CASE q # r
        BY <1>0, <1>1, <1>6, <2>1
  <2>2. CASE q = r
    <3>1. answer[q] = "open"
          BY <1>0, <1>6, <2>2 DEF Owing, Linked
    <3>2. pc'[q] = place
          BY <1>0, <1>6, <2>2
    <3>3. QED
          BY <1>6, <2>2, <3>1, <3>2 DEF Owing, Http1
  <2>3. QED
        BY <2>1, <2>2
<1>7. ASSUME NEW r \in Requests, AcquireHttp1(r) \/ Examine(r) PROVE Owing(q)'
  <2>1. UNCHANGED <<answer, upload, via, owes, pool>> /\ pc[r] \notin Linked
        BY <1>7, TakeStep DEF Linked
  <2>2. ASSUME NEW i \in DOMAIN idle[pool[r]], TakeIdle(r, i) PROVE Owing(q)'
    <3>0. PICK c : c = idle[pool[r]][i]
          OBVIOUS
    <3>1. pc' = [pc EXCEPT ![r] = "ready"] /\ conn' = [conn EXCEPT ![r] = c]
          BY <2>2, <3>0 DEF TakeIdle, Goto
    <3>2. owes[c] = {}
      <4>1. c \in Conns /\ Listed(pool[r], c) /\ pool[r] \in Pools
            BY <1>0, <2>2, <3>0, TakenStep
      <4>2. QED
            BY <4>1 DEF OweInv
    <3>3. conn'[r] = c /\ \A s \in Requests \ {r} : conn'[s] = conn[s]
          BY <1>0, <3>1
    <3>4. QED
          BY <1>6, <2>1, <3>1, <3>2, <3>3
  <2>3. ASSUME NEW place \in {"wait", "local"}, TakeNone(r, place) PROVE Owing(q)'
    <3>1. pc' = [pc EXCEPT ![r] = place] /\ conn' = conn
          BY <2>3 DEF TakeNone, Goto
    <3>2. conn[r] = Nobody
          BY <2>1 DEF HolderInv
    <3>3. QED
          BY <1>6, <2>1, <3>1, <3>2
  <2>4. QED
        BY <1>7, <2>2, <2>3, TakeStep
<1>8. ASSUME NEW r \in Requests, AcquireHttp2(r) \/ Recheck(r) PROVE Owing(q)'
  <2>1. /\ UNCHANGED <<answer, upload, via, owes, pool>> /\ pc[r] \notin Linked
        /\ \E place \in {"ready", "gate", "local"} : pc' = [pc EXCEPT ![r] = place]
        /\ conn' \in {[conn EXCEPT ![r] = slot[pool[r]]], [conn EXCEPT ![r] = Nobody]}
        BY <1>8 DEF AcquireHttp2, Recheck, Current, Goto, ups, wires, Linked
  <2>2. slot[pool[r]] # Nobody => ~ Http1(r)
        BY <1>0 DEF HolderInv, Http1
  <2>3. /\ \A s \in Requests \ {r} : conn'[s] = conn[s]
        /\ ~ (Http1(r) /\ conn'[r] # Nobody)
        BY <1>0, <2>1, <2>2
  <2>4. QED
        BY <1>6, <2>1, <2>3
<1>9. ASSUME NEW r \in Requests, NEW c \in Conns, Connected(r, c) PROVE Owing(q)'
  <2>1. /\ UNCHANGED <<answer, upload, via, owes, pool>> /\ pc[r] \notin Linked
        /\ pc' = [pc EXCEPT ![r] = "ready"] /\ conn' = [conn EXCEPT ![r] = c]
        /\ driver[c] = "none"
        BY <1>9 DEF Connected, InUse, Goto, ups, Linked
  <2>2. owes[c] = {}
        BY <2>1 DEF OweInv
  <2>3. conn'[r] = c /\ \A s \in Requests \ {r} : conn'[s] = conn[s]
        BY <1>0, <2>1
  <2>4. QED
        BY <1>6, <2>1, <2>2, <2>3
<1>10. ASSUME NEW r \in Requests, Send(r) PROVE Owing(q)'
  <2>0. /\ pc' = [pc EXCEPT ![r] = "sent"] /\ UNCHANGED <<pool, conn, answer, upload>>
        /\ pc[r] \in {"ready", "readywait"}
        /\ via' = IF Http1(r) /\ upload[r] = "held"
                  THEN [via EXCEPT ![r] = conn[r]] ELSE via
        BY <1>10 DEF Send, Goto
  <2>1. CASE q # r
        BY <1>0, <1>1, <2>0, <2>1
  <2>2. CASE q = r
    <3>1. conn[r] \in Conns
          BY <1>0, <2>0 DEF HolderInv, Linked
    <3>2. Http1(r) => /\ owes'[conn[r]] = {"response"} \cup
                           (IF upload[r] = "held" THEN {"request"} ELSE {})
                      /\ upload[r] = "held" => via'[r] = conn[r]
          BY <1>0, <1>10, <2>0, <3>1 DEF Send
    <3>3. answer[r] = "open" /\ pc'[r] = "sent"
          BY <1>0, <2>0, <2>2 DEF Owing
    <3>4. QED
          BY <2>0, <2>2, <3>2, <3>3 DEF Owing, Http1
  <2>3. QED
        BY <2>1, <2>2
<1>11. ASSUME NEW r \in Requests, Respond(r) PROVE Owing(q)'
  <2>0. /\ pc[r] = "sent" /\ pc' = [pc EXCEPT ![r] = "body"]
        /\ UNCHANGED <<pool, conn, upload, via>>
        /\ \/ UNCHANGED <<answer, owes>>
           \/ answer' = [answer EXCEPT ![r] = "ended"] /\ owes' = Answered(r)
        BY <1>11 DEF Respond, Goto, ups
  <2>1. CASE q # r
        BY <1>0, <1>1, <2>0, <2>1
  <2>2. CASE q = r
    <3>1. conn[r] \in Conns /\ answer[r] = "open" /\ pc'[r] = "body"
          BY <1>0, <2>0, <2>2 DEF HolderInv, Linked, Owing
    <3>2. /\ owes'[conn[r]] \subseteq owes[conn[r]]
          /\ answer'[r] = "ended" => "response" \notin owes'[conn[r]]
          BY <1>0, <2>0, <3>1 DEF Answered
    <3>3. QED
          BY <1>0, <2>0, <2>2, <3>1, <3>2 DEF Owing, Http1
  <2>3. QED
        BY <2>1, <2>2
<1>12. ASSUME NEW r \in Requests, BodySteps(r) PROVE Owing(q)'
  <2>0. /\ pc[r] = "body" /\ UNCHANGED <<pool, via>>
        /\ conn' = conn \/ conn' = [conn EXCEPT ![r] = Nobody]
        /\ \E state \in {"open", "ended", "broken"} :
              answer' = [answer EXCEPT ![r] = state]
        /\ \/ pc' = pc /\ upload' = upload
           \/ /\ pc' = [pc EXCEPT ![r] = "idle"] /\ conn'[r] = Nobody
              /\ upload' = [upload EXCEPT ![r] = Orphaned(r)]
              /\ answer' = [answer EXCEPT ![r] = "open"]
        BY <1>12, BodyStep DEF BodySteps, Returns, Appended
  <2>1. CASE q # r
    <3>1. Same
          BY <1>0, <2>0, <2>1
    <3>2. QED
          BY <1>1, <3>1
  <2>2. CASE q = r
    <3>1. pc'[q] = "body" \/ answer'[q] = "open"
          BY <1>0, <2>0, <2>2
    <3>2. CASE conn'[q] = Nobody \/ ~ Http1(q)
          BY <2>0, <3>1, <3>2 DEF Owing, Http1
    <3>3. CASE conn'[q] # Nobody /\ Http1(q)
      <4>1. conn'[q] = conn[q] /\ conn[q] # Nobody
            BY <1>0, <2>0, <3>3
      <4>2. ReadError(r)
        <5>1. ReadEnd(r) => conn'[q] = Nobody
          <6>1. ReadEnd(r) => \E state : FinishHttp1(r, state)
                BY <2>2, <3>3, <4>1 DEF ReadEnd, Settle
          <6>2. QED
                BY <1>0, <2>2, <6>1 DEF FinishHttp1
        <5>2. DropBody(r) => conn'[q] = Nobody
          <6>1. DropBody(r) => \E state : FinishHttp1(r, state)
                BY <2>2, <3>3, <4>1 DEF DropBody, Settle
          <6>2. QED
                BY <1>0, <2>2, <6>1 DEF FinishHttp1
        <5>3. IdleTimeout(r) => conn'[q] = Nobody
              BY <1>0, <2>2, <3>3 DEF IdleTimeout
        <5>4. QED
              BY <1>12, <3>3, <5>1, <5>2, <5>3 DEF BodySteps
      <4>3. /\ UNCHANGED <<pc, upload, via, owes>> /\ answer'[q] = "broken"
            BY <1>0, <2>2, <4>2 DEF ReadError, ups, wires
      <4>4. QED
            BY <1>0, <2>0, <2>2, <4>1, <4>3 DEF Owing, Http1
    <3>4. QED
          BY <3>2, <3>3
  <2>3. QED
        BY <2>1, <2>2
<1>13. ASSUME NEW r \in Requests, UploadEnds(r) PROVE Owing(q)'
  <2>0. /\ UNCHANGED <<pc, pool, conn, answer>> /\ via' = [via EXCEPT ![r] = Nobody]
        /\ upload' = [upload EXCEPT ![r] = IF pc[r] = "idle" THEN "gone" ELSE "done"]
        /\ upload[r] = "held" /\ pc[r] \in {"sent", "body", "idle"}
        /\ owes' = [c \in Conns |-> IF c = via[r] THEN owes[c] \ {"request"} ELSE owes[c]]
        BY <1>13 DEF UploadEnds, Handed, reqs
  <2>1. CASE q # r
    <3>1. Same
          BY <1>0, <2>0, <2>1
    <3>2. QED
          BY <1>1, <3>1
  <2>2. CASE q = r
    <3>1. CASE pc[q] = "idle"
      <4>1. conn[q] = Nobody
            BY <3>1 DEF HolderInv, Linked
      <4>2. answer[q] = "open"
            BY <1>0, <3>1 DEF Owing
      <4>3. QED
            BY <1>2, <2>0, <4>1, <4>2
    <3>2. CASE pc[q] # "idle"
      <4>1. upload'[q] = "done"
            BY <1>0, <2>0, <2>2, <3>2
      <4>2. ASSUME Http1(q), conn[q] # Nobody
            PROVE  /\ "request" \notin owes'[conn[q]]
                   /\ owes'[conn[q]] \subseteq owes[conn[q]]
        <5>1. conn[q] = via[q] /\ conn[q] \in Conns
              BY <1>0, <2>0, <2>2, <3>2, <4>2 DEF Owing
        <5>2. QED
              BY <1>0, <2>0, <2>2, <5>1
      <4>3. QED
            BY <1>0, <2>0, <2>2, <3>2, <4>1, <4>2 DEF Owing, Http1
    <3>3. QED
          BY <3>1, <3>2
  <2>3. QED
        BY <2>1, <2>2
<1>14. ASSUME NEW r \in Requests, UploadCut(r) PROVE Owing(q)'
  <2>0. /\ UNCHANGED <<pc, pool, conn, answer>> /\ via' = [via EXCEPT ![r] = Nobody]
        /\ upload' = [upload EXCEPT ![r] = "gone"]
        BY <1>14 DEF UploadCut, reqs
  <2>1. \/ upload'[q] = upload[q] /\ via'[q] = via[q]
        \/ upload'[q] = "gone"
        BY <1>0, <2>0
  <2>2. QED
        BY <1>0, <2>0, <2>1, OwingKept
<1>15. ASSUME NEW c \in Conns, DriverEnds(c) PROVE Owing(q)'
  <2>0. /\ UNCHANGED <<pc, pool, conn, answer>>
        /\ \/ upload'[q] = upload[q] /\ via'[q] = via[q]
           \/ upload'[q] = "gone"
        BY <1>15 DEF DriverEnds, reqs
  <2>1. QED
        BY <1>0, <2>0, OwingKept
<1>16. ASSUME UNCHANGED <<pc, pool, conn, answer, upload, via>> PROVE Owing(q)'
       BY <1>1, <1>16
<1>17. QED
       BY <1>3, <1>4, <1>5, <1>7, <1>8, <1>9, <1>10, <1>11, <1>12, <1>13, <1>14,
          <1>15, <1>16, NextCases
       DEF ReapIdle, ReapTake, Aside, reqs, ups

LEMMA OweStep ==
  ASSUME TypeOK, TypeOK', HandInv, HandInv', HolderInv, HolderInv', AloneInv, OweInv,
         [Next]_vars
  PROVE  OweInv'
<1>0. /\ owes \in [Conns -> SUBSET {"request", "response"}]
      /\ conn \in [Requests -> Conns \cup {Nobody}]
      BY DEF TypeOK
<1>1. ASSUME NEW c \in Conns, driver'[c] = "none" PROVE owes'[c] = {}
  <2>1. CASE DriverEnds(c)
        BY <1>0, <2>1 DEF DriverEnds
  <2>2. CASE driver[c] = "none"
    <3>1. owes[c] = {}
          BY <2>2 DEF OweInv
    <3>2. ASSUME NEW r \in Requests, Send(r), Http1(r), conn[r] \in Conns,
                 \A d \in Conns : d # conn[r] => owes'[d] = owes[d]
          PROVE  owes'[c] = owes[c]
          BY <2>2, <3>2 DEF Send
    <3>3. QED
          BY <3>1, <3>2, OwesStep
  <2>3. QED
        BY <1>1, <2>1, <2>2, DriverStep
<1>2. ASSUME NEW p \in Pools, NEW c \in Conns, Listed(p, c)' PROVE owes'[c] = {}
  <2>1. CASE Listed(p, c)
    <3>1. owes[c] = {}
          BY <2>1 DEF OweInv
    <3>2. ASSUME NEW r \in Requests, Send(r), Http1(r), conn[r] \in Conns,
                 \A d \in Conns : d # conn[r] => owes'[d] = owes[d]
          PROVE  owes'[c] = owes[c]
      <4>1. conn[r] # c
            BY <2>1, <3>2, PoolAssumption DEF AloneInv
      <4>2. QED
            BY <3>2, <4>1
    <3>3. QED
          BY <3>1, <3>2, OwesStep
  <2>2. ASSUME NEW r \in Requests, Returns(r), p = pool[r], c = conn[r]
        PROVE  owes'[c] = {}
    <3>1. "request" \notin owes[c]
          BY <2>2 DEF Returns, OweInv, Owing
    <3>2. answer[r] = "ended" => "response" \notin owes[c]
          BY <2>2 DEF Returns, OweInv, Owing
    <3>3. owes' = owes \/ owes' = Answered(r)
          BY <2>2 DEF Returns
    <3>4. owes' = owes => answer[r] = "ended" \/ owes = Answered(r)
          BY <2>2 DEF Returns
    <3>5. "response" \notin owes'[c]
          BY <1>0, <2>2, <3>2, <3>3, <3>4 DEF Answered
    <3>6. owes'[c] \subseteq owes[c]
          BY <1>0, <2>2, <3>3 DEF Answered
    <3>7. QED
          BY <1>0, <3>1, <3>5, <3>6
  <2>3. QED
        BY <1>2, <2>1, <2>2, ListOrigin
<1>3. QED
      BY <1>1, <1>2, OwingStep DEF OweInv

ReuseInv == HolderInv /\ AloneInv /\ OweInv

LEMMA ReuseInit == Init => ReuseInv
<1> SUFFICES ASSUME Init PROVE ReuseInv
    OBVIOUS
<1>1. /\ \A r \in Requests : conn[r] = Nobody /\ pc[r] = "idle" /\ answer[r] = "open"
      /\ \A p \in Pools : idle[p] = << >> /\ slot[p] = Nobody
      /\ \A c \in Conns : owes[c] = {}
      BY DEF Init
<1>2. \A p \in Pools, c \in Conns : ~ Listed(p, c)
      BY <1>1 DEF Listed
<1>3. HolderInv
      BY <1>1, <1>2 DEF HolderInv, Linked
<1>4. AloneInv
      BY <1>1, <1>2 DEF AloneInv, Distinct
<1>5. OweInv
      BY <1>1, <1>2 DEF OweInv, Owing
<1>6. QED
      BY <1>3, <1>4, <1>5 DEF ReuseInv

\* "Body and admission leases remain alive in both directions, including early
\* responses": an HTTP/1 connection is not offered to an exchange, or used for
\* one, before both halves of its last exchange are over.
THEOREM ReuseIsClean == Spec => []CleanReuse
<1> DEFINE All == TypeOK /\ HandInv /\ ReuseInv
<1>1. All /\ [Next]_vars => All'
      BY TypeStep, HolderStep, AloneStep, OweStep DEF ReuseInv
<1>2. Init => All
      BY TypeInit, ReuseInit
<1>3. All => CleanReuse
  <2> SUFFICES ASSUME All, NEW c \in Conns,
                      \/ \E p \in Pools : Listed(p, c)
                      \/ \E r \in Requests : /\ conn[r] = c /\ Http1(r)
                                             /\ pc[r] \in {"ready", "readywait"}
               PROVE  owes[c] = {}
      BY DEF CleanReuse
  <2>1. c # Nobody
        BY PoolAssumption
  <2>2. QED
        BY <2>1 DEF ReuseInv, OweInv, Owing
<1>4. QED
      BY <1>1, <1>2, <1>3, PTL DEF Spec

-----------------------------------------------------------------------------
(* The gate and the maintenance task *)

\* Only HTTP/1 requests wait for a connection to become idle.
PlaceInv ==
  \A r \in Requests : pc[r] \in {"register", "examine", "wait"} => Http1(r)

\* One request at a time opens an HTTP/2 connection of a pool, and the slot
\* stays empty from its second look on.
GateInv ==
  \A p \in Pools : Protocol[p] = "http2" =>
    /\ \A r, q \in At(p, Gated) : r = q
    /\ At(p, Gated \ {"recheck"}) # {} => slot[p] = Nobody

\* The exchanges of the pool whose slot is about to be emptied have all begun
\* since it was looked at.
ReapInv == reap.pc = "take" /\ ~ shutdown => Leases(reap.pool) \subseteq raced

LEMMA PlaceStep ==
  ASSUME TypeOK, PlaceInv, [Next]_vars
  PROVE  PlaceInv'
<1>0. pc \in [Requests -> Places] /\ pool \in [Requests -> Pools]
      BY DEF TypeOK
<1> USE DEF PlaceInv, Http1
<1>1. ASSUME NEW r \in Requests, NEW p \in Pools, NEW body \in Uploads, Begin(r, p, body)
      PROVE  PlaceInv'
      BY <1>0, <1>1, BeginStep
<1>2. ASSUME NEW r \in Requests, Fails(r) PROVE PlaceInv'
  <2>1. pool' = pool /\ pc' = [pc EXCEPT ![r] = "idle"]
        BY <1>2, FailStep, FinishStep
  <2>2. QED
        BY <1>0, <2>1
<1>3. ASSUME NEW r \in Requests, Moves(r) PROVE PlaceInv'
      BY <1>0, <1>3, MoveStep DEF Hop
<1>4. ASSUME NEW r \in Requests, AcquireHttp1(r) \/ Examine(r) PROVE PlaceInv'
  <2>1. /\ pool' = pool /\ \E place : pc' = [pc EXCEPT ![r] = place]
        /\ pc[r] \in {"acquire", "examine"} /\ (pc[r] = "acquire" => Http1(r))
        BY <1>4, TakeStep DEF TakeIdle, TakeNone, Goto
  <2>2. QED
        BY <1>0, <2>1
<1>5. ASSUME NEW r \in Requests, NEW place \in {"ready", "gate", "local", "sent", "body", "idle"},
             pool' = pool, pc' = [pc EXCEPT ![r] = place]
      PROVE  PlaceInv'
      BY <1>0, <1>5
<1>6. ASSUME UNCHANGED <<pc, pool>> PROVE PlaceInv'
      BY <1>6
<1>7. ASSUME NEW r \in Requests, BodySteps(r) PROVE PlaceInv'
      BY <1>5, <1>6, <1>7, BodyStep DEF BodySteps
<1>8. ASSUME NEW r \in Requests, AcquireHttp2(r) \/ Recheck(r) PROVE PlaceInv'
      BY <1>5, <1>8 DEF AcquireHttp2, Recheck, Current, Goto
<1>9. ASSUME NEW r \in Requests, Send(r) \/ Respond(r) PROVE PlaceInv'
      BY <1>5, <1>9 DEF Send, Respond, Goto
<1>10. ASSUME NEW r \in Requests, NEW c \in Conns, Connected(r, c) PROVE PlaceInv'
       BY <1>5, <1>10 DEF Connected, Goto
<1>11. QED
       BY <1>1, <1>2, <1>3, <1>4, <1>6, <1>7, <1>8, <1>9, <1>10, NextCases
       DEF UploadEnds, UploadCut, DriverEnds, ReapIdle, ReapTake, Aside, reqs

\* How a request gets to the gate of its pool, and past its second look.
Enters(r) ==
  /\ GateFree(pool[r]) /\ pool' = pool /\ slot' = slot
  /\ pc' = [pc EXCEPT ![r] = "recheck"]

StaysGated(q) ==
  pc'[q] \in Gated /\ Protocol[pool'[q]] = "http2" =>
    /\ pc[q] \in Gated /\ pool'[q] = pool[q]
    /\ pc'[q] # "recheck" => pc[q] # "recheck" \/ slot'[pool[q]] = Nobody

LEMMA GateMoves ==
  ASSUME TypeOK, PlaceInv, [Next]_vars
  PROVE  (\A q \in Requests : StaysGated(q)) \/ \E r \in Requests : Enters(r)
<1> DEFINE Stay == \A q \in Requests : StaysGated(q)
<1>0. pc \in [Requests -> Places] /\ pool \in [Requests -> Pools]
      /\ slot \in [Pools -> Conns \cup {Nobody}]
      BY DEF TypeOK
<1> USE DEF StaysGated, Gated, Reserved
<1>5. ASSUME NEW r \in Requests, NEW place \in {"ready", "gate", "sent", "body", "idle", "wait"},
             pool' = pool, pc' = [pc EXCEPT ![r] = place]
      PROVE  Stay
      BY <1>0, <1>5
<1>6. ASSUME UNCHANGED <<pc, pool>> PROVE Stay
      BY <1>6
<1>1. ASSUME NEW r \in Requests, NEW p \in Pools, NEW body \in Uploads, Begin(r, p, body)
      PROVE  Stay
      BY <1>0, <1>1, BeginStep
<1>2. ASSUME NEW r \in Requests, Fails(r) PROVE Stay
  <2>1. pool' = pool /\ pc' = [pc EXCEPT ![r] = "idle"]
        BY <1>2, FailStep, FinishStep
  <2>2. QED
        BY <1>5, <2>1
<1>3. ASSUME NEW r \in Requests, Moves(r) PROVE Stay \/ Enters(r)
  <2>0. UNCHANGED <<pool, slot>>
        BY <1>3, MoveStep
  <2>1. CASE pc[r] \in {"gate", "gatewait"}
    <3>1. CASE pc' = [pc EXCEPT ![r] = "recheck"] /\ GateFree(pool[r])
          BY <2>0, <3>1 DEF Enters
    <3>2. CASE pc' = [pc EXCEPT ![r] = "gatewait"]
          BY <1>0, <2>0, <3>2
    <3>3. QED
          BY <1>3, <2>1, <3>1, <3>2, MoveStep DEF Hop
  <2>2. CASE pc[r] = "wait"
    <3>1. Protocol[pool[r]] # "http2"
          BY <2>2 DEF PlaceInv, Http1
    <3>2. \E place : pc' = [pc EXCEPT ![r] = place]
          BY <1>3, MoveStep DEF Hop
    <3>3. QED
          BY <1>0, <2>0, <3>1, <3>2
  <2>3. CASE /\ pc[r] \in Gated \ {"recheck"}
             /\ \E place : pc' = [pc EXCEPT ![r] = place]
        BY <1>0, <2>0, <2>3
  <2>4. CASE \E place \in {"examine", "readywait", "tunnel", "register"} :
               pc' = [pc EXCEPT ![r] = place]
        BY <1>0, <2>0, <2>4
  <2>5. QED
        BY <1>3, <2>1, <2>2, <2>3, <2>4, MoveStep DEF Hop
<1>4. ASSUME NEW r \in Requests, AcquireHttp1(r) \/ Examine(r) PROVE Stay
  <2>1. pool' = pool /\ Http1(r) /\ \E place : pc' = [pc EXCEPT ![r] = place]
        BY <1>4, TakeStep DEF TakeIdle, TakeNone, Goto, PlaceInv
  <2>2. QED
        BY <1>0, <2>1 DEF Http1
<1>7. ASSUME NEW r \in Requests, BodySteps(r) PROVE Stay
      BY <1>5, <1>6, <1>7, BodyStep DEF BodySteps
<1>8. ASSUME NEW r \in Requests, AcquireHttp2(r) PROVE Stay
      BY <1>5, <1>8 DEF AcquireHttp2, Current, Goto
<1>9. ASSUME NEW r \in Requests, Recheck(r) PROVE Stay
      BY <1>0, <1>9 DEF Recheck, Current, Goto
<1>10. ASSUME NEW r \in Requests, Send(r) \/ Respond(r) PROVE Stay
       BY <1>5, <1>10 DEF Send, Respond, Goto
<1>11. ASSUME NEW r \in Requests, NEW c \in Conns, Connected(r, c) PROVE Stay
       BY <1>5, <1>11 DEF Connected, Goto
<1>12. Stay \/ \E r \in Requests : Enters(r)
       BY <1>1, <1>2, <1>3, <1>4, <1>6, <1>7, <1>8, <1>9, <1>10, <1>11, NextCases
       DEF UploadEnds, UploadCut, DriverEnds, ReapIdle, ReapTake, Aside, reqs
<1>13. QED
       BY <1>12

LEMMA GateStep ==
  ASSUME TypeOK, PlaceInv, GateInv, [Next]_vars
  PROVE  GateInv'
<1>0. /\ pc \in [Requests -> Places] /\ pool \in [Requests -> Pools]
      /\ slot \in [Pools -> Conns \cup {Nobody}]
      BY DEF TypeOK
<1>1. ASSUME NEW p \in Pools, Protocol[p] = "http2", \A q \in Requests : StaysGated(q)
      PROVE  /\ \A r, q \in At(p, Gated)' : r = q
             /\ At(p, Gated \ {"recheck"})' # {} => slot'[p] = Nobody
  <2>1. At(p, Gated)' \subseteq At(p, Gated)
        BY <1>1 DEF At, Of, StaysGated
  <2>2. ASSUME NEW q \in At(p, Gated \ {"recheck"})' PROVE slot'[p] = Nobody
    <3>1. /\ q \in Requests /\ pool'[q] = p /\ pc'[q] \in Gated /\ pc'[q] # "recheck"
          BY <2>2 DEF At, Of
    <3>2. /\ pc[q] \in Gated /\ pool[q] = p
          /\ pc[q] # "recheck" \/ slot'[p] = Nobody
          BY <1>1, <3>1 DEF StaysGated
    <3>3. CASE pc[q] # "recheck"
      <4>1. slot[p] = Nobody /\ q \in At(p, Gated)
            BY <1>1, <3>1, <3>2, <3>3 DEF GateInv, At, Of
      <4>2. ASSUME NEW r \in Requests, NEW c \in Conns, Connected(r, c), p = pool[r]
            PROVE  FALSE
        <5>1. r \in At(p, Gated) /\ pc'[r] = "ready"
              BY <1>0, <4>2 DEF Connected, Goto, At, Of, Gated, Reserved
        <5>2. r = q
              BY <1>1, <4>1, <5>1 DEF GateInv
        <5>3. QED
              BY <3>1, <5>1, <5>2 DEF Gated, Reserved
      <4>3. QED
            BY <4>1, <4>2, SlotStep
    <3>4. QED
          BY <3>2, <3>3
  <2>3. QED
        BY <1>1, <2>1, <2>2 DEF GateInv
<1>2. ASSUME NEW p \in Pools, Protocol[p] = "http2", NEW r \in Requests, Enters(r)
      PROVE  /\ \A s, q \in At(p, Gated)' : s = q
             /\ At(p, Gated \ {"recheck"})' # {} => slot'[p] = Nobody
  <2>1. /\ At(p, Gated)' \subseteq At(p, Gated) \cup {r}
        /\ pool[r] # p => At(p, Gated)' \subseteq At(p, Gated)
        /\ At(p, Gated \ {"recheck"})' \subseteq At(p, Gated \ {"recheck"})
        /\ slot' = slot
        BY <1>0, <1>2 DEF Enters, At, Of
  <2>2. pool[r] = p => At(p, Gated) = {}
        BY <1>2 DEF Enters, GateFree
  <2>3. QED
        BY <1>2, <2>1, <2>2 DEF GateInv
<1>3. QED
      BY <1>1, <1>2, GateMoves DEF GateInv

\* A lease ends, or one begins.
LEMMA LeaseStep ==
  ASSUME TypeOK, HandInv, [Next]_vars
  PROVE  \/ \A p \in Pools : Leases(p)' \subseteq Leases(p)
         \/ \E r \in Requests, p \in Pools, body \in Uploads : Begin(r, p, body)
<1> DEFINE Less == /\ pool' = pool
                   /\ \A q \in Requests : /\ pc'[q] # "idle" => pc[q] # "idle"
                                          /\ upload'[q] = "held" => upload[q] = "held"
<1>0. /\ pc \in [Requests -> Places] /\ pool \in [Requests -> Pools]
      /\ upload \in [Requests -> {"held", "done", "gone"}]
      BY DEF TypeOK
<1>1. ASSUME NEW r \in Requests, Fails(r) PROVE Less
  <2>1. /\ pool' = pool /\ pc' = [pc EXCEPT ![r] = "idle"]
        /\ upload' = [upload EXCEPT ![r] = Orphaned(r)]
        BY <1>1, FailStep, FinishStep
  <2>2. QED
        BY <1>0, <2>1 DEF Orphaned
<1>2. ASSUME NEW r \in Requests, Moves(r) PROVE Less
      BY <1>0, <1>2, MoveStep DEF Hop
<1>3. ASSUME NEW r \in Requests, AcquireHttp1(r) \/ Examine(r) PROVE Less
  <2>1. /\ UNCHANGED <<pool, upload>> /\ \E place : pc' = [pc EXCEPT ![r] = place]
        /\ pc[r] \in {"acquire", "examine"}
        BY <1>3, TakeStep DEF TakeIdle, TakeNone, Goto
  <2>2. QED
        BY <1>0, <2>1
<1>4. ASSUME NEW r \in Requests, AcquireHttp2(r) \/ Recheck(r) PROVE Less
      BY <1>0, <1>4 DEF AcquireHttp2, Recheck, Current, Goto, ups
<1>5. ASSUME NEW r \in Requests, NEW c \in Conns, Connected(r, c) PROVE Less
      BY <1>0, <1>5 DEF Connected, Goto, ups
<1>6. ASSUME NEW r \in Requests, Send(r) \/ Respond(r) PROVE Less
      BY <1>0, <1>6 DEF Send, Respond, Goto, ups
<1>7. ASSUME NEW r \in Requests, BodySteps(r) PROVE Less
  <2>1. /\ pool' = pool /\ pc[r] = "body"
        /\ \/ pc' = pc /\ upload' = upload
           \/ /\ pc' = [pc EXCEPT ![r] = "idle"]
              /\ upload' = [upload EXCEPT ![r] = Orphaned(r)]
        BY <1>7, BodyStep DEF BodySteps
  <2>2. QED
        BY <1>0, <2>1 DEF Orphaned
<1>8. ASSUME NEW r \in Requests, UploadEnds(r) \/ UploadCut(r) PROVE Less
      BY <1>0, <1>8 DEF UploadEnds, UploadCut, reqs
<1>9. ASSUME NEW c \in Conns, DriverEnds(c) PROVE Less
      BY <1>0, <1>9 DEF DriverEnds, reqs
<1>10. ASSUME UNCHANGED <<pc, pool, upload>> PROVE Less
       BY <1>10
<1>11. Less \/ \E r \in Requests, p \in Pools, body \in Uploads : Begin(r, p, body)
       BY <1>1, <1>2, <1>3, <1>4, <1>5, <1>6, <1>7, <1>8, <1>9, <1>10, NextCases
       DEF ReapIdle, ReapTake, Aside, reqs, ups
<1>12. Less => \A p \in Pools : Leases(p)' \subseteq Leases(p)
       BY DEF Leases, Of
<1>13. QED
       BY <1>11, <1>12

LEMMA LifeKept ==
  ASSUME TypeOK, [Next]_vars
  PROVE  \/ UNCHANGED life
         \/ \E r \in Requests, p \in Pools, body \in Uploads : Begin(r, p, body)
         \/ ReapStart \/ Reap \/ Shutdown
<1>5. ASSUME NEW r \in Requests, Fails(r) PROVE UNCHANGED life
      BY <1>5, FailStep, FinishStep DEF life
<1>6. ASSUME NEW r \in Requests, Moves(r) PROVE UNCHANGED life
      BY <1>6, MoveStep DEF life
<1>7. ASSUME NEW r \in Requests, AcquireHttp1(r) \/ Examine(r) PROVE UNCHANGED life
      BY <1>7, TakeStep DEF life
<1>8. ASSUME NEW r \in Requests,
             ReadEnd(r) \/ ReadError(r) \/ IdleTimeout(r) \/ DropBody(r)
      PROVE  UNCHANGED life
      BY <1>8, BodyStep DEF life
<1>9. QED
      BY <1>5, <1>6, <1>7, <1>8
      DEF Next, Acquire, AcquireHttp2, Recheck, Connected, Exchange, Send, Respond,
          UploadEnds, UploadCut, End, Fails, Moves, DriverEnds, WindsDown, vars

LEMMA ReapStep ==
  ASSUME TypeOK, TypeOK', HandInv, ReapInv, [Next]_vars
  PROVE  ReapInv'
<1>0. /\ reap \in [pc : {"sleep", "idle", "look", "take", "ended"},
                   todo : SUBSET Pools, pool : Pools, round : {"tick", "last"}]
      /\ shutdown \in BOOLEAN /\ pool \in [Requests -> Pools]
      BY DEF TypeOK
<1>1. ASSUME NEW r \in Requests, NEW p \in Pools, NEW body \in Uploads, Begin(r, p, body)
      PROVE  ReapInv'
  <2>1. /\ pool' = [pool EXCEPT ![r] = p] /\ pc' = [pc EXCEPT ![r] = "acquire"]
        /\ upload' = [upload EXCEPT ![r] = body]
        /\ raced' = IF reap.pc = "take" THEN raced \cup {r} ELSE raced
        /\ UNCHANGED <<shutdown, reap>>
        BY <1>1 DEF Begin, Goto
  <2>2. \A q \in Pools : Leases(q)' \subseteq Leases(q) \cup {r}
        BY <1>0, <2>1 DEF Leases, Of, TypeOK
  <2>3. QED
        BY <1>0, <2>1, <2>2 DEF ReapInv
<1>2. CASE UNCHANGED life
  <2>1. reap' = reap /\ shutdown' = shutdown /\ raced' = raced
        BY <1>2 DEF life
  <2>2. ASSUME \A p \in Pools : Leases(p)' \subseteq Leases(p) PROVE ReapInv'
        BY <1>0, <2>1, <2>2 DEF ReapInv
  <2>3. QED
        BY <1>1, <2>2, LeaseStep
<1>3. CASE ReapStart
      BY <1>0, <1>3 DEF ReapStart, ReapBegin, ReapInv
<1>4. ASSUME NEW p \in Pools, NEW n \in 0..Len(idle[p]), ReapIdle(p, n)
      PROVE  ReapInv'
  <2>1. reap' = [reap EXCEPT !.pc = "look", !.todo = @ \ {p}, !.pool = p]
        BY <1>4 DEF ReapIdle
  <2>2. QED
        BY <1>0, <2>1 DEF ReapInv
<1>5. CASE ReapLook
  <2>1. UNCHANGED <<reqs, ups, shutdown>>
        BY <1>5 DEF ReapLook
  <2>2. CASE (shutdown \/ Leases(reap.pool) = {}) /\ reap' = [reap EXCEPT !.pc = "take"]
    <3>1. reap'.pool = reap.pool
          BY <1>0, <2>2
    <3>2. \A p \in Pools : Leases(p) = {} => Leases(p)' = {}
          BY <2>1 DEF Leases, Of, reqs, ups
    <3>3. QED
          BY <1>0, <2>1, <2>2, <3>1, <3>2 DEF ReapInv
  <2>3. CASE reap' = AfterPool
        BY <1>0, <2>3 DEF AfterPool, ReapInv
  <2>4. QED
        BY <1>5, <2>2, <2>3 DEF ReapLook
<1>6. CASE ReapTake
  <2>1. reap' = AfterPool
        BY <1>6 DEF ReapTake
  <2>2. QED
        BY <1>0, <2>1 DEF AfterPool, ReapInv
<1>7. CASE Shutdown
      BY <1>7 DEF Shutdown, ReapInv
<1>8. QED
      BY <1>1, <1>2, <1>3, <1>4, <1>5, <1>6, <1>7, LifeKept DEF Reap

\* A driver is cancelled by the drop of its connection, from where it was.
LEMMA CancelStep ==
  ASSUME TypeOK, HolderInv, AloneInv, GateInv, ReapInv, [Next]_vars,
         NEW r \in Requests, conn[r] # Nobody, conn'[r] = conn[r],
         driver[conn[r]] = "running", driver'[conn[r]] = "cancelled"
  PROVE  shutdown \/ r \in raced
<1> DEFINE c == conn[r]
           Goal == shutdown \/ r \in raced
<1>0. /\ pc \in [Requests -> Places] /\ pool \in [Requests -> Pools]
      /\ conn \in [Requests -> Conns \cup {Nobody}]
      /\ slot \in [Pools -> Conns \cup {Nobody}]
      /\ driver \in [Conns -> {"none", "running", "cancelled"}]
      /\ c \in Conns /\ Nobody \notin Conns
  <2>1. /\ pc \in [Requests -> Places] /\ pool \in [Requests -> Pools]
        /\ conn \in [Requests -> Conns \cup {Nobody}]
        /\ slot \in [Pools -> Conns \cup {Nobody}]
        /\ driver \in [Conns -> {"none", "running", "cancelled"}]
        BY DEF TypeOK
  <2>2. QED
        BY <2>1, PoolAssumption
<1>D. ASSUME NEW S, driver' = Dropped(S) PROVE c \in S
      BY <1>0, <1>D DEF Dropped
<1>S. driver' # driver
      BY <1>0
<1>L. \A p \in Pools : ~ Listed(p, c)
      BY DEF AloneInv
\* Another request drops its own connection only.
<1>1. ASSUME NEW q \in Requests, Http1(q), conn'[q] = Nobody, driver' = Dropped({conn[q]})
      PROVE  FALSE
  <2>1. conn[q] = c
        BY <1>1, <1>D
  <2>2. q = r
        BY <1>0, <1>1, <2>1 DEF AloneInv
  <2>3. QED
        BY <1>0, <1>1, <2>2
<1>2. ASSUME NEW q \in Requests, Fails(q) PROVE FALSE
  <2>1. Finish(q)
        BY <1>2, FailStep
  <2>2. /\ conn' = [conn EXCEPT ![q] = Nobody]
        /\ driver' = IF Http1(q) THEN Dropped({conn[q]}) ELSE driver
        BY <2>1, FinishStep
  <2>3. conn'[q] = Nobody
        BY <1>0, <2>2
  <2>4. QED
        BY <1>1, <1>S, <2>2, <2>3
<1>3. ASSUME NEW q \in Requests, BodySteps(q) PROVE FALSE
  <2>1. \/ UNCHANGED driver
        \/ /\ conn' = [conn EXCEPT ![q] = Nobody]
           /\ driver' = IF Http1(q) THEN Dropped({conn[q]}) ELSE driver
        BY <1>3, BodyStep DEF BodySteps, Returns, Appended
  <2>2. conn' = [conn EXCEPT ![q] = Nobody] => conn'[q] = Nobody
        BY <1>0
  <2>3. QED
        BY <1>1, <1>S, <2>1, <2>2
<1>4. ASSUME NEW q \in Requests, AcquireHttp1(q) \/ Examine(q) PROVE FALSE
  <2>1. \E i : driver' = Dropped(Above(pool[q], i))
        BY <1>4, TakeStep DEF TakeIdle, TakeNone
  <2>2. \A i : Above(pool[q], i) \subseteq {idle[pool[q]][j] : j \in DOMAIN idle[pool[q]]}
        BY DEF Above
  <2>3. Listed(pool[q], c)
        BY <1>D, <2>1, <2>2 DEF Listed
  <2>4. QED
        BY <1>0, <1>L, <2>3
<1>5. ASSUME NEW q \in Requests, NEW d \in Conns, Connected(q, d) PROVE FALSE
  <2>1. /\ driver' = [Dropped(IF Http1(q) THEN {} ELSE {slot[pool[q]]}) EXCEPT ![d] = "running"]
        /\ pc[q] = "connect"
        BY <1>5 DEF Connected
  <2>2. Dropped(IF Http1(q) THEN {} ELSE {slot[pool[q]]})[c] = "cancelled"
        BY <1>0, <2>1, DroppedFacts
  <2>3. ~ Http1(q) /\ slot[pool[q]] = c
        BY <1>0, <2>2 DEF Dropped
  <2>4. slot[pool[q]] = Nobody
    <3>1. q \in At(pool[q], Gated \ {"recheck"}) /\ Protocol[pool[q]] = "http2"
          BY <1>0, <2>1, <2>3, PoolAssumption DEF At, Of, Gated, Reserved, Http1
    <3>2. QED
          BY <1>0, <3>1 DEF GateInv
  <2>5. QED
        BY <1>0, <2>3, <2>4
<1>6. ASSUME NEW p \in Pools, NEW n \in 0..Len(idle[p]), ReapIdle(p, n) PROVE FALSE
  <2>1. \E S : S \subseteq {d \in Conns : Listed(p, d)} /\ driver' = Dropped(S)
        BY <1>6 DEF ReapIdle
  <2>2. QED
        BY <1>D, <1>L, <2>1
<1>7. ASSUME ReapTake PROVE Goal
  <2>1. reap.pc = "take" /\ driver' = Dropped({slot[reap.pool]}) /\ reap.pool \in Pools
        BY <1>7 DEF ReapTake, TypeOK
  <2>2. slot[reap.pool] = c
        BY <1>D, <2>1
  <2>3. pool[r] = reap.pool
        BY <1>0, <2>1, <2>2 DEF HolderInv
  <2>4. pc[r] # "idle"
        BY <1>0 DEF HolderInv, Linked
  <2>5. r \in Leases(reap.pool)
        BY <2>3, <2>4 DEF Leases, Of
  <2>6. QED
        BY <2>1, <2>5 DEF ReapInv
<1>8. ASSUME NEW d \in Conns, DriverEnds(d) PROVE FALSE
      BY <1>0, <1>8 DEF DriverEnds
<1>9. ASSUME NEW q \in Requests, Moves(q) PROVE FALSE
      BY <1>9, <1>S, MoveStep
<1>10. QED
       BY <1>2, <1>3, <1>4, <1>5, <1>6, <1>7, <1>8, <1>9, <1>S, NextCases
       DEF Begin, AcquireHttp2, Recheck, Send, Respond, UploadEnds, UploadCut,
           Aside, wires

LEMMA GateInit == Init => PlaceInv /\ GateInv /\ ReapInv
<1> SUFFICES ASSUME Init PROVE PlaceInv /\ GateInv /\ ReapInv
    OBVIOUS
<1>1. /\ \A r \in Requests : pc[r] = "idle"
      /\ \A p \in Pools : slot[p] = Nobody
      /\ reap.pc = "sleep"
      BY DEF Init
<1>2. QED
      BY <1>1 DEF PlaceInv, GateInv, ReapInv, At, Of, Gated, Reserved

\* Neither the maintenance task nor another request cancels the connection of
\* an exchange under way, except for one that begins between the two looks of
\* reap_idle: a connection that is opened replaces none, because of the gate.
THEOREM NothingCutShort == Spec => NotCutShort
<1> DEFINE All == /\ TypeOK /\ HandInv /\ ReuseInv
                  /\ PlaceInv /\ GateInv /\ ReapInv
<1>1. All /\ [Next]_vars => All'
      BY TypeStep, HolderStep, AloneStep, OweStep, PlaceStep, GateStep, ReapStep
      DEF ReuseInv
<1>2. Init => All
      BY TypeInit, ReuseInit, GateInit
<1>3. All /\ [Next]_vars =>
        [\A r \in Requests :
           /\ conn[r] # Nobody /\ conn'[r] = conn[r]
           /\ driver[conn[r]] = "running" /\ driver'[conn[r]] = "cancelled"
           => shutdown \/ r \in raced]_vars
      BY CancelStep DEF ReuseInv
<1>4. QED
      BY <1>1, <1>2, <1>3, PTL DEF Spec, NotCutShort

-----------------------------------------------------------------------------
(* Wakeups *)

Asleep(p) == At(p, {"wait"}) \ notified
Looking(p) == At(p, {"register", "examine"})
Told(p) == Of(p) \cap notified

\* What a waiter's list gains, those on their way to it gain, too.
Balanced(p) ==
  Len(idle'[p]) + Cardinality(Looking(p)) + Cardinality(Told(p))
    <= Len(idle[p]) + Cardinality(Looking(p)') + Cardinality(Told(p)')

\* Nobody falls asleep, and nobody loses his connection.
Wakes(p) ==
  \/ Asleep(p)' = {} \/ Len(idle'[p]) = 0
  \/ Asleep(p)' \subseteq Asleep(p) /\ Balanced(p)

LEMMA WaitersFinite ==
  ASSUME NEW p
  PROVE  /\ IsFiniteSet(Looking(p)) /\ IsFiniteSet(Told(p))
         /\ IsFiniteSet(Looking(p)') /\ IsFiniteSet(Told(p)')
<1>1. /\ Looking(p) \subseteq Requests /\ Told(p) \subseteq Requests
      /\ Looking(p)' \subseteq Requests /\ Told(p)' \subseteq Requests
      BY DEF Looking, Told, At, Of
<1>2. QED
      BY <1>1, PoolAssumption, FS_Subset

\* A step that takes nobody away.
LEMMA NothingLost ==
  ASSUME TypeOK, NEW p \in Pools, idle' \in [Pools -> Seq(Conns)],
         Asleep(p)' \subseteq Asleep(p), Len(idle'[p]) <= Len(idle[p]),
         Looking(p) \subseteq Looking(p)', Told(p) \subseteq Told(p)'
  PROVE  Wakes(p)
<1>1. /\ Cardinality(Looking(p)) \in Nat /\ Cardinality(Looking(p)') \in Nat
      /\ Cardinality(Looking(p)) <= Cardinality(Looking(p)')
      /\ Cardinality(Told(p)) \in Nat /\ Cardinality(Told(p)') \in Nat
      /\ Cardinality(Told(p)) <= Cardinality(Told(p)')
      BY WaitersFinite, Sizes
<1>2. Len(idle[p]) \in Nat /\ Len(idle'[p]) \in Nat
      BY DEF TypeOK
<1>3. QED
      BY <1>1, <1>2 DEF Wakes, Balanced

\* A waiter that leaves leaves its notification to another one.
LEMMA PassOn ==
  ASSUME TypeOK, NEW r \in Requests, Unregister(r), pool' = pool,
         pc'[r] # "wait", \A q \in Requests \ {r} : pc'[q] = pc[q], NEW p \in Pools
  PROVE  \/ Asleep(p)' = {}
         \/ /\ Asleep(p)' \subseteq Asleep(p)
            /\ Cardinality(Told(p)) <= Cardinality(Told(p)')
<1>0. /\ pc \in [Requests -> Places] /\ pool \in [Requests -> Pools]
      /\ notified \subseteq Requests
      BY DEF TypeOK
<1>1. \A q \in Requests : pc'[q] = "wait" => q # r /\ pc[q] = "wait"
      OBVIOUS
<1>2. /\ Cardinality(Told(p)) \in Nat /\ IsFiniteSet(Told(p))
      BY WaitersFinite, FS_CardinalityType
<1>3. ASSUME Told(p)' = Told(p), Asleep(p)' \subseteq Asleep(p)
      PROVE  /\ Asleep(p)' \subseteq Asleep(p)
             /\ Cardinality(Told(p)) <= Cardinality(Told(p)')
      BY <1>2, <1>3
<1>4. CASE r \notin notified
  <2>1. notified' = notified
        BY <1>4 DEF Unregister, notes
  <2>2. Told(p)' = Told(p) /\ Asleep(p)' \subseteq Asleep(p)
        BY <1>0, <1>1, <2>1 DEF Told, Asleep, At, Of
  <2>3. QED
        BY <1>3, <2>2
<1>5. CASE r \in notified /\ p # pool[r]
  <2>1. NotifyOne(pool[r], notified \ {r})
        BY <1>5 DEF Unregister
  <2>2. /\ notified \ {r} \subseteq notified'
        /\ \A q \in notified' : q \in notified \/ pool[q] = pool[r]
        BY <2>1, NotifyStep DEF Sleepers, At, Of
  <2>3. Told(p)' = Told(p)
        BY <1>0, <1>5, <2>2 DEF Told, Of
  <2>4. Asleep(p)' \subseteq Asleep(p)
        BY <1>0, <1>1, <1>5, <2>2 DEF Asleep, At, Of
  <2>5. QED
        BY <1>3, <2>3, <2>4
<1>6. CASE r \in notified /\ p = pool[r]
  <2>1. NotifyOne(p, notified \ {r})
        BY <1>6 DEF Unregister
  <2>2. CASE Sleepers(p) = {}
    <3>1. notified' = notified \ {r}
          BY <2>1, <2>2 DEF NotifyOne
    <3>2. ASSUME NEW q \in Asleep(p)' PROVE q \in Sleepers(p)
      <4>1. /\ q \in Requests /\ pool[q] = p /\ pc'[q] = "wait"
            /\ q \notin notified \ {r}
            BY <3>1 DEF Asleep, At, Of
      <4>2. QED
            BY <1>1, <4>1 DEF Sleepers, At, Of
    <3>3. QED
          BY <2>2, <3>2
  <2>3. CASE Sleepers(p) # {}
    <3>1. PICK s \in Sleepers(p) : notified' = (notified \ {r}) \cup {s}
          BY <2>1, <2>3 DEF NotifyOne
    <3>2. s \in Of(p) /\ s \notin notified
          BY <3>1 DEF Sleepers, At
    <3>3. Told(p)' = (Told(p) \ {r}) \cup {s} /\ r \in Told(p) /\ s \notin Told(p) \ {r}
          BY <1>0, <1>6, <3>1, <3>2 DEF Told, Of
    <3>4. Cardinality(Told(p)') = Cardinality(Told(p))
      <4>1. /\ IsFiniteSet(Told(p) \ {r})
            /\ Cardinality(Told(p) \ {r}) = Cardinality(Told(p)) - 1
            BY <1>2, <3>3, FS_RemoveElement
      <4>2. Cardinality((Told(p) \ {r}) \cup {s}) = Cardinality(Told(p) \ {r}) + 1
            BY <3>3, <4>1, FS_AddElement
      <4>3. QED
            BY <1>2, <3>3, <4>1, <4>2
    <3>5. Asleep(p)' \subseteq Asleep(p)
          BY <1>0, <1>1, <3>1 DEF Asleep, At, Of
    <3>6. QED
          BY <1>2, <3>4, <3>5
  <2>4. QED
        BY <2>2, <2>3
<1>7. QED
      BY <1>4, <1>5, <1>6

LEMMA WakeStep ==
  ASSUME TypeOK, [Next]_vars, NEW p \in Pools
  PROVE  Wakes(p)
<1>0. /\ pc \in [Requests -> Places] /\ pool \in [Requests -> Pools]
      /\ idle \in [Pools -> Seq(Conns)] /\ notified \subseteq Requests
      /\ \A q \in notified : pc[q] \in {"examine", "wait"}
      BY DEF TypeOK
<1>I. idle' \in [Pools -> Seq(Conns)] /\ Len(idle[p]) \in Nat /\ Len(idle'[p]) \in Nat
      BY <1>0, IdleTypes
<1>C. /\ Cardinality(Looking(p)) \in Nat /\ Cardinality(Looking(p)') \in Nat
      /\ Cardinality(Told(p)) \in Nat /\ Cardinality(Told(p)') \in Nat
      BY WaitersFinite, FS_CardinalityType
\* Nothing happens to the waiters, and the list does not grow.
<1>1. ASSUME notified' = notified, Len(idle'[p]) <= Len(idle[p]),
             \A q \in Requests :
               /\ pool'[q] = pool[q] \/ (pc[q] = "idle" /\ pc'[q] = "acquire")
               /\ pc'[q] = "wait" => pc[q] = "wait"
               /\ pc[q] \in {"register", "examine"} => pc'[q] \in {"register", "examine"}
      PROVE  Wakes(p)
  <2>1. /\ Asleep(p)' \subseteq Asleep(p)
        /\ Looking(p) \subseteq Looking(p)' /\ Told(p) \subseteq Told(p)'
        BY <1>0, <1>1 DEF Asleep, Looking, Told, At, Of
  <2>2. QED
        BY <1>1, <1>I, <2>1, NothingLost
\* A waiter leaves the queue.
<1>2. ASSUME NEW r \in Requests, Unregister(r), pool' = pool,
             pc'[r] # "wait", \A q \in Requests \ {r} : pc'[q] = pc[q],
             \/ pc[r] \notin {"register", "examine"} /\ Len(idle'[p]) <= Len(idle[p])
             \/ pool[r] # p /\ Len(idle'[p]) <= Len(idle[p])
             \/ Len(idle'[p]) + 1 <= Len(idle[p])
      PROVE  Wakes(p)
  <2>1. \/ Asleep(p)' = {}
        \/ Asleep(p)' \subseteq Asleep(p) /\ Cardinality(Told(p)) <= Cardinality(Told(p)')
        BY <1>2, PassOn
  <2>2. CASE (pc[r] \notin {"register", "examine"} \/ pool[r] # p)
             /\ Len(idle'[p]) <= Len(idle[p])
    <3>1. Looking(p) \subseteq Looking(p)'
          BY <1>0, <1>2, <2>2 DEF Looking, At, Of
    <3>2. Cardinality(Looking(p)) <= Cardinality(Looking(p)')
          BY <3>1, WaitersFinite, Sizes
    <3>3. QED
          BY <1>C, <1>I, <2>1, <2>2, <3>2 DEF Wakes, Balanced
  <2>3. CASE Len(idle'[p]) + 1 <= Len(idle[p])
    <3>1. Looking(p) \subseteq Looking(p)' \cup {r}
          BY <1>0, <1>2 DEF Looking, At, Of
    <3>2. Cardinality(Looking(p)) <= Cardinality(Looking(p)') + 1
          BY <3>1, WaitersFinite, SizesPlus
    <3>3. QED
          BY <1>C, <1>I, <2>1, <2>3, <3>2 DEF Wakes, Balanced
  <2>4. QED
        BY <1>2, <2>2, <2>3
<1>3. ASSUME NEW r \in Requests, NEW q \in Pools, NEW body \in Uploads, Begin(r, q, body)
      PROVE  Wakes(p)
  <2>1. /\ UNCHANGED <<notified, idle>> /\ pc[r] = "idle"
        /\ pc' = [pc EXCEPT ![r] = "acquire"] /\ pool' = [pool EXCEPT ![r] = q]
        BY <1>3, BeginStep DEF notes
  <2>2. QED
        BY <1>0, <1>1, <1>I, <2>1
<1>4. ASSUME NEW r \in Requests, Fails(r) PROVE Wakes(p)
  <2>1. Finish(r) /\ pc[r] \notin {"register", "examine"}
        BY <1>4, FailStep DEF Awaiting
  <2>2. /\ UNCHANGED <<pool, idle>> /\ pc' = [pc EXCEPT ![r] = "idle"] /\ Unregister(r)
        BY <2>1, FinishStep
  <2>3. pc'[r] # "wait" /\ \A q \in Requests \ {r} : pc'[q] = pc[q]
        BY <1>0, <2>2
  <2>4. QED
        BY <1>2, <1>I, <2>1, <2>2, <2>3
<1>5. ASSUME NEW r \in Requests, Moves(r) PROVE Wakes(p)
  <2>0. UNCHANGED <<pool, idle>>
        BY <1>5, MoveStep
  <2>1. CASE Register(r) /\ Hop(r, "register", "examine")
    <3>1. notified \subseteq notified' /\ pc' = [pc EXCEPT ![r] = "examine"]
          BY <2>1 DEF Register, Hop
    <3>2. /\ Asleep(p)' \subseteq Asleep(p)
          /\ Looking(p) \subseteq Looking(p)' /\ Told(p) \subseteq Told(p)'
          BY <1>0, <2>0, <3>1 DEF Asleep, Looking, Told, At, Of
    <3>3. QED
          BY <1>I, <2>0, <3>2, NothingLost
  <2>2. CASE WakeNotified(r) /\ Hop(r, "wait", "register")
    <3>1. /\ notified' = notified \ {r} /\ pc' = [pc EXCEPT ![r] = "register"]
          /\ pc[r] = "wait" /\ r \in notified
          BY <2>2 DEF WakeNotified, Hop
    <3>2. CASE pool[r] # p
      <4>1. /\ Asleep(p)' \subseteq Asleep(p)
            /\ Looking(p) \subseteq Looking(p)' /\ Told(p) \subseteq Told(p)'
            BY <1>0, <2>0, <3>1, <3>2 DEF Asleep, Looking, Told, At, Of
      <4>2. QED
            BY <1>I, <2>0, <4>1, NothingLost
    <3>3. CASE pool[r] = p
      <4>1. /\ Asleep(p)' \subseteq Asleep(p)
            /\ r \in Looking(p)' /\ Looking(p) \subseteq Looking(p)' \ {r}
            /\ Told(p) \subseteq Told(p)' \cup {r}
            BY <1>0, <2>0, <3>1, <3>3 DEF Asleep, Looking, Told, At, Of
      <4>2. Cardinality(Looking(p)) + 1 <= Cardinality(Looking(p)')
            BY <4>1, WaitersFinite, SizesMinus
      <4>3. Cardinality(Told(p)) <= Cardinality(Told(p)') + 1
            BY <4>1, WaitersFinite, SizesPlus
      <4>4. QED
            BY <1>C, <1>I, <2>0, <4>1, <4>2, <4>3 DEF Wakes, Balanced
    <3>4. QED
          BY <3>2, <3>3
  <2>3. CASE Hop(r, "wait", "global") /\ Unregister(r)
    <3>1. /\ pc[r] = "wait" /\ pc'[r] # "wait"
          /\ \A q \in Requests \ {r} : pc'[q] = pc[q]
          BY <1>0, <2>3 DEF Hop
    <3>2. QED
          BY <1>2, <1>I, <2>0, <2>3, <3>1
  <2>4. CASE /\ UNCHANGED notes
             /\ \E place : /\ pc' = [pc EXCEPT ![r] = place] /\ place # "wait"
                           /\ pc[r] \notin {"register", "examine"}
    <3>1. notified' = notified
          BY <2>4 DEF notes
    <3>2. QED
          BY <1>0, <1>1, <1>I, <2>0, <2>4, <3>1
  <2>5. QED
        BY <1>5, <2>1, <2>2, <2>3, <2>4, MoveStep DEF Hop
<1>6. ASSUME NEW r \in Requests, AcquireHttp1(r) \/ Examine(r) PROVE Wakes(p)
  <2>0. pool' = pool /\ pool[r] \in Pools /\ pc[r] \in {"acquire", "examine"}
        BY <1>0, <1>6, TakeStep
  <2>1. ASSUME NEW i \in DOMAIN idle[pool[r]], TakeIdle(r, i),
               IF pc[r] = "examine" THEN Unregister(r) ELSE UNCHANGED notes
        PROVE  Wakes(p)
    <3>1. /\ idle' = [idle EXCEPT ![pool[r]] = SubSeq(idle[pool[r]], 1, i - 1)]
          /\ pc' = [pc EXCEPT ![r] = "ready"]
          BY <2>1 DEF TakeIdle, Goto
    <3>2. idle[pool[r]] \in Seq(Conns) /\ i \in 1..Len(idle[pool[r]])
          BY <1>0, <2>0
    <3>3. Len(SubSeq(idle[pool[r]], 1, i - 1)) < Len(idle[pool[r]])
          BY <3>2, PrefixPart
    <3>4. /\ pool[r] = p => Len(idle'[p]) < Len(idle[p])
          /\ pool[r] # p => Len(idle'[p]) = Len(idle[p])
          BY <1>0, <3>1, <3>3
    <3>5. CASE pc[r] = "examine"
      <4>1. pc'[r] # "wait" /\ \A q \in Requests \ {r} : pc'[q] = pc[q]
            BY <1>0, <3>1
      <4>2. QED
            BY <1>2, <1>I, <2>0, <2>1, <3>4, <3>5, <4>1
    <3>6. CASE pc[r] # "examine"
      <4>1. notified' = notified /\ pc[r] = "acquire"
            BY <2>0, <2>1, <3>6 DEF notes
      <4>2. QED
            BY <1>0, <1>1, <1>I, <2>0, <3>1, <3>4, <4>1
    <3>7. QED
          BY <3>5, <3>6
  <2>2. ASSUME NEW place, TakeNone(r, place), UNCHANGED notes PROVE Wakes(p)
    <3>1. /\ idle' = [idle EXCEPT ![pool[r]] = << >>] /\ pc' = [pc EXCEPT ![r] = place]
          /\ notified' = notified
          BY <2>2 DEF TakeNone, Goto, notes
    <3>2. CASE pool[r] = p
      <4>1. Len(idle'[p]) = 0
            BY <1>0, <3>1, <3>2
      <4>2. QED
            BY <4>1 DEF Wakes
    <3>3. CASE pool[r] # p
      <4>1. /\ Asleep(p)' \subseteq Asleep(p)
            /\ Looking(p) \subseteq Looking(p)' /\ Told(p) \subseteq Told(p)'
            /\ idle'[p] = idle[p]
            BY <1>0, <2>0, <3>1, <3>3 DEF Asleep, Looking, Told, At, Of
      <4>2. QED
            BY <1>I, <4>1, NothingLost
    <3>4. QED
          BY <3>2, <3>3
  <2>3. QED
        BY <1>6, <2>1, <2>2, TakeStep
<1>7. ASSUME NEW r \in Requests, AcquireHttp2(r) \/ Recheck(r) PROVE Wakes(p)
  <2>1. /\ UNCHANGED <<pool, notified, idle>> /\ pc[r] \in {"acquire", "recheck"}
        /\ \E place \in {"ready", "gate", "local"} : pc' = [pc EXCEPT ![r] = place]
        BY <1>7 DEF AcquireHttp2, Recheck, Current, Goto, notes
  <2>2. QED
        BY <1>0, <1>1, <1>I, <2>1
<1>8. ASSUME NEW r \in Requests, NEW c \in Conns, Connected(r, c) PROVE Wakes(p)
  <2>1. /\ UNCHANGED <<pool, notified, idle>> /\ pc[r] = "connect"
        /\ pc' = [pc EXCEPT ![r] = "ready"]
        BY <1>8 DEF Connected, Goto, notes
  <2>2. QED
        BY <1>0, <1>1, <1>I, <2>1
<1>9. ASSUME NEW r \in Requests, Send(r) \/ Respond(r) PROVE Wakes(p)
  <2>1. /\ UNCHANGED <<pool, notified, idle>> /\ pc[r] \in {"ready", "readywait", "sent"}
        /\ \E place \in {"sent", "body"} : pc' = [pc EXCEPT ![r] = place]
        BY <1>9 DEF Send, Respond, Goto, notes, store
  <2>2. QED
        BY <1>0, <1>1, <1>I, <2>1
<1>10. ASSUME NEW r \in Requests, BodySteps(r) PROVE Wakes(p)
  <2>0. /\ pool' = pool /\ pc[r] = "body" /\ (pc' = pc \/ pc' = [pc EXCEPT ![r] = "idle"])
        /\ Returns(r) \/ UNCHANGED <<idle, notes>>
        BY <1>10, BodyStep DEF BodySteps
  <2>1. CASE UNCHANGED <<idle, notes>>
    <3>1. notified' = notified
          BY <2>1 DEF notes
    <3>2. QED
          BY <1>0, <1>1, <1>I, <2>0, <2>1, <3>1
  <2>2. CASE Returns(r)
    <3>1. /\ conn[r] \in Conns /\ NotifyOne(pool[r], notified)
          /\ idle' = [idle EXCEPT ![pool[r]] = Append(@, conn[r])]
          BY <2>2 DEF Returns, Appended, TypeOK
    <3>2. /\ At(p, {"wait"})' = At(p, {"wait"})
          /\ Looking(p)' = Looking(p) /\ Of(p)' = Of(p)
          BY <1>0, <2>0 DEF Looking, At, Of
    <3>3. notified \subseteq notified'
          BY <3>1, NotifyStep
    <3>4. CASE pool[r] # p
      <4>1. idle'[p] = idle[p]
            BY <1>0, <3>1, <3>4
      <4>2. Asleep(p)' \subseteq Asleep(p) /\ Told(p) \subseteq Told(p)'
            BY <3>2, <3>3 DEF Asleep, Told
      <4>3. QED
            BY <1>I, <3>2, <4>1, <4>2, NothingLost
    <3>5. CASE pool[r] = p /\ Sleepers(p) = {}
      <4>1. At(p, {"wait"}) \subseteq notified
            BY <3>5 DEF Sleepers, At
      <4>2. Asleep(p)' = {}
            BY <3>2, <3>3, <4>1 DEF Asleep
      <4>3. QED
            BY <4>2 DEF Wakes
    <3>6. CASE pool[r] = p /\ Sleepers(p) # {}
      <4>1. PICK s \in Sleepers(p) : notified' = notified \cup {s}
            BY <3>1, <3>6 DEF NotifyOne
      <4>2. s \in Told(p)' /\ s \notin Told(p)
            BY <3>2, <4>1 DEF Sleepers, At, Told
      <4>3. Told(p) \subseteq Told(p)' \ {s}
            BY <3>2, <3>3, <4>2 DEF Told
      <4>4. Cardinality(Told(p)) + 1 <= Cardinality(Told(p)')
            BY <4>2, <4>3, WaitersFinite, SizesMinus
      <4>5. Len(idle'[p]) = Len(idle[p]) + 1
            BY <1>0, <3>1, <3>6
      <4>6. Asleep(p)' \subseteq Asleep(p)
            BY <3>2, <3>3 DEF Asleep
      <4>7. QED
            BY <1>C, <1>I, <3>2, <4>4, <4>5, <4>6 DEF Wakes, Balanced
    <3>7. QED
          BY <3>4, <3>5, <3>6
  <2>3. QED
        BY <2>0, <2>1, <2>2
<1>11. ASSUME NEW q \in Pools, NEW n \in 0..Len(idle[q]), ReapIdle(q, n) PROVE Wakes(p)
  <2>1. /\ idle' = [idle EXCEPT ![q] = IF shutdown THEN << >> ELSE Retained(q, n)]
        /\ UNCHANGED <<pc, pool, notified>>
        BY <1>11 DEF ReapIdle, reqs, notes
  <2>2. n \in Nat /\ idle[q] \in Seq(Conns)
        BY <1>0
  <2>3. /\ Len(Retained(q, n)) <= Len(idle[q])
        /\ Len(<< >>) = 0 /\ Len(idle[q]) \in Nat
        BY <2>2, RetainedPart DEF Part
  <2>4. Len(idle'[p]) <= Len(idle[p])
        BY <1>0, <1>I, <2>1, <2>3
  <2>5. QED
        BY <1>1, <2>1, <2>4
<1>12. ASSUME UNCHANGED <<pc, pool, notified, idle>> PROVE Wakes(p)
       BY <1>1, <1>I, <1>12
<1>13. QED
       BY <1>3, <1>4, <1>5, <1>6, <1>7, <1>8, <1>9, <1>10, <1>11, <1>12, NextCases
       DEF UploadEnds, UploadCut, DriverEnds, ReapTake, Aside, reqs, notes, store

LEMMA WakeInit == Init => NoLostWakeup
<1> SUFFICES ASSUME Init, NEW p \in Pools, At(p, {"wait"}) \ notified # {}
             PROVE  FALSE
    BY DEF NoLostWakeup
<1>1. \A r \in Requests : pc[r] = "idle"
      BY DEF Init
<1>2. QED
      BY <1>1 DEF At, Of

\* acquire_http1, "Register notification before examining the idle list to
\* avoid lost wakeups": while somebody sleeps, there is somebody on the way to
\* every connection of the idle list.  It is inductive with the types alone:
\* no step takes more of those away than it takes connections.
THEOREM WakeupsKept == Spec => []NoLostWakeup
<1>1. TypeOK /\ HandInv /\ NoLostWakeup /\ [Next]_vars => NoLostWakeup'
  <2> SUFFICES ASSUME TypeOK, HandInv, NoLostWakeup, [Next]_vars, NEW p \in Pools,
                      Asleep(p)' # {}
               PROVE  Len(idle'[p]) <= Cardinality(Looking(p)') + Cardinality(Told(p)')
      BY DEF NoLostWakeup, Asleep, Looking, Told
  <2>1. Wakes(p)
        BY WakeStep
  <2>2. /\ Cardinality(Looking(p)) \in Nat /\ Cardinality(Looking(p)') \in Nat
        /\ Cardinality(Told(p)) \in Nat /\ Cardinality(Told(p)') \in Nat
        BY WaitersFinite, FS_CardinalityType
  <2>3. Len(idle[p]) \in Nat /\ Len(idle'[p]) \in Nat
    <3>1. idle' \in [Pools -> Seq(Conns)] /\ idle \in [Pools -> Seq(Conns)]
          BY IdleTypes DEF TypeOK
    <3>2. QED
          BY <3>1
  <2>4. CASE Asleep(p)' \subseteq Asleep(p) /\ Balanced(p)
    <3>1. Len(idle[p]) <= Cardinality(Looking(p)) + Cardinality(Told(p))
          BY <2>4 DEF NoLostWakeup, Asleep, Looking, Told
    <3>2. QED
          BY <2>2, <2>3, <2>4, <3>1 DEF Balanced
  <2>5. QED
        BY <2>1, <2>2, <2>3, <2>4 DEF Wakes
<1>2. TypeOK /\ HandInv /\ [Next]_vars => (TypeOK /\ HandInv)'
      BY TypeStep
<1>3. QED
      BY <1>1, <1>2, TypeInit, WakeInit, PTL DEF Spec
=============================================================================
