----------------------------- MODULE PartsProofs -----------------------------
(* Theorems about the parts of Parts, for any versions of the networks, any *)
(* valid configuration and requests, and any frames.                        *)
EXTENDS Parts, Naturals, SequenceTheorems, WellFoundedInduction, TLAPS

-----------------------------------------------------------------------------
(* The networks requests are judged by *)

(* What is renamed has been synced; the path names what is about to be     *)
(* stored.                                                                 *)
PublishInv ==
  /\ pc = "rename" => synced
  /\ pc = "store" => cache = got

NetworkInv == N!TypeOK /\ PublishInv /\ N!ServedIsKept

LEMMA FirstNetworks == ASSUME N!Init PROVE NetworkInv
<1> N!Nothing \in [N!Families -> Versions \cup {Missing}]
  BY DEF N!Nothing
<1> QED BY NetworksAssumed DEF N!NetworkAssumption, N!Init, NetworkInv, N!TypeOK, PublishInv, N!ServedIsKept, N!Serving, N!Refreshing

(* A process that is down serves nothing and has nothing in hand: only its *)
(* files matter.                                                           *)
LEMMA DownNetworks ==
  ASSUME NetworkInv, N!Gone,
         {cache'} \cup cacheShadow' \subseteq N!Contents \cup {NoFile, Bad}
  PROVE  NetworkInv'
<1>1. N!Nothing \in [N!Families -> Versions \cup {Missing}]
  BY DEF N!Nothing
<1> QED BY <1>1, NetworksAssumed DEF N!NetworkAssumption, N!Gone, NetworkInv, N!TypeOK, PublishInv, N!ServedIsKept, N!Serving, N!Refreshing

(* A rename under way brings a cache that is whole and synced. *)
LEMMA RenamedIsWhole ==
  ASSUME NetworkInv, pc = "rename", N!Renamed
  PROVE  cache' = got /\ got \in N!Contents /\ {cache'} \cup cacheShadow' \subseteq N!Contents \cup {NoFile, Bad}
BY DEF NetworkInv, N!TypeOK, PublishInv, N!Renamed

LEMMA NetworkStep == ASSUME NetworkInv, [N!Next]_networkVars PROVE NetworkInv'
<1>1. N!Nothing \in [N!Families -> Versions \cup {Missing}]
  BY DEF N!Nothing
<1> USE NetworksAssumed DEF N!NetworkAssumption, NetworkInv, N!TypeOK, PublishInv, N!ServedIsKept, N!Serving, N!Refreshing, N!Goes, N!disk
<1>2. CASE N!Start
  BY <1>2 DEF N!Start
<1>3. CASE N!Load
  BY <1>3 DEF N!Load, N!Loadable
<1>4. CASE N!Look
  BY <1>4 DEF N!Look
<1>5. CASE N!Wake
  BY <1>5 DEF N!Wake
<1>6. ASSUME NEW f \in N!Families, N!Fetch(f) PROVE NetworkInv'
  <2>1. got' \in [N!Families -> Versions \cup {Missing}]
    BY <1>6 DEF N!Fetch, N!Contents
  <2>2. pc' = "create" => got' \in N!Contents
    <3> SUFFICES ASSUME pc' = "create" PROVE got' \in N!Contents
      OBVIOUS
    <3>1. \A g \in N!Families \ {f} : got[g] # Missing
      BY <1>6 DEF N!Fetch
    <3> QED BY <1>6, <3>1 DEF N!Fetch, N!Contents
  <2> QED BY <1>6, <2>1, <2>2 DEF N!Fetch
<1>7. ASSUME NEW f \in N!Families, N!Publish(f) PROVE NetworkInv'
  <2>1. origin' \in N!Contents
    BY <1>7 DEF N!Publish, N!Contents
  <2> QED BY <1>7, <2>1 DEF N!Publish
<1>8. CASE N!Create
  BY <1>8 DEF N!Create
<1>9. CASE N!Write
  BY <1>9 DEF N!Write
<1>10. CASE N!Sync
  BY <1>10 DEF N!Sync
<1>11. CASE N!Rename
  BY <1>11, RenamedIsWhole DEF N!Rename
<1>12. CASE N!Store
  BY <1>1, <1>12 DEF N!Store
<1>13. CASE N!RefreshFails
  BY <1>1, <1>13 DEF N!RefreshFails
<1>14. CASE N!Shutdown
  <2>1. CASE UNCHANGED N!disk
    BY <1>1, <1>14, <2>1 DEF N!Shutdown
  <2>2. CASE pc = "rename" /\ N!Renamed
    BY <1>1, <1>14, <2>2, RenamedIsWhole DEF N!Shutdown
  <2> QED BY <1>14, <2>1, <2>2 DEF N!Shutdown
<1>15. CASE N!Ends
  <2>1. CASE UNCHANGED N!disk
    BY <1>15, <2>1, DownNetworks DEF N!Ends
  <2>2. CASE pc = "rename" /\ N!Renamed
    BY <1>15, <2>2, DownNetworks, RenamedIsWhole DEF N!Ends
  <2> QED BY <1>15, <2>1, <2>2 DEF N!Ends
<1>16. CASE N!PowerLoss
  BY <1>16, DownNetworks DEF N!PowerLoss
<1>17. CASE N!Flush
  BY <1>17 DEF N!Flush
<1>18. CASE N!Passes
  BY <1>18 DEF N!Passes
<1>19. CASE UNCHANGED networkVars
  BY <1>19 DEF networkVars
<1> QED BY <1>2, <1>3, <1>4, <1>5, <1>6, <1>7, <1>8, <1>9, <1>10, <1>11, <1>12, <1>13,
           <1>14, <1>15, <1>16, <1>17, <1>18, <1>19 DEF N!Next


(* A step of another part is no step of the networks. *)
LEMMA NetworkPart == [PartsNext]_allVars => [N!Next]_networkVars
<1> SUFFICES ASSUME [PartsNext]_allVars PROVE [N!Next]_networkVars
  OBVIOUS
<1>1. CASE PartsNext
  BY <1>1 DEF PartsNext
<1>2. CASE UNCHANGED allVars
  BY <1>2 DEF allVars
<1> QED BY <1>1, <1>2

(* What the maintenance task has in hand, at every place it can be at.     *)
THEOREM NetworksInductive == PartsSpec => []NetworkInv
<1>1. PartsInit => NetworkInv
  BY FirstNetworks DEF PartsInit
<1>2. NetworkInv /\ [PartsNext]_allVars => NetworkInv'
  BY NetworkPart, NetworkStep
<1> QED BY <1>1, <1>2, PTL DEF PartsSpec

(* The types, and what each place of the maintenance task of               *)
(* CloudflareNetworks::start has in hand.                                  *)
THEOREM NetworksTyped == PartsSpec => []N!TypeOK
<1>1. NetworkInv => N!TypeOK
  BY DEF NetworkInv
<1> QED BY <1>1, NetworksInductive, PTL

(* Requests are judged by a whole download that the cache file holds, and  *)
(* no power loss leaves a torn file: refresh and persist_cache.            *)
THEOREM ServedKept == PartsSpec => []ServedIsKept
<1>1. NetworkInv => ServedIsKept
  BY DEF NetworkInv, ServedIsKept
<1> QED BY <1>1, NetworksInductive, PTL

-----------------------------------------------------------------------------
(* The route of a request: the loop of HttpRouteTable::resolve *)

LEMMA LeastNumber ==
  ASSUME NEW S \in SUBSET Nat, S # {}
  PROVE  \E n \in S : \A m \in S : n <= m
<1> DEFINE R == OpToRel(<, Nat)
<1>1. PICK n \in S : \A m \in S : <<m, n>> \notin R
  <2>1. IsWellFoundedOn(R, Nat)
    BY NatLessThanWellFounded
  <2> HIDE DEF R
  <2> QED BY <2>1, WFMin
<1>2. \A m \in S : ~(m < n)
  BY <1>1 DEF OpToRel
<1> QED BY <1>2

Descends(f, len, stop, value, next) ==
  f = [k \in 1..len |-> IF k \in stop THEN value[k] ELSE f[next[k]]]

(* A function that refers to itself at smaller numbers only, exists. *)
LEMMA Descent ==
  ASSUME NEW len \in Nat, NEW stop, NEW value, NEW next,
         \A k \in 1..len : k \notin stop => next[k] \in 1..(k - 1)
  PROVE  \E f : Descends(f, len, stop, value, next)
<1> USE DEF Descends
<1> DEFINE Upto(n, f) == f = [k \in 1..n |-> IF k \in stop THEN value[k] ELSE f[next[k]]]
           Missed == {n \in 0..len : ~\E f : Upto(n, f)}
<1>1. SUFFICES ASSUME Missed # {} PROVE FALSE
  <2>1. Missed = {} => \E f : Upto(len, f)
    OBVIOUS
  <2> QED BY <2>1
<1>2. PICK n \in Missed : \A m \in Missed : n <= m
  <2>1. Missed \in SUBSET Nat
    OBVIOUS
  <2> HIDE DEF Missed
  <2> QED BY <1>1, <2>1, LeastNumber
<1>3. n # 0
  <2>1. Upto(0, [k \in {} |-> 0])
    OBVIOUS
  <2> QED BY <2>1
<1>4. PICK f : Upto(n - 1, f)
  <2>1. n - 1 \in 0..len /\ n - 1 \notin Missed
    BY <1>2, <1>3
  <2> QED BY <2>1
<1> DEFINE g == [k \in 1..n |-> IF k \in 1..(n - 1) THEN f[k]
                                ELSE IF k \in stop THEN value[k] ELSE f[next[k]]]
<1>5. \A k \in 1..n : g[k] = IF k \in stop THEN value[k] ELSE g[next[k]]
  <2> SUFFICES ASSUME NEW k \in 1..n PROVE g[k] = IF k \in stop THEN value[k] ELSE g[next[k]]
    OBVIOUS
  <2>1. k \notin stop => next[k] \in 1..(k - 1) /\ next[k] \in 1..(n - 1) /\ next[k] \in 1..n
    BY <1>2
  <2>2. k \notin stop => g[next[k]] = f[next[k]]
    BY <2>1
  <2>3. CASE k \in 1..(n - 1)
    <3>1. f[k] = IF k \in stop THEN value[k] ELSE f[next[k]]
      BY <1>4, <2>3
    <3> QED BY <2>2, <2>3, <3>1
  <2>4. CASE k \notin 1..(n - 1)
    BY <2>2, <2>4
  <2> QED BY <2>3, <2>4
<1>6. Upto(n, g)
  <2> HIDE DEF g
  <2>1. g = [k \in 1..n |-> g[k]]
    BY DEF g
  <2> QED BY <1>5, <2>1
<1>7. \E h : Upto(n, h)
  BY <1>6
<1> QED BY <1>2, <1>7

OrRoot(prefixes) == IF D!Root \in prefixes THEN D!Root ELSE Nobody
LastSlash(path, n) == D!Max(D!Slashes(SubSeq(path, 1, n)))
Look(prefixes, path, f) ==
  [n \in 1..Len(path) |->
     IF SubSeq(path, 1, n) \in prefixes THEN SubSeq(path, 1, n)
     ELSE IF LastSlash(path, n) = 1 THEN OrRoot(prefixes)
     ELSE f[LastSlash(path, n) - 1]]

LEMMA LookUnfolded ==
  ASSUME NEW prefixes, NEW path
  PROVE  D!LongestPrefix(prefixes, path)
           = (CHOOSE f : f = Look(prefixes, path, f))[Len(path)]
BY Zenon DEF D!LongestPrefix, Look, LastSlash, OrRoot

(* Where the loop cuts next: the last slash of what is left. *)
LEMMA CutBack ==
  ASSUME NEW path \in Seq(STRING), path[1] = "/", NEW n \in 1..Len(path)
  PROVE  /\ LastSlash(path, n) \in 1..n
         /\ path[LastSlash(path, n)] = "/"
         /\ \A i \in 1..n : path[i] = "/" => i <= LastSlash(path, n)
<1> DEFINE S == D!Slashes(SubSeq(path, 1, n))
           Above == {n - i : i \in S}
<1>1. S = {i \in 1..n : path[i] = "/"}
  BY DEF D!Slashes
<1> HIDE DEF S
<1>2. PICK d \in Above : \A e \in Above : d <= e
  <2>1. Above \in SUBSET Nat /\ Above # {}
    BY <1>1
  <2> HIDE DEF Above
  <2> QED BY <2>1, LeastNumber
<1>3. n - d \in S /\ \A i \in S : n - d >= i
  <2>1. PICK i \in S : d = n - i
    BY <1>2
  <2>2. \A j \in S : d <= n - j
    BY <1>2
  <2> QED BY <1>1, <2>1, <2>2
<1>4. D!Max(S) \in S /\ \A i \in S : D!Max(S) >= i
  BY <1>3 DEF D!Max
<1>5. LastSlash(path, n) = D!Max(S)
  BY DEF LastSlash, S
<1> QED BY <1>1, <1>4, <1>5

LEMMA LookExists ==
  ASSUME NEW prefixes, NEW path \in Seq(STRING), path[1] = "/"
  PROVE  \E f : f = Look(prefixes, path, f)
<1> DEFINE stop == {n \in 1..Len(path) :
                     SubSeq(path, 1, n) \in prefixes \/ LastSlash(path, n) = 1}
           value == [n \in 1..Len(path) |->
                      IF SubSeq(path, 1, n) \in prefixes THEN SubSeq(path, 1, n)
                      ELSE OrRoot(prefixes)]
           next == [n \in 1..Len(path) |-> LastSlash(path, n) - 1]
           len == Len(path)
<1>1. \A k \in 1..len : k \notin stop => next[k] \in 1..(k - 1)
  <2> SUFFICES ASSUME NEW k \in 1..len, k \notin stop PROVE next[k] \in 1..(k - 1)
    OBVIOUS
  <2>1. LastSlash(path, k) \in 1..k
    BY CutBack
  <2> QED BY <2>1
<1>2. PICK f : Descends(f, len, stop, value, next)
  <2>1. len \in Nat
    OBVIOUS
  <2> HIDE DEF stop, value, next, len
  <2>2. PICK l, st, v, nx : l = len /\ st = stop /\ v = value /\ nx = next
    OBVIOUS
  <2>3. l \in Nat /\ \A k \in 1..l : k \notin st => nx[k] \in 1..(k - 1)
    BY <1>1, <2>1, <2>2
  <2>4. \E f : Descends(f, l, st, v, nx)
    BY <2>3, Descent
  <2> QED BY <2>2, <2>4
<1>3. f = [k \in 1..len |-> IF k \in stop THEN value[k] ELSE f[next[k]]]
  BY <1>2 DEF Descends
<1>4. [k \in 1..len |-> IF k \in stop THEN value[k] ELSE f[next[k]]] = Look(prefixes, path, f)
  BY DEF Look
<1> QED BY <1>3, <1>4

(* The prefixes that match the first n characters at the end of a segment. *)
Reach(prefixes, path, n) ==
  {p \in prefixes : \/ p = D!Root
                    \/ \E m \in 1..n : p = SubSeq(path, 1, m) /\ (m = n \/ path[m + 1] = "/")}

LongestOf(p, S) == IF S = {} THEN p = Nobody ELSE p \in S /\ \A q \in S : Len(q) <= Len(p)

(* One turn of the loop: what is cut off covers nothing. *)
LEMMA CutKeepsReach ==
  ASSUME NEW prefixes, NEW path \in Seq(STRING), path[1] = "/", NEW n \in 1..Len(path),
         SubSeq(path, 1, n) \notin prefixes
  PROVE  Reach(prefixes, path, n) =
           IF LastSlash(path, n) = 1 THEN {p \in prefixes : p = D!Root}
           ELSE Reach(prefixes, path, LastSlash(path, n) - 1)
<1> DEFINE s == LastSlash(path, n)
<1>1. /\ s \in 1..n /\ path[s] = "/"
      /\ \A i \in 1..n : path[i] = "/" => i <= s
  BY CutBack
<1> HIDE DEF s
<1>2. ASSUME NEW p \in prefixes, NEW m \in 1..n, p = SubSeq(path, 1, m), m = n \/ path[m + 1] = "/"
      PROVE  m \in 1..(s - 1) /\ (m = s - 1 \/ path[m + 1] = "/")
  <2>1. m # n
    BY <1>2
  <2>2. m + 1 \in 1..n
    BY <2>1
  <2> QED BY <1>1, <1>2, <2>1, <2>2
<1>3. ASSUME NEW m \in 1..(s - 1), m = s - 1 \/ path[m + 1] = "/"
      PROVE  m \in 1..n /\ path[m + 1] = "/"
  BY <1>1, <1>3
<1>4. CASE s = 1
  BY <1>2, <1>4 DEF Reach, s
<1>5. CASE s # 1
  <2>1. Reach(prefixes, path, n) = Reach(prefixes, path, s - 1)
    BY <1>2, <1>3 DEF Reach
  <2> QED BY <1>5, <2>1 DEF s
<1> QED BY <1>4, <1>5

LEMMA LookRight ==
  ASSUME NEW prefixes, NEW path \in Seq(STRING), path[1] = "/",
         NEW f, f = Look(prefixes, path, f)
  PROVE  \A n \in 1..Len(path) : LongestOf(f[n], Reach(prefixes, path, n))
<1> DEFINE Wrong == {n \in 1..Len(path) : ~LongestOf(f[n], Reach(prefixes, path, n))}
<1>1. SUFFICES ASSUME Wrong # {} PROVE FALSE
  OBVIOUS
<1>2. PICK n \in Wrong : \A m \in Wrong : n <= m
  <2>1. Wrong \in SUBSET Nat
    OBVIOUS
  <2> HIDE DEF Wrong
  <2> QED BY <1>1, <2>1, LeastNumber
<1>3. f[n] = IF SubSeq(path, 1, n) \in prefixes THEN SubSeq(path, 1, n)
             ELSE IF LastSlash(path, n) = 1 THEN OrRoot(prefixes)
             ELSE f[LastSlash(path, n) - 1]
  BY <1>2 DEF Look
<1>4. CASE SubSeq(path, 1, n) \in prefixes
  <2>1. f[n] = SubSeq(path, 1, n) /\ n \in 1..n /\ n \in 1..Len(path)
    BY <1>2, <1>3, <1>4
  <2>2. SubSeq(path, 1, n) \in Reach(prefixes, path, n)
    BY <1>4, <2>1 DEF Reach
  <2>3. \A m \in 1..n : Len(SubSeq(path, 1, m)) = m
    BY <2>1
  <2>4. Len(D!Root) = 1
    BY DEF D!Root
  <2>5. ASSUME NEW q \in Reach(prefixes, path, n) PROVE Len(q) <= n
    <3>1. CASE q = D!Root
      <4>1. Len(q) = 1
        BY <2>4, <3>1, Zenon
      <4> QED BY <2>1, <4>1
    <3>2. ASSUME NEW m \in 1..n, q = SubSeq(path, 1, m) PROVE Len(q) <= n
      BY <2>1, <2>3, <3>2
    <3> QED BY <3>1, <3>2 DEF Reach
  <2>6. Len(f[n]) = n
    BY <2>1, <2>3
  <2> QED BY <1>2, <2>1, <2>2, <2>5, <2>6 DEF LongestOf
<1>5. CASE SubSeq(path, 1, n) \notin prefixes /\ LastSlash(path, n) = 1
  <2>1. Reach(prefixes, path, n) = {p \in prefixes : p = D!Root}
    BY <1>2, <1>5, CutKeepsReach
  <2> QED BY <1>2, <1>3, <1>5, <2>1 DEF LongestOf, OrRoot, D!Root
<1>6. CASE SubSeq(path, 1, n) \notin prefixes /\ LastSlash(path, n) # 1
  <2>1. LastSlash(path, n) - 1 \in 1..(n - 1) /\ LastSlash(path, n) - 1 \in 1..Len(path)
    BY <1>2, <1>6, CutBack
  <2>2. LastSlash(path, n) - 1 \notin Wrong
    BY <1>2, <2>1
  <2>3. Reach(prefixes, path, n) = Reach(prefixes, path, LastSlash(path, n) - 1)
    BY <1>2, <1>6, CutKeepsReach
  <2> QED BY <1>2, <1>3, <1>6, <2>1, <2>2, <2>3
<1> QED BY <1>4, <1>5, <1>6

(* What the loop finds: the longest prefix that matches, or Nobody. *)
LEMMA PrefixRight ==
  ASSUME NEW prefixes, NEW path \in Seq(STRING), Len(path) # 0, path[1] = "/"
  PROVE  LongestOf(D!LongestPrefix(prefixes, path), Reach(prefixes, path, Len(path)))
<1> DEFINE f == CHOOSE f : f = Look(prefixes, path, f)
<1>1. f = Look(prefixes, path, f)
  BY LookExists
<1>2. D!LongestPrefix(prefixes, path) = f[Len(path)]
  BY LookUnfolded
<1> HIDE DEF f
<1>3. LongestOf(f[Len(path)], Reach(prefixes, path, Len(path)))
  BY <1>1, LookRight
<1> QED BY <1>2, <1>3

LEMMA OneElement ==
  ASSUME NEW S, NEW c \in S
  PROVE  <<c>> \in Seq(S) /\ Len(<<c>>) = 1 /\ <<c>>[1] = c
OBVIOUS

GoodPath(path) == path \in Seq(STRING) /\ D!ValidHttpPath(path)

LEMMA PathFacts ==
  ASSUME NEW path, GoodPath(path)
  PROVE  path \in Seq(STRING) /\ Len(path) # 0 /\ path[1] = "/"
BY DEF GoodPath, D!ValidHttpPath

(* To match at the end of a segment is to be reached by the loop. *)
LEMMA CoversReach ==
  ASSUME NEW prefixes, NEW path, GoodPath(path), \A p \in prefixes : GoodPath(p)
  PROVE  {p \in prefixes : D!Covers(p, path)} = Reach(prefixes, path, Len(path))
<1>1. path \in Seq(STRING) /\ Len(path) # 0 /\ path[1] = "/"
  BY PathFacts
<1> SUFFICES ASSUME NEW p \in prefixes
             PROVE  D!Covers(p, path) <=>
                      \/ p = D!Root
                      \/ \E m \in 1..Len(path) :
                           p = SubSeq(path, 1, m) /\ (m = Len(path) \/ path[m + 1] = "/")
  BY DEF Reach
<1>2. p \in Seq(STRING) /\ Len(p) # 0
  BY PathFacts
<1>3. SubSeq(path, 1, Len(path)) = path
  BY <1>1
<1>4. ASSUME D!Within(p, path)
      PROVE  \E m \in 1..Len(path) :
               p = SubSeq(path, 1, m) /\ (m = Len(path) \/ path[m + 1] = "/")
  <2>1. CASE p = path
    <3>1. Len(path) \in 1..Len(path) /\ p = SubSeq(path, 1, Len(path))
      BY <1>1, <1>3, <2>1
    <3> QED BY <3>1
  <2>2. CASE p # path
    <3>1. Len(p) \in 1..Len(path) /\ path[Len(p) + 1] = "/" /\ SubSeq(path, 1, Len(p)) = p
      BY <1>1, <1>2, <1>4, <2>2 DEF D!Within
    <3> QED BY <3>1
  <2> QED BY <2>1, <2>2
<1>5. ASSUME NEW m \in 1..Len(path), p = SubSeq(path, 1, m), m = Len(path) \/ path[m + 1] = "/"
      PROVE  D!Within(p, path)
  <2>1. CASE m = Len(path)
    BY <1>3, <1>5, <2>1 DEF D!Within
  <2>2. CASE m # Len(path)
    <3>1. Len(SubSeq(path, 1, m)) = m
      BY <1>1
    <3>2. Len(p) = m
      BY <1>5, <3>1
    <3>3. Len(p) < Len(path) /\ path[Len(p) + 1] = "/" /\ SubSeq(path, 1, Len(p)) = p
      BY <1>1, <1>5, <2>2, <3>2
    <3> QED BY <3>3 DEF D!Within
  <2> QED BY <2>1, <2>2
<1> QED BY <1>4, <1>5 DEF D!Covers

(* Of the prefixes of one path, two of one length are the same. *)
LEMMA ReachUnique ==
  ASSUME NEW prefixes, NEW path, GoodPath(path),
         NEW p \in Reach(prefixes, path, Len(path)), NEW q \in Reach(prefixes, path, Len(path)),
         Len(p) = Len(q)
  PROVE  p = q
<1>1. path \in Seq(STRING) /\ Len(path) # 0 /\ path[1] = "/"
  BY PathFacts
<1>2. \A m \in 1..Len(path) : Len(SubSeq(path, 1, m)) = m
  BY <1>1
<1>3. SubSeq(path, 1, 1) = D!Root /\ 1 \in 1..Len(path)
  <2>1. /\ SubSeq(path, 1, 1) \in Seq(STRING) /\ 1 \in 1..Len(path)
        /\ Len(SubSeq(path, 1, 1)) = 1 /\ SubSeq(path, 1, 1)[1] = "/"
    BY <1>1
  <2>2. D!Root \in Seq(STRING) /\ Len(D!Root) = 1 /\ D!Root[1] = "/"
    <3>1. path[1] \in STRING
      BY <1>1
    <3> QED BY <1>1, <3>1, OneElement, Zenon DEF D!Root
  <2>3. PICK s, r : s = SubSeq(path, 1, 1) /\ r = D!Root
    OBVIOUS
  <2>4. s \in Seq(STRING) /\ r \in Seq(STRING) /\ Len(s) = Len(r) /\ \A i \in 1..Len(s) : s[i] = r[i]
    BY <2>1, <2>2, <2>3
  <2> QED BY <2>1, <2>3, <2>4, SeqEqual
<1>4. PICK m \in 1..Len(path) : p = SubSeq(path, 1, m)
  <2>1. CASE p = D!Root
    BY <1>3, <2>1
  <2> QED BY <2>1 DEF Reach
<1>5. PICK n \in 1..Len(path) : q = SubSeq(path, 1, n)
  <2>1. CASE q = D!Root
    BY <1>3, <2>1
  <2> QED BY <2>1 DEF Reach
<1>6. Len(p) = m /\ Len(q) = n
  BY <1>2, <1>4, <1>5
<1> QED BY <1>4, <1>5, <1>6

(* The prefix that is found is the one the configuration means. *)
LEMMA MostSpecificPrefix ==
  ASSUME NEW prefixes, Nobody \notin prefixes, \A p \in prefixes : GoodPath(p),
         NEW path, GoodPath(path)
  PROVE  LET covering == {p \in prefixes : D!Covers(p, path)}
             found == D!LongestPrefix(prefixes, path)
         IN {p \in covering : \A q \in covering : Len(q) <= Len(p)}
              = IF found = Nobody THEN {} ELSE {found}
<1>1. path \in Seq(STRING) /\ Len(path) # 0 /\ path[1] = "/"
  BY PathFacts
<1> DEFINE found == D!LongestPrefix(prefixes, path)
           C == Reach(prefixes, path, Len(path))
<1>2. {p \in prefixes : D!Covers(p, path)} = C
  BY CoversReach
<1>3. LongestOf(found, C)
  BY <1>1, PrefixRight
<1>4. C \subseteq prefixes
  BY DEF Reach
<1>5. \A p \in C : Len(p) \in Nat
  <2> SUFFICES ASSUME NEW p \in C PROVE Len(p) \in Nat
    OBVIOUS
  <2>1. p \in Seq(STRING)
    BY <1>4, PathFacts
  <2> QED BY <2>1
<1>6. \A p, q \in C : Len(p) = Len(q) => p = q
  BY ReachUnique
<1>7. {p \in C : \A q \in C : Len(q) <= Len(p)} = IF found = Nobody THEN {} ELSE {found}
  <2> HIDE DEF found, C
  <2>1. CASE C = {}
    BY <1>3, <2>1 DEF LongestOf
  <2>2. CASE C # {}
    <3>1. found \in C /\ found # Nobody /\ \A q \in C : Len(q) <= Len(found)
      BY <1>3, <1>4, <2>2 DEF LongestOf
    <3>2. ASSUME NEW p \in C, \A q \in C : Len(q) <= Len(p) PROVE p = found
      BY <1>5, <1>6, <3>1, <3>2
    <3> QED BY <3>1, <3>2
  <2> QED BY <2>1, <2>2
<1> QED BY <1>2, <1>7

GoodTable(t) ==
  /\ D!ValidTable(t)
  /\ \A p \in t.websocket \cup t.grpc \cup t.exact \cup t.prefixes : GoodPath(p)
  /\ Nobody \notin t.prefixes

LEMMA TablesGood == \A t \in Tables : GoodTable(t)
BY DecisionAssumed DEF D!DecisionAssumption, D!ValidTable, GoodTable, GoodPath

(* The route that is found is the one the configuration means. *)
LEMMA OwnRouteRight ==
  ASSUME NEW t, GoodTable(t), NEW path, GoodPath(path)
  PROVE  D!MostSpecific(t, path) =
           IF path \in t.websocket THEN {D!Target("websocket", path)}
           ELSE IF path \in t.grpc THEN {D!Target("grpc", path)}
           ELSE IF D!ResolveHttp(t, path) = D!NoTarget THEN {}
           ELSE {D!ResolveHttp(t, path)}
<1> DEFINE explicit == {D!Target("websocket", p) : p \in t.websocket}
                       \cup {D!Target("grpc", p) : p \in t.grpc}
                       \cup {D!Target("exact", p) : p \in t.exact}
           covering == {p \in t.prefixes : D!Covers(p, path)}
           found == D!LongestPrefix(t.prefixes, path)
           longest == {p \in covering : \A q \in covering : Len(q) <= Len(p)}
<1>1. t.websocket \cap t.grpc = {} /\ t.exact \cap (t.websocket \cup t.grpc) = {}
  BY DEF GoodTable, D!ValidTable
<1>2. longest = IF found = Nobody THEN {} ELSE {found}
  BY MostSpecificPrefix DEF GoodTable
<1>3. D!MostSpecific(t, path) =
        IF \E e \in explicit : e.path = path THEN {e \in explicit : e.path = path}
        ELSE {D!Target("prefix", p) : p \in longest}
  BY DEF D!MostSpecific
<1>4. \A e : e \in explicit /\ e.path = path <=>
              \/ path \in t.websocket /\ e = D!Target("websocket", path)
              \/ path \in t.grpc /\ e = D!Target("grpc", path)
              \/ path \in t.exact /\ e = D!Target("exact", path)
  BY DEF D!Target
<1>5. D!ResolveHttp(t, path) =
        IF path \in t.exact THEN D!Target("exact", path)
        ELSE IF found # Nobody THEN D!Target("prefix", found) ELSE D!NoTarget
  BY DEF D!ResolveHttp
<1> HIDE DEF explicit, covering, found, longest
<1>6. \A p : D!Target("exact", p) # D!NoTarget /\ D!Target("prefix", p) # D!NoTarget
  BY DEF D!Target, D!NoTarget
<1>7. CASE path \in t.websocket \cup t.grpc \cup t.exact
  <2>1. PICK e \in explicit : e.path = path
    BY <1>4, <1>7
  <2>2. D!MostSpecific(t, path) = {x \in explicit : x.path = path}
    BY <1>3, <2>1
  <2>3. CASE path \in t.websocket
    BY <1>1, <1>4, <2>2, <2>3
  <2>4. CASE path \in t.grpc
    BY <1>1, <1>4, <2>2, <2>4
  <2>5. CASE path \in t.exact
    BY <1>1, <1>4, <1>5, <1>6, <2>2, <2>5
  <2> QED BY <1>7, <2>3, <2>4, <2>5
<1>8. CASE path \notin t.websocket \cup t.grpc \cup t.exact
  <2>1. D!MostSpecific(t, path) = {D!Target("prefix", p) : p \in longest}
    BY <1>3, <1>4, <1>8
  <2> QED BY <1>2, <1>5, <1>6, <1>8, <2>1
<1> QED BY <1>7, <1>8

LEMMA RouteRight ==
  ASSUME NEW t, GoodTable(t), NEW host, NEW path, GoodPath(path)
  PROVE  D!Expected(t, host, path) =
           IF D!Resolve(t, host, path) = D!NoTarget THEN {} ELSE {D!Resolve(t, host, path)}
<1>1. \A p : /\ D!Target("websocket", p) # D!NoTarget /\ D!Target("grpc", p) # D!NoTarget
             /\ D!Target("fallback", p) # D!NoTarget
  BY DEF D!Target, D!NoTarget
<1>2. CASE host = t.host
  BY <1>1, <1>2, OwnRouteRight DEF D!Expected, D!Resolve
<1>3. CASE host # t.host
  BY <1>1, <1>3 DEF D!Expected, D!Resolve
<1> QED BY <1>2, <1>3

-----------------------------------------------------------------------------
(* The decision about a request: handle_request *)

DecisionInv ==
  /\ table \in Tables
  /\ request \in Requests \cup {Nobody}
  /\ request = Nobody => answer = Nobody
  /\ D!RoutedRight
  /\ D!OnlyOffendersBlocked

LEMMA FirstDecision == ASSUME D!Init PROVE DecisionInv
BY DEF D!Init, DecisionInv, D!RoutedRight, D!OnlyOffendersBlocked

(* The client a request goes by is its only sender, and of a route that    *)
(* only Cloudflare may use it is the one Cloudflare named.                 *)
LEMMA ClientIsSender ==
  ASSUME NEW q, NEW guarded \in BOOLEAN, D!ResolveClient(q, guarded) # Nobody
  PROVE  /\ Len(D!Sender(q)) = 1 /\ D!Sender(q)[1] = D!ResolveClient(q, guarded)
         /\ guarded => q.peer \in snapshot
BY DEF D!ResolveClient, D!Sender

(* What may become of a request, by its target and its client. *)
LEMMA DecisionFacts ==
  ASSUME NEW q, GoodPath(q.path) \/ ~D!ValidHttpPath(q.path), GoodTable(table)
  PROVE  LET expected == D!Expected(table, q.host, q.path)
             decided == D!Decide(q)
         IN /\ decided.target # D!NoTarget =>
                 /\ expected = {decided.target}
                 /\ decided.target \in table.guarded => q.peer \in snapshot
                 /\ D!Sender(q)[1] \notin blocked
                 /\ decided.charged = Nobody
            /\ decided.status = "404" => expected = {}
            /\ decided.charged # Nobody =>
                 D!BreaksRule(q) /\ Len(D!Sender(q)) = 1 /\ D!Sender(q)[1] = decided.charged
<1> DEFINE target == D!Resolve(table, q.host, q.path)
           guarded == D!CloudflareOnly(table, target)
           client == D!ResolveClient(q, guarded)
           decided == D!Decide(q)
           Silent(d) == d.target = D!NoTarget /\ d.status # "404" /\ d.charged = Nobody
<1>1. \A status : status # "404" => Silent(D!Refused(status))
  BY DEF D!Refused
<1>2. \/ Silent(decided)
      \/ decided = D!Judge(q, target, client) /\ D!ValidHttpPath(q.path) /\ client # Nobody
  BY <1>1 DEF D!Decide
<1>3. SUFFICES ASSUME decided = D!Judge(q, target, client), D!ValidHttpPath(q.path), client # Nobody,
                      ~Silent(decided)
               PROVE  /\ decided.target # D!NoTarget =>
                           /\ D!Expected(table, q.host, q.path) = {decided.target}
                           /\ decided.target \in table.guarded => q.peer \in snapshot
                           /\ D!Sender(q)[1] \notin blocked
                           /\ decided.charged = Nobody
                      /\ decided.status = "404" => D!Expected(table, q.host, q.path) = {}
                      /\ decided.charged # Nobody =>
                           D!BreaksRule(q) /\ Len(D!Sender(q)) = 1 /\ D!Sender(q)[1] = decided.charged
  BY <1>2
<1>4. D!Expected(table, q.host, q.path) = IF target = D!NoTarget THEN {} ELSE {target}
  BY <1>3, RouteRight
<1>5. Len(D!Sender(q)) = 1 /\ D!Sender(q)[1] = client /\ (guarded => q.peer \in snapshot)
  <2>1. guarded \in BOOLEAN
    BY DEF D!CloudflareOnly
  <2> HIDE DEF guarded
  <2> QED BY <1>3, <2>1, ClientIsSender
<1>6. guarded = (target \in table.guarded)
  BY DEF D!CloudflareOnly
<1> HIDE DEF target, guarded, client, decided
<1>7. PICK kinds : kinds = {t.kind : t \in D!Expected(table, q.host, q.path)}
  OBVIOUS
<1>8. kinds = IF target = D!NoTarget THEN {} ELSE {target.kind}
  BY <1>4, <1>7
<1>9. D!BreaksRule(q) <=>
        \/ q.headers = "too large" /\ kinds \cap {"websocket", "grpc"} # {}
        \/ ~(q.http2 /\ q.grpc) /\ "grpc" \in kinds
        \/ kinds = {} /\ D!Scans(table, q.path)
  BY <1>7 DEF D!BreaksRule
<1>10. D!NoTarget.kind = "none"
  BY DEF D!NoTarget, D!Target
<1>11. CASE target = D!NoTarget
  <2>1. \/ decided = D!Violation("404", client) /\ D!Scans(table, q.path)
        \/ decided = D!Refused("404")
    BY <1>1, <1>3, <1>10, <1>11 DEF D!Judge, D!GrpcStatus
  <2> QED BY <1>4, <1>5, <1>8, <1>9, <1>11, <2>1 DEF D!Violation, D!Refused
<1>12. CASE target # D!NoTarget
  <2>1. client \notin blocked
    BY <1>1, <1>3 DEF D!Judge, D!GrpcStatus
  <2>2. \/ decided = D!Violation("431", client) /\ q.headers = "too large" /\ target.kind \in {"websocket", "grpc"}
        \/ /\ decided = D!Violation(IF q.http2 THEN "4xx" ELSE "505", client)
           /\ target.kind = "grpc" /\ ~(q.http2 /\ q.grpc)
        \/ decided = D!Reaches(target)
    BY <1>1, <1>3, <1>12, <2>1 DEF D!Judge, D!GrpcStatus
  <2>3. CASE decided = D!Reaches(target)
    BY <1>4, <1>5, <1>6, <1>12, <2>1, <2>3 DEF D!Reaches
  <2>4. CASE decided = D!Violation("431", client) /\ q.headers = "too large" /\ target.kind \in {"websocket", "grpc"}
    BY <1>5, <1>8, <1>9, <1>12, <2>4 DEF D!Violation
  <2>5. CASE /\ decided = D!Violation(IF q.http2 THEN "4xx" ELSE "505", client)
             /\ target.kind = "grpc" /\ ~(q.http2 /\ q.grpc)
    BY <1>5, <1>8, <1>9, <1>12, <2>5 DEF D!Violation
  <2> QED BY <2>2, <2>3, <2>4, <2>5
<1> QED BY <1>11, <1>12

LEMMA DecisionStep == ASSUME DecisionInv, [D!Next]_decisionVars PROVE DecisionInv'
<1> USE DEF DecisionInv
<1>1. CASE D!Arrive
  <2>1. PICK q \in Requests :
          /\ request' = q /\ answer' = D!Decide(q)
          /\ blocked' \in {blocked, blocked \cup ({D!Decide(q).charged} \ {Nobody})}
          /\ offenders' = offenders \cup
               (IF D!BreaksRule(q) /\ Len(D!Sender(q)) = 1 THEN {D!Sender(q)[1]} ELSE {})
    BY <1>1 DEF D!Arrive
  <2>2. table' = table /\ snapshot' = snapshot
    BY <1>1 DEF D!Arrive
  <2>3. GoodPath(q.path) \/ ~D!ValidHttpPath(q.path)
    BY DecisionAssumed DEF D!DecisionAssumption, GoodPath
  <2>4. GoodTable(table)
    BY TablesGood
  <2> DEFINE expected == D!Expected(table, q.host, q.path)
             decided == D!Decide(q)
  <2>5. /\ decided.target # D!NoTarget =>
             /\ expected = {decided.target}
             /\ decided.target \in table.guarded => q.peer \in snapshot
             /\ D!Sender(q)[1] \notin blocked
             /\ decided.charged = Nobody
        /\ decided.status = "404" => expected = {}
        /\ decided.charged # Nobody =>
             D!BreaksRule(q) /\ Len(D!Sender(q)) = 1 /\ D!Sender(q)[1] = decided.charged
    BY <2>3, <2>4, DecisionFacts
  <2>6. D!RoutedRight'
    <3>1. D!Sender(q)' = D!Sender(q) /\ D!Expected(table, q.host, q.path)' = expected
      BY <2>2 DEF D!Sender, D!Expected, D!MostSpecific, D!Covers, D!Within, D!Target, D!Root
    <3>2. decided.charged = Nobody => blocked' = blocked
      BY <2>1
    <3> QED BY <2>1, <2>2, <2>5, <3>1, <3>2 DEF D!RoutedRight
  <2>7. D!OnlyOffendersBlocked'
    <3>1. decided.charged # Nobody => decided.charged \in offenders'
      BY <2>1, <2>5
    <3> QED BY <2>1, <3>1 DEF D!OnlyOffendersBlocked
  <2> QED BY <2>1, <2>2, <2>6, <2>7, DecisionAssumed DEF D!DecisionAssumption
<1>2. CASE D!Answer
  BY <1>2 DEF D!Answer, D!RoutedRight, D!OnlyOffendersBlocked
<1>3. CASE D!Refresh
  BY <1>3 DEF D!Refresh, D!RoutedRight, D!OnlyOffendersBlocked
<1>4. CASE D!Release
  BY <1>4 DEF D!Release, D!RoutedRight, D!OnlyOffendersBlocked
<1>5. CASE UNCHANGED decisionVars
  BY <1>5 DEF decisionVars, D!RoutedRight, D!OnlyOffendersBlocked, D!Sender
<1> QED BY <1>1, <1>2, <1>3, <1>4, <1>5 DEF D!Next

LEMMA DecisionPart == [PartsNext]_allVars => [D!Next]_decisionVars
<1> SUFFICES ASSUME [PartsNext]_allVars PROVE [D!Next]_decisionVars
  OBVIOUS
<1>1. CASE PartsNext
  BY <1>1 DEF PartsNext
<1>2. CASE UNCHANGED allVars
  BY <1>2 DEF allVars
<1> QED BY <1>1, <1>2

(* What has been decided is right of the tables and the snapshot there are.*)
THEOREM DecisionInductive == PartsSpec => []DecisionInv
<1>1. PartsInit => DecisionInv
  BY FirstDecision DEF PartsInit
<1>2. DecisionInv /\ [PartsNext]_allVars => DecisionInv'
  BY DecisionPart, DecisionStep
<1> QED BY <1>1, <1>2, PTL DEF PartsSpec

(* A request reaches the most specific route that the configuration means  *)
(* for it, whatever its routes and prefixes; the origin policy of that     *)
(* route holds, no blocked client gets there, and "not found" is said only *)
(* where there is nothing: handle_request and the loop of                  *)
(* HttpRouteTable::resolve.                                                *)
THEOREM RequestsRoutedRight == PartsSpec => []RoutedRight
<1>1. DecisionInv => RoutedRight
  BY DEF DecisionInv, RoutedRight
<1> QED BY <1>1, DecisionInductive, PTL

(* No client is blocked for what another sent, whatever a proxy or a       *)
(* client claims about itself: resolve_client_address.                     *)
THEOREM OffendersOnly == PartsSpec => []OnlyOffendersBlocked
<1>1. DecisionInv => OnlyOffendersBlocked
  BY DEF DecisionInv, OnlyOffendersBlocked
<1> QED BY <1>1, DecisionInductive, PTL

-----------------------------------------------------------------------------
(* The messages: what is collected *)

(* The sequence of a message that is open is the one its frames carried.   *)
CollectInv ==
  /\ M!TypeOK /\ M!DeliversWhole
  /\ fragments \in Seq(M!Bytes) /\ said.payload \in Seq(M!Bytes)

LEMMA FirstMessage == ASSUME M!Init PROVE CollectInv
BY MessagesAssumed DEF M!MessageAssumption, M!Init, CollectInv, M!TypeOK, M!DeliversWhole, M!NoMessage

(* What is left of a frame is a cut character, if it is anything. *)
LEMMA TailsAreCut ==
  ASSUME NEW tail, NEW data, NEW fin, M!Utf8(tail, data, fin) # M!NotText
  PROVE  M!Utf8(tail, data, fin) \in M!Beginnings \cup {<<>>}
<1>1. ASSUME NEW s, M!Incomplete(s) PROVE M!Suffix(s) \in M!Beginnings
  BY <1>1 DEF M!Incomplete, M!Suffix, M!Cut
<1>2. ASSUME NEW s, M!Checked(s, fin) # M!NotText PROVE M!Checked(s, fin) \in M!Beginnings \cup {<<>>}
  BY <1>1, <1>2 DEF M!Checked
<1> QED BY <1>2 DEF M!Utf8

LEMMA RefusedMessage ==
  ASSUME CollectInv,
         NEW error \in {"FrameTooLarge", "InvalidUTF8", "InvalidFragment", "InvalidContinuationFrame"},
         M!Refuse(error), said'.payload \in Seq(M!Bytes)
  PROVE  CollectInv'
BY DEF CollectInv, M!TypeOK, M!DeliversWhole, M!Refuse, M!NoMessage

(* A frame that continues what is collected, or begins it. *)
LEMMA AcceptedMessage ==
  ASSUME CollectInv, NEW kind \in {"Text", "Binary"}, NEW tail \in M!Beginnings \cup {<<>>},
         NEW payload \in Seq(M!Bytes), NEW fin \in BOOLEAN,
         M!Accept(kind, bytes, tail, payload, fin), M!Said(kind, fragments \o payload, fin)
  PROVE  CollectInv'
<1>1. fragments \o payload \in Seq(M!Bytes) /\ Len(fragments \o payload) = Len(fragments) + Len(payload)
  BY DEF CollectInv
<1>2. said'.payload = fragments \o payload /\ said'.kind = kind /\ said'.fin = fin
  BY DEF M!Said
<1> DEFINE newTail == IF kind = "Text" THEN M!Utf8(tail, payload, fin) ELSE tail
<1>3. CASE \E error \in {"FrameTooLarge", "InvalidUTF8"} : M!Refuse(error)
  BY <1>1, <1>2, <1>3, RefusedMessage
<1>4. CASE /\ bytes + Len(payload) <= Maximum /\ newTail # M!NotText
           /\ utf8_tail' = newTail /\ UNCHANGED verdict
           /\ opcode' = IF fin THEN "none" ELSE kind
           /\ bytes' = IF fin THEN 0 ELSE bytes + Len(payload)
           /\ M!Collected(kind, payload, fin)
  <2>1. newTail \in M!Beginnings \cup {<<>>}
    BY <1>4, TailsAreCut
  <2>2. fragments' = IF fin THEN <<>> ELSE fragments \o payload
    BY <1>4 DEF M!Collected
  <2>3. fragments' \in Seq(M!Bytes) /\ bytes' = Len(fragments')
    BY <1>1, <1>4, <2>2 DEF CollectInv, M!TypeOK
  <2>4. M!TypeOK'
    BY <1>4, <2>1, <2>3, MessagesAssumed DEF CollectInv, M!TypeOK, M!MessageAssumption
  <2>5. out' = IF fin THEN [opcode |-> kind, payload |-> fragments \o payload] ELSE M!NoMessage
    BY <1>4 DEF M!Collected
  <2>6. M!DeliversWhole'
    BY <1>2, <1>4, <2>2, <2>5 DEF M!DeliversWhole, M!NoMessage
  <2> QED BY <1>1, <1>2, <2>3, <2>4, <2>6 DEF CollectInv
<1> QED BY <1>3, <1>4 DEF M!Accept

LEMMA CollectStep == ASSUME CollectInv, [M!Next]_messageVars PROVE CollectInv'
<1>1. CASE UNCHANGED messageVars
  BY <1>1 DEF messageVars, CollectInv, M!TypeOK, M!DeliversWhole
<1>2. ASSUME NEW payload \in Payloads, M!Control(payload) PROVE CollectInv'
  <2>1. CASE M!Refuse("FrameTooLarge")
    BY <1>2, <2>1, RefusedMessage DEF M!Control, CollectInv
  <2>2. CASE out' = M!ControlFrame /\ UNCHANGED <<opcode, bytes, utf8_tail, fragments, verdict>>
    BY <1>2, <2>2 DEF M!Control, M!ControlFrame, CollectInv, M!TypeOK, M!DeliversWhole
  <2> QED BY <1>2, <2>1, <2>2 DEF M!Control
<1>3. ASSUME NEW payload \in Payloads, NEW fin \in BOOLEAN, M!Continue(payload, fin) PROVE CollectInv'
  <2>1. CASE M!Refuse("InvalidContinuationFrame") /\ UNCHANGED said
    BY <2>1, RefusedMessage DEF CollectInv
  <2>2. CASE /\ opcode # "none" /\ M!Said(opcode, said.payload \o payload, fin)
             /\ M!Accept(opcode, bytes, utf8_tail, payload, fin)
    <3>1. fragments = said.payload /\ opcode \in {"Text", "Binary"} /\ utf8_tail \in M!Beginnings \cup {<<>>}
      BY <1>3, <2>2 DEF M!Continue, CollectInv, M!DeliversWhole, M!TypeOK
    <3>2. payload \in Seq(M!Bytes)
      BY MessagesAssumed DEF M!MessageAssumption
    <3> QED BY <2>2, <3>1, <3>2, AcceptedMessage
  <2> QED BY <1>3, <2>1, <2>2 DEF M!Continue
<1>4. ASSUME NEW payload \in Payloads, NEW fin \in BOOLEAN, NEW kind \in {"Text", "Binary"},
             M!Begin(kind, payload, fin)
      PROVE  CollectInv'
  <2>1. CASE M!Refuse("InvalidFragment") /\ UNCHANGED said
    BY <2>1, RefusedMessage DEF CollectInv
  <2>2. CASE opcode = "none" /\ M!Said(kind, payload, fin) /\ M!Accept(kind, 0, <<>>, payload, fin)
    <3>1. payload \in Seq(M!Bytes)
      BY MessagesAssumed DEF M!MessageAssumption
    <3>2. bytes = 0 /\ fragments = <<>>
      BY <2>2 DEF CollectInv, M!TypeOK
    <3>3. fragments \o payload = payload
      BY <3>1, <3>2
    <3> QED BY <2>2, <3>1, <3>2, <3>3, AcceptedMessage
  <2> QED BY <1>4, <2>1, <2>2 DEF M!Begin
<1> QED BY <1>1, <1>2, <1>3, <1>4 DEF M!Next

LEMMA MessagePart == [PartsNext]_allVars => [M!Next]_messageVars
<1> SUFFICES ASSUME [PartsNext]_allVars PROVE [M!Next]_messageVars
  OBVIOUS
<1>1. CASE PartsNext
  BY <1>1 DEF PartsNext
<1>2. CASE UNCHANGED allVars
  BY <1>2 DEF allVars
<1> QED BY <1>1, <1>2

(* validate and collect keep accounts that agree.                          *)
THEOREM MessagesInductive == PartsSpec => []CollectInv
<1>1. PartsInit => CollectInv
  BY FirstMessage DEF PartsInit
<1>2. CollectInv /\ [PartsNext]_allVars => CollectInv'
  BY MessagePart, CollectStep
<1> QED BY <1>1, <1>2, PTL DEF PartsSpec

(* A data message is delivered once its last fragment has come, with every *)
(* byte of every fragment, whatever control frames came between: validate  *)
(* and collect.                                                            *)
THEOREM DeliveredWhole == PartsSpec => []DeliversWhole
<1>1. CollectInv => DeliversWhole
  BY DEF CollectInv, DeliversWhole
<1> QED BY <1>1, MessagesInductive, PTL

-----------------------------------------------------------------------------
(* UTF-8 by positions: what of a sequence is a character, what only begins *)
(* one, and what is characters from end to end                             *)

CharacterAt(s, i, n) ==
  \/ n = 1 /\ s[i + 1] = "ascii"
  \/ n = 2 /\ s[i + 1] = "lead2" /\ s[i + 2] \in M!Continuations
  \/ n = 3 /\ s[i + 1] = "lead3" /\ s[i + 2] \in M!Continuations /\ s[i + 3] \in M!Continuations
  \/ n = 3 /\ s[i + 1] = "lead3high" /\ s[i + 2] = "high" /\ s[i + 3] \in M!Continuations
  \/ n = 4 /\ s[i + 1] = "lead4" /\ \A k \in 2..4 : s[i + k] \in M!Continuations

BeginningAt(s, i, j) ==
  \/ j = i + 1 /\ s[i + 1] \in {"lead2", "lead3", "lead3high", "lead4"}
  \/ j = i + 2 /\ s[i + 1] \in {"lead3", "lead4"} /\ s[i + 2] \in M!Continuations
  \/ j = i + 2 /\ s[i + 1] = "lead3high" /\ s[i + 2] = "high"
  \/ j = i + 3 /\ s[i + 1] = "lead4" /\ s[i + 2] \in M!Continuations /\ s[i + 3] \in M!Continuations

(* From i to j, by the places C where characters end and begin. *)
Parses(s, C, i, j) ==
  /\ C \subseteq i..j /\ i \in C /\ j \in C
  /\ \A c \in C \ {j} : \E n \in 1..4 : c + n \in C /\ CharacterAt(s, c, n)
Whole(s, i, j) == \E C : Parses(s, C, i, j)
CutFrom(s, i, j) == \E k \in i..(j - 1) : Whole(s, i, k) /\ BeginningAt(s, k, j)

(* The first byte tells how long a character is, and a beginning is       *)
(* shorter than that.                                                      *)
LEMMA OneLength ==
  ASSUME NEW s, NEW i \in Nat, NEW n, CharacterAt(s, i, n)
  PROVE  /\ n \in 1..4
         /\ \A m : CharacterAt(s, i, m) => m = n
         /\ \A j \in Nat : BeginningAt(s, i, j) => j \in (i + 1)..(i + n - 1)
         /\ n # 1 => n = M!Width(s[i + 1])
BY DEF CharacterAt, BeginningAt, M!Width

LEMMA WholeFacts ==
  ASSUME NEW s, NEW i \in Nat, NEW j \in Nat, i <= j
  PROVE  /\ Whole(s, i, i)
         /\ Whole(s, i, j) /\ i # j =>
              \E n \in 1..4 : i + n <= j /\ CharacterAt(s, i, n) /\ Whole(s, i + n, j)
         /\ \A n \in 1..4 : i + n <= j /\ CharacterAt(s, i, n) /\ Whole(s, i + n, j) => Whole(s, i, j)
<1>1. Whole(s, i, i)
  <2>1. Parses(s, {i}, i, i)
    BY DEF Parses
  <2> QED BY <2>1 DEF Whole
<1>2. ASSUME Whole(s, i, j), i # j
      PROVE  \E n \in 1..4 : i + n <= j /\ CharacterAt(s, i, n) /\ Whole(s, i + n, j)
  <2>1. PICK C : Parses(s, C, i, j)
    BY <1>2 DEF Whole
  <2>2. PICK n \in 1..4 : i + n \in C /\ CharacterAt(s, i, n)
    BY <1>2, <2>1 DEF Parses
  <2>3. Parses(s, C \cap ((i + n)..j), i + n, j)
    <3> SUFFICES ASSUME NEW c \in (C \cap ((i + n)..j)) \ {j}
                 PROVE  \E m \in 1..4 : c + m \in C \cap ((i + n)..j) /\ CharacterAt(s, c, m)
      BY <2>1, <2>2 DEF Parses
    <3>1. PICK m \in 1..4 : c + m \in C /\ CharacterAt(s, c, m)
      BY <2>1 DEF Parses
    <3> QED BY <2>1, <3>1 DEF Parses
  <2>4. i + n <= j
    BY <2>1, <2>2 DEF Parses
  <2> QED BY <2>2, <2>3, <2>4 DEF Whole
<1>3. ASSUME NEW n \in 1..4, i + n <= j, CharacterAt(s, i, n), Whole(s, i + n, j)
      PROVE  Whole(s, i, j)
  <2>1. PICK C : Parses(s, C, i + n, j)
    BY <1>3 DEF Whole
  <2>2. Parses(s, C \cup {i}, i, j)
    <3>1. C \cup {i} \subseteq i..j /\ i \in C \cup {i} /\ j \in C \cup {i} /\ i + n \in C
      BY <1>3, <2>1 DEF Parses
    <3>2. ASSUME NEW c \in (C \cup {i}) \ {j}
          PROVE  \E m \in 1..4 : c + m \in C \cup {i} /\ CharacterAt(s, c, m)
      <4>1. CASE c = i
        BY <1>3, <3>1, <4>1
      <4>2. CASE c # i
        <5>1. c \in C \ {j}
          BY <4>2
        <5> QED BY <2>1, <5>1 DEF Parses
      <4> QED BY <4>1, <4>2
    <3> QED BY <3>1, <3>2 DEF Parses
  <2> QED BY <2>2 DEF Whole
<1> QED BY <1>1, <1>2, <1>3

(* Characters after characters are characters. *)
LEMMA WholeJoins ==
  ASSUME NEW s, NEW i \in Nat, NEW j \in Nat, NEW k \in Nat, i <= j, j <= k,
         Whole(s, i, j), Whole(s, j, k)
  PROVE  Whole(s, i, k)
<1>1. PICK B : Parses(s, B, i, j)
  BY DEF Whole
<1>2. PICK C : Parses(s, C, j, k)
  BY DEF Whole
<1>3. Parses(s, B \cup C, i, k)
  <2>1. B \cup C \subseteq i..k /\ i \in B \cup C /\ k \in B \cup C
    BY <1>1, <1>2 DEF Parses
  <2>2. ASSUME NEW c \in (B \cup C) \ {k}
        PROVE  \E n \in 1..4 : c + n \in B \cup C /\ CharacterAt(s, c, n)
    <3>1. CASE c \in C
      BY <1>2, <3>1 DEF Parses
    <3>2. CASE c \notin C
      <4>1. c \in B \ {j}
        BY <1>2, <3>2 DEF Parses
      <4> QED BY <1>1, <4>1 DEF Parses
    <3> QED BY <3>1, <3>2
  <2> QED BY <2>1, <2>2 DEF Parses
<1> QED BY <1>3 DEF Whole

(* There is one way to read characters: two readings from one place go     *)
(* through the same places.                                                *)
LEMMA WholeSplits ==
  ASSUME NEW s, NEW i \in Nat, NEW j \in Nat, NEW k \in Nat, i <= j, j <= k,
         Whole(s, i, j), Whole(s, i, k)
  PROVE  Whole(s, j, k)
<1>1. PICK B : Parses(s, B, i, j)
  BY DEF Whole
<1>2. PICK C : Parses(s, C, i, k)
  BY DEF Whole
<1> DEFINE Left == {d \in 0..j : j - d \in B \cap C}
<1>3. PICK d \in Left : \A e \in Left : d <= e
  <2>1. Left \in SUBSET Nat /\ j - i \in Left
    BY <1>1, <1>2 DEF Parses
  <2> HIDE DEF Left
  <2> QED BY <2>1, LeastNumber
<1>4. j \in C
  <2>1. CASE d = 0
    BY <1>3, <2>1
  <2>2. CASE d # 0
    <3>1. j - d \in B \ {j} /\ j - d \in C \ {k} /\ j - d \in Nat
      BY <1>3, <2>2
    <3>2. PICK n \in 1..4 : j - d + n \in B /\ CharacterAt(s, j - d, n)
      BY <1>1, <3>1 DEF Parses
    <3>3. PICK m \in 1..4 : j - d + m \in C /\ CharacterAt(s, j - d, m)
      BY <1>2, <3>1 DEF Parses
    <3>4. m = n
      BY <3>1, <3>2, <3>3, OneLength
    <3>5. j - d + n \in i..j
      BY <1>1, <3>2 DEF Parses
    <3>6. d - n \in Left
      BY <1>3, <3>2, <3>3, <3>4, <3>5
    <3> QED BY <1>3, <3>6
  <2> QED BY <2>1, <2>2
<1>5. Parses(s, C \cap (j..k), j, k)
  <2> SUFFICES ASSUME NEW c \in (C \cap (j..k)) \ {k}
               PROVE  \E n \in 1..4 : c + n \in C \cap (j..k) /\ CharacterAt(s, c, n)
    BY <1>2, <1>4 DEF Parses
  <2>1. PICK n \in 1..4 : c + n \in C /\ CharacterAt(s, c, n)
    BY <1>2 DEF Parses
  <2> QED BY <1>2, <2>1 DEF Parses
<1> QED BY <1>5 DEF Whole

(* The slice of s from a + 1 to b. *)
Slice(t, s, a, b) ==
  /\ a \in Nat /\ b \in Nat /\ a <= b
  /\ \A k \in 1..(b - a) : t[k] = s[a + k]

LEMMA SliceBytes ==
  ASSUME NEW s, NEW t, NEW a, NEW b, Slice(t, s, a, b), NEW i \in 0..(b - a)
  PROVE  /\ \A n \in 1..4 : i + n <= b - a => (CharacterAt(t, i, n) <=> CharacterAt(s, a + i, n))
         /\ \A j \in i..(b - a) : BeginningAt(t, i, j) <=> BeginningAt(s, a + i, a + j)
<1>1. \A k \in 1..4 : i + k <= b - a => t[i + k] = s[(a + i) + k]
  BY DEF Slice
<1> DEFINE x == a + i
<1>2. x \in Nat /\ a \in Nat /\ b \in Nat
  BY DEF Slice
<1>3. ASSUME NEW n \in 1..4, i + n <= b - a PROVE CharacterAt(t, i, n) <=> CharacterAt(s, x, n)
  <2>1. \A k \in 1..n : t[i + k] = s[x + k]
    BY <1>1, <1>2, <1>3
  <2> HIDE DEF x
  <2> QED BY <1>2, <2>1 DEF CharacterAt
<1>4. ASSUME NEW j \in i..(b - a) PROVE BeginningAt(t, i, j) <=> BeginningAt(s, x, a + j)
  <2>1. \A m \in 1..3 : j = i + m <=> a + j = x + m
    BY <1>2
  <2>2. \A k \in 1..4 : i + k <= j => t[i + k] = s[x + k]
    BY <1>1, <1>2
  <2> HIDE DEF x
  <2> QED BY <1>2, <2>1, <2>2 DEF BeginningAt
<1> QED BY <1>3, <1>4

LEMMA SliceWhole ==
  ASSUME NEW s, NEW t, NEW a, NEW b, Slice(t, s, a, b),
         NEW i \in 0..(b - a), NEW j \in i..(b - a)
  PROVE  Whole(t, i, j) <=> Whole(s, a + i, a + j)
<1>1. a \in Nat /\ b \in Nat /\ i \in Nat /\ j \in Nat /\ j <= b - a
  BY DEF Slice
<1>2. ASSUME NEW C, Parses(t, C, i, j) PROVE Parses(s, {a + c : c \in C}, a + i, a + j)
  <2> DEFINE D2 == {a + c : c \in C}
  <2>1. C \subseteq i..j /\ i \in C /\ j \in C
    BY <1>2 DEF Parses
  <2>2. D2 \subseteq (a + i)..(a + j) /\ a + i \in D2 /\ a + j \in D2
    BY <1>1, <2>1
  <2>3. ASSUME NEW d \in D2 \ {a + j} PROVE \E n \in 1..4 : d + n \in D2 /\ CharacterAt(s, d, n)
    <3>1. PICK c \in C \ {j} : d = a + c
      BY <1>1, <2>1
    <3>2. PICK n \in 1..4 : c + n \in C /\ CharacterAt(t, c, n)
      BY <1>2, <3>1 DEF Parses
    <3>3. c \in 0..(b - a) /\ c + n <= b - a
      BY <1>1, <2>1, <3>1, <3>2
    <3>4. CharacterAt(s, a + c, n)
      BY <3>2, <3>3, SliceBytes
    <3>5. d + n = a + (c + n)
      BY <1>1, <2>1, <3>1
    <3>6. d + n \in D2
      BY <3>2, <3>5
    <3> QED BY <3>1, <3>4, <3>6
  <2> QED BY <2>2, <2>3 DEF Parses
<1>3. ASSUME NEW C, Parses(s, C, a + i, a + j) PROVE Parses(t, {c - a : c \in C}, i, j)
  <2> DEFINE D2 == {c - a : c \in C}
  <2>1. C \subseteq (a + i)..(a + j) /\ a + i \in C /\ a + j \in C
    BY <1>3 DEF Parses
  <2>2. D2 \subseteq i..j
    BY <1>1, <2>1
  <2>3. (a + i) - a = i /\ (a + j) - a = j
    BY <1>1
  <2>4. i \in D2 /\ j \in D2
    BY <2>1, <2>3
  <2>5. ASSUME NEW d \in D2 \ {j} PROVE \E n \in 1..4 : d + n \in D2 /\ CharacterAt(t, d, n)
    <3>1. PICK c \in C : d = c - a
      OBVIOUS
    <3>2. c # a + j /\ c \in Nat /\ c = a + d /\ d \in 0..(b - a)
      BY <1>1, <2>1, <2>2, <3>1
    <3>3. PICK n \in 1..4 : c + n \in C /\ CharacterAt(s, c, n)
      BY <1>3, <3>2 DEF Parses
    <3>4. d + n <= b - a
      BY <1>1, <2>1, <3>2, <3>3
    <3>5. CharacterAt(t, d, n)
      BY <3>2, <3>3, <3>4, SliceBytes
    <3>6. d + n = (c + n) - a
      BY <1>1, <3>2
    <3> QED BY <3>3, <3>5, <3>6
  <2> QED BY <2>2, <2>4, <2>5 DEF Parses
<1> QED BY <1>2, <1>3 DEF Whole

LEMMA SliceCut ==
  ASSUME NEW s, NEW t, NEW a, NEW b, Slice(t, s, a, b)
  PROVE  CutFrom(t, 0, b - a) <=> CutFrom(s, a, b)
<1>1. a \in Nat /\ b \in Nat /\ a <= b /\ a + 0 = a /\ a + (b - a) = b /\ 0 \in 0..(b - a)
  BY DEF Slice
<1>2. \A k \in 0..(b - a) : (Whole(t, 0, k) <=> Whole(s, a, a + k)) /\ (BeginningAt(t, k, b - a) <=> BeginningAt(s, a + k, b))
  <2> SUFFICES ASSUME NEW k \in 0..(b - a)
               PROVE  (Whole(t, 0, k) <=> Whole(s, a, a + k)) /\ (BeginningAt(t, k, b - a) <=> BeginningAt(s, a + k, b))
    OBVIOUS
  <2>1. Whole(t, 0, k) <=> Whole(s, a + 0, a + k)
    BY <1>1, SliceWhole
  <2>2. b - a \in k..(b - a)
    BY <1>1
  <2>3. BeginningAt(t, k, b - a) <=> BeginningAt(s, a + k, a + (b - a))
    BY <2>2, SliceBytes
  <2> QED BY <1>1, <2>1, <2>3
<1>3. ASSUME NEW k \in 0..((b - a) - 1) PROVE k \in 0..(b - a) /\ a + k \in a..(b - 1)
  BY <1>1
<1>4. ASSUME NEW k \in a..(b - 1) PROVE k - a \in 0..(b - a) /\ k - a \in 0..((b - a) - 1) /\ a + (k - a) = k
  BY <1>1
<1> QED BY <1>2, <1>3, <1>4 DEF CutFrom

LEMMA SubSeqSlice ==
  ASSUME NEW S, NEW s \in Seq(S), NEW a \in 0..Len(s), NEW b \in a..Len(s)
  PROVE  /\ SubSeq(s, a + 1, b) \in Seq(S) /\ Len(SubSeq(s, a + 1, b)) = b - a
         /\ Slice(SubSeq(s, a + 1, b), s, a, b)
<1>1. SubSeq(s, a + 1, b) \in Seq(S) /\ Len(SubSeq(s, a + 1, b)) = b - a
  OBVIOUS
<1>2. \A k \in 1..(b - a) : SubSeq(s, a + 1, b)[k] = s[a + k]
  OBVIOUS
<1> QED BY <1>1, <1>2 DEF Slice

LEMMA Extensional ==
  ASSUME NEW S, NEW c \in Seq(S)
  PROVE  /\ Len(c) = 1 => c = <<c[1]>>
         /\ Len(c) = 2 => c = <<c[1], c[2]>>
         /\ Len(c) = 3 => c = <<c[1], c[2], c[3]>>
         /\ Len(c) = 4 => c = <<c[1], c[2], c[3], c[4]>>
OBVIOUS

LEMMA Tuples ==
  ASSUME NEW S, NEW w \in S, NEW x \in S, NEW y \in S, NEW z \in S
  PROVE  /\ <<w>> \in Seq(S) /\ Len(<<w>>) = 1 /\ <<w>>[1] = w
         /\ <<w, x>> \in Seq(S) /\ Len(<<w, x>>) = 2 /\ <<w, x>>[1] = w /\ <<w, x>>[2] = x
         /\ <<w, x, y>> \in Seq(S) /\ Len(<<w, x, y>>) = 3
         /\ <<w, x, y>>[1] = w /\ <<w, x, y>>[2] = x /\ <<w, x, y>>[3] = y
         /\ <<w, x, y, z>> \in Seq(S) /\ Len(<<w, x, y, z>>) = 4
         /\ <<w, x, y, z>>[1] = w /\ <<w, x, y, z>>[2] = x /\ <<w, x, y, z>>[3] = y /\ <<w, x, y, z>>[4] = z
OBVIOUS

LEMMA CharactersAt ==
  \A c : c \in M!Characters <=> c \in Seq(M!Bytes) /\ CharacterAt(c, 0, Len(c))
<1> USE DEF M!Continuations
<1>1. ASSUME NEW c \in M!Characters PROVE c \in Seq(M!Bytes) /\ CharacterAt(c, 0, Len(c))
  <2> DEFINE B == M!Bytes
  <2>1. {"ascii", "lead2", "lead3", "lead3high", "lead4", "low", "high"} \subseteq B
    BY DEF M!Bytes
  <2> HIDE DEF B
  <2>2. CASE c = <<"ascii">>
    <3>1. c \in Seq(B) /\ Len(c) = 1 /\ c[1] = "ascii"
      BY <2>1, <2>2, OneElement
    <3> QED BY <3>1 DEF CharacterAt, B
  <2>3. ASSUME NEW x \in M!Continuations, c = <<"lead2", x>> PROVE c \in Seq(B) /\ CharacterAt(c, 0, Len(c))
    BY <2>1, <2>3, Tuples DEF CharacterAt
  <2>4. ASSUME NEW x \in M!Continuations, NEW y \in M!Continuations, c = <<"lead3", x, y>>
        PROVE  c \in Seq(B) /\ CharacterAt(c, 0, Len(c))
    BY <2>1, <2>4, Tuples DEF CharacterAt
  <2>5. ASSUME NEW y \in M!Continuations, c = <<"lead3high", "high", y>>
        PROVE  c \in Seq(B) /\ CharacterAt(c, 0, Len(c))
    BY <2>1, <2>5, Tuples DEF CharacterAt
  <2>6. ASSUME NEW x \in M!Continuations, NEW y \in M!Continuations, NEW z \in M!Continuations,
               c = <<"lead4", x, y, z>>
        PROVE  c \in Seq(B) /\ CharacterAt(c, 0, Len(c))
    BY <2>1, <2>6, Tuples DEF CharacterAt
  <2> QED BY <2>2, <2>3, <2>4, <2>5, <2>6 DEF M!Characters, B
<1>2. ASSUME NEW c \in Seq(M!Bytes), CharacterAt(c, 0, Len(c)) PROVE c \in M!Characters
  <2>1. CASE Len(c) = 1 /\ c[1] = "ascii"
    BY <2>1, Extensional DEF M!Characters
  <2>2. CASE Len(c) = 2 /\ c[1] = "lead2" /\ c[2] \in M!Continuations
    BY <2>2, Extensional DEF M!Characters
  <2>3. CASE Len(c) = 3 /\ c[1] = "lead3" /\ c[2] \in M!Continuations /\ c[3] \in M!Continuations
    BY <2>3, Extensional DEF M!Characters
  <2>4. CASE Len(c) = 3 /\ c[1] = "lead3high" /\ c[2] = "high" /\ c[3] \in M!Continuations
    BY <2>4, Extensional DEF M!Characters
  <2>5. CASE Len(c) = 4 /\ c[1] = "lead4" /\ \A k \in 2..4 : c[k] \in M!Continuations
    <3>1. c = <<c[1], c[2], c[3], c[4]>> /\ c[2] \in M!Continuations /\ c[3] \in M!Continuations /\ c[4] \in M!Continuations
      BY <2>5, Extensional
    <3> QED BY <2>5, <3>1 DEF M!Characters
  <2> QED BY <1>2, <2>1, <2>2, <2>3, <2>4, <2>5 DEF CharacterAt
<1> QED BY <1>1, <1>2

LEMMA BeginningsAt ==
  \A x : x \in M!Beginnings <=> x \in Seq(M!Bytes) /\ BeginningAt(x, 0, Len(x))
<1>1. ASSUME NEW x \in M!Beginnings PROVE x \in Seq(M!Bytes) /\ BeginningAt(x, 0, Len(x))
  <2>1. PICK c \in M!Characters : \E n \in 1..(Len(c) - 1) : x = SubSeq(c, 1, n)
    BY DEF M!Beginnings
  <2> PICK n \in 1..(Len(c) - 1) : x = SubSeq(c, 1, n)
    BY <2>1
  <2>2. c \in Seq(M!Bytes) /\ CharacterAt(c, 0, Len(c))
    BY CharactersAt
  <2>3. x \in Seq(M!Bytes) /\ Len(x) = n /\ \A k \in 1..n : x[k] = c[k]
    BY <2>1, <2>2
  <2>4. Len(c) \in 2..4
    <3>1. Len(c) \in 1..4
      BY <2>2, OneLength
    <3>2. PICK m : m = Len(c)
      OBVIOUS
    <3>3. m \in 1..4 /\ n \in 1..(m - 1)
      BY <3>1, <3>2
    <3>4. m \in 2..4
      BY <3>3
    <3> QED BY <3>2, <3>4
  <2>5. BeginningAt(x, 0, n)
    BY <2>1, <2>2, <2>3, <2>4 DEF BeginningAt, CharacterAt
  <2> QED BY <2>3, <2>5
<1>2. ASSUME NEW x \in Seq(M!Bytes), BeginningAt(x, 0, Len(x)) PROVE x \in M!Beginnings
  <2> DEFINE width == IF x[1] = "lead2" THEN 2 ELSE IF x[1] = "lead4" THEN 4 ELSE 3
             c == [k \in 1..width |-> IF k <= Len(x) THEN x[k] ELSE "high"]
  <2>1. width \in 2..4 /\ Len(x) \in 1..(width - 1)
    <3>1. \/ Len(x) = 1 /\ x[1] \in {"lead2", "lead3", "lead3high", "lead4"}
          \/ Len(x) = 2 /\ x[1] \in {"lead3", "lead3high", "lead4"}
          \/ Len(x) = 3 /\ x[1] = "lead4"
      BY <1>2 DEF BeginningAt
    <3>2. CASE Len(x) = 1 /\ x[1] \in {"lead2", "lead3", "lead3high", "lead4"}
      <4>1. width \in 2..4
        OBVIOUS
      <4> HIDE DEF width
      <4> QED BY <3>2, <4>1
    <3>3. CASE Len(x) = 2 /\ x[1] \in {"lead3", "lead3high", "lead4"}
      <4>1. width \in 3..4
        BY <3>3
      <4> HIDE DEF width
      <4> QED BY <3>3, <4>1
    <3>4. CASE Len(x) = 3 /\ x[1] = "lead4"
      <4>1. width = 4
        BY <3>4
      <4> HIDE DEF width
      <4> QED BY <3>4, <4>1
    <3> QED BY <3>1, <3>2, <3>3, <3>4
  <2>2. c \in Seq(M!Bytes) /\ Len(c) = width
    <3>1. "high" \in M!Bytes
      BY DEF M!Bytes
    <3>2. \A k \in 1..width : c[k] \in M!Bytes
      BY <3>1
    <3> HIDE DEF width
    <3> QED BY <2>1, <3>2
  <2>3. \A k \in 1..width : c[k] = IF k <= Len(x) THEN x[k] ELSE "high"
    OBVIOUS
  <2> HIDE DEF c
  <2>4. CharacterAt(c, 0, width)
    BY <1>2, <2>1, <2>3 DEF BeginningAt, CharacterAt, M!Continuations
  <2>5. c \in M!Characters
    BY <2>2, <2>4, CharactersAt
  <2> HIDE DEF width
  <2>6. SubSeq(c, 1, Len(x)) = x
    <3>1. SubSeq(c, 1, Len(x)) \in Seq(M!Bytes) /\ Len(SubSeq(c, 1, Len(x))) = Len(x)
          /\ \A k \in 1..Len(x) : SubSeq(c, 1, Len(x))[k] = x[k]
      BY <2>1, <2>2, <2>3
    <3> QED BY <3>1, SeqEqual
  <2>7. Len(x) \in 1..(Len(c) - 1)
    BY <2>1, <2>2
  <2>8. x \in {SubSeq(c, 1, n) : n \in 1..(Len(c) - 1)}
    BY <2>6, <2>7
  <2> QED BY <2>5, <2>8, Zenon DEF M!Beginnings
<1> QED BY <1>1, <1>2

(* Text is what its recursion says, which has one solution. *)
Reads(f, s) ==
  \/ s = <<>>
  \/ \E n \in 1..M!Least(4, Len(s)) : SubSeq(s, 1, n) \in M!Characters /\ f[M!From(s, n + 1)]
ReadBy(f) == [s \in Seq(M!Bytes) |-> Reads(f, s)]

LEMMA TextUnfolded == M!Text = CHOOSE f : f = ReadBy(f)
BY Zenon DEF M!Text, ReadBy, Reads

(* One character, and the rest. *)
LEMMA FirstCharacter ==
  ASSUME NEW s \in Seq(M!Bytes), NEW n \in 1..Len(s)
  PROVE  /\ M!From(s, n + 1) \in Seq(M!Bytes) /\ Len(M!From(s, n + 1)) = Len(s) - n
         /\ Whole(M!From(s, n + 1), 0, Len(s) - n) <=> Whole(s, n, Len(s))
         /\ SubSeq(s, 1, n) \in M!Characters <=> CharacterAt(s, 0, n)
<1> DEFINE l == Len(s)
           rest == SubSeq(s, n + 1, l)
           first == SubSeq(s, 0 + 1, n)
<1>1. rest \in Seq(M!Bytes) /\ Len(rest) = l - n /\ Slice(rest, s, n, l)
  BY SubSeqSlice
<1>2. Whole(rest, 0, l - n) <=> Whole(s, n, l)
  <2>1. 0 \in 0..(l - n) /\ l - n \in 0..(l - n) /\ n + 0 = n /\ n + (l - n) = l
    OBVIOUS
  <2> HIDE DEF rest, l
  <2>2. Whole(rest, 0, l - n) <=> Whole(s, n + 0, n + (l - n))
    BY <1>1, <2>1, SliceWhole
  <2> QED BY <2>1, <2>2
<1>3. first \in Seq(M!Bytes) /\ Len(first) = n - 0 /\ Slice(first, s, 0, n)
  <2>1. 0 \in 0..Len(s) /\ n \in 0..Len(s)
    OBVIOUS
  <2> QED BY <2>1, SubSeqSlice
<1>4. n \in 1..4 => (CharacterAt(first, 0, n) <=> CharacterAt(s, 0, n))
  <2>1. 0 \in 0..(n - 0) /\ 0 + n <= n - 0 /\ 0 + 0 = 0
    OBVIOUS
  <2> HIDE DEF first
  <2>2. n \in 1..4 => (CharacterAt(first, 0, n) <=> CharacterAt(s, 0 + 0, n))
    BY <1>3, <2>1, SliceBytes
  <2> QED BY <2>1, <2>2
<1>5. first \in M!Characters <=> CharacterAt(first, 0, n)
  <2>1. n - 0 = n
    OBVIOUS
  <2> HIDE DEF first
  <2> QED BY <1>3, <2>1, CharactersAt
<1>6. n \notin 1..4 => ~CharacterAt(first, 0, n) /\ ~CharacterAt(s, 0, n)
  BY OneLength
<1>7. first = SubSeq(s, 1, n)
  OBVIOUS
<1> HIDE DEF first
<1> QED BY <1>1, <1>2, <1>4, <1>5, <1>6, <1>7 DEF M!From

LEMMA WholeReads ==
  ASSUME NEW s \in Seq(M!Bytes)
  PROVE  Whole(s, 0, Len(s)) <=>
           \/ s = <<>>
           \/ \E n \in 1..M!Least(4, Len(s)) :
                /\ SubSeq(s, 1, n) \in M!Characters
                /\ Whole(M!From(s, n + 1), 0, Len(M!From(s, n + 1)))
<1>1. Len(s) \in Nat /\ (s = <<>> <=> Len(s) = 0)
  OBVIOUS
<1>2. \A n : n \in 1..M!Least(4, Len(s)) <=> n \in 1..4 /\ n <= Len(s)
  BY <1>1 DEF M!Least
<1>3. \A n \in 1..4 : n <= Len(s) =>
        (/\ SubSeq(s, 1, n) \in M!Characters
         /\ Whole(M!From(s, n + 1), 0, Len(M!From(s, n + 1)))
         <=> CharacterAt(s, 0, n) /\ Whole(s, n, Len(s)))
  <2> SUFFICES ASSUME NEW n \in 1..4, n <= Len(s)
               PROVE  /\ SubSeq(s, 1, n) \in M!Characters
                      /\ Whole(M!From(s, n + 1), 0, Len(M!From(s, n + 1)))
                      <=> CharacterAt(s, 0, n) /\ Whole(s, n, Len(s))
    OBVIOUS
  <2>1. n \in 1..Len(s)
    BY <1>1
  <2> QED BY <2>1, FirstCharacter
<1>4. 0 <= Len(s) /\ 0 \in Nat /\ \A n \in 1..4 : 0 + n = n
  BY <1>1
<1>5. Whole(s, 0, Len(s)) <=>
        \/ Len(s) = 0
        \/ \E n \in 1..4 : n <= Len(s) /\ CharacterAt(s, 0, n) /\ Whole(s, n, Len(s))
  BY <1>1, <1>4, WholeFacts
<1> QED BY <1>1, <1>2, <1>3, <1>5

LEMMA TextExists == \E f : f = ReadBy(f)
<1> DEFINE f == [s \in Seq(M!Bytes) |-> Whole(s, 0, Len(s))]
<1>1. ASSUME NEW s \in Seq(M!Bytes) PROVE Whole(s, 0, Len(s)) = Reads(f, s)
  <2>1. ASSUME NEW n \in 1..M!Least(4, Len(s))
        PROVE  f[M!From(s, n + 1)] = Whole(M!From(s, n + 1), 0, Len(M!From(s, n + 1)))
    <3>1. n \in 1..Len(s)
      BY DEF M!Least
    <3>2. M!From(s, n + 1) \in Seq(M!Bytes)
      BY <3>1, FirstCharacter
    <3> QED BY <3>2
  <2> HIDE DEF f
  <2>2. Whole(s, 0, Len(s)) <=> Reads(f, s)
    BY <2>1, WholeReads DEF Reads
  <2> QED BY <2>2 DEF Whole, Reads
<1>2. f = ReadBy(f)
  BY <1>1 DEF ReadBy
<1> QED BY <1>2

(* A sequence is text when it is characters from end to end. *)
LEMMA TextIsWhole == \A s \in Seq(M!Bytes) : M!Text[s] <=> Whole(s, 0, Len(s))
<1>1. M!Text = ReadBy(M!Text)
  BY TextUnfolded, TextExists
<1> DEFINE Wrong(n) == \E s \in Seq(M!Bytes) : Len(s) = n /\ ~(M!Text[s] <=> Whole(s, 0, Len(s)))
           Lengths == {n \in Nat : Wrong(n)}
<1>2. SUFFICES ASSUME Lengths # {} PROVE FALSE
  <2>1. \A s \in Seq(M!Bytes) : Len(s) \in Nat
    OBVIOUS
  <2> QED BY <2>1
<1>3. PICK n \in Lengths : \A m \in Lengths : n <= m
  <2>1. Lengths \in SUBSET Nat
    OBVIOUS
  <2> HIDE DEF Lengths
  <2> QED BY <1>2, <2>1, LeastNumber
<1>4. PICK s \in Seq(M!Bytes) : Len(s) = n /\ ~(M!Text[s] <=> Whole(s, 0, Len(s)))
  BY <1>3
<1>5. M!Text[s] = Reads(M!Text, s)
  BY <1>1 DEF ReadBy
<1>6. ASSUME NEW k \in 1..M!Least(4, Len(s))
      PROVE  M!Text[M!From(s, k + 1)] <=> Whole(M!From(s, k + 1), 0, Len(M!From(s, k + 1)))
  <2>1. k \in 1..Len(s)
    BY DEF M!Least
  <2>2. M!From(s, k + 1) \in Seq(M!Bytes) /\ Len(M!From(s, k + 1)) = Len(s) - k
    BY <2>1, FirstCharacter
  <2>3. Len(s) - k \in Nat /\ Len(s) - k < n
    BY <1>4, <2>1
  <2>4. Len(s) - k \notin Lengths
    BY <1>3, <2>3
  <2> QED BY <2>2, <2>3, <2>4
<1>7. Reads(M!Text, s) <=> Whole(s, 0, Len(s))
  BY <1>6, WholeReads DEF Reads
<1> QED BY <1>4, <1>5, <1>7

(* What the operators of validate_utf8 say of a slice of s, by positions. *)
LEMMA TextOfSlice ==
  ASSUME NEW s \in Seq(M!Bytes), NEW a \in 0..Len(s), NEW b \in a..Len(s)
  PROVE  M!Text[SubSeq(s, a + 1, b)] <=> Whole(s, a, b)
<1> DEFINE t == SubSeq(s, a + 1, b)
<1>1. t \in Seq(M!Bytes) /\ Len(t) = b - a /\ Slice(t, s, a, b)
  BY SubSeqSlice
<1>2. 0 \in 0..(b - a) /\ b - a \in 0..(b - a) /\ a + 0 = a /\ a + (b - a) = b
  OBVIOUS
<1> HIDE DEF t
<1>3. Whole(t, 0, b - a) <=> Whole(s, a + 0, a + (b - a))
  BY <1>1, <1>2, SliceWhole
<1> QED BY <1>1, <1>2, <1>3, TextIsWhole DEF t

LEMMA CutOfSlice ==
  ASSUME NEW s \in Seq(M!Bytes), NEW a \in 0..Len(s), NEW b \in a..Len(s), NEW i \in 1..(b - a)
  PROVE  LET t == SubSeq(s, a + 1, b)
         IN /\ M!Cut(t, i) <=> Whole(s, a, a + i - 1) /\ BeginningAt(s, a + i - 1, b)
            /\ M!From(t, i) = SubSeq(s, a + i, b)
<1> DEFINE t == SubSeq(s, a + 1, b)
           k == a + i - 1
           head == SubSeq(s, a + 1, k)
           rest == SubSeq(s, k + 1, b)
<1>1. t \in Seq(M!Bytes) /\ Len(t) = b - a
  BY SubSeqSlice
<1>2. k \in a..Len(s) /\ k \in 0..Len(s) /\ b \in k..Len(s) /\ k + 1 = a + i /\ k - a = i - 1
  OBVIOUS
<1>3. SubSeq(t, 1, i - 1) = head
  <2>1. SubSeq(t, 1, i - 1) \in Seq(M!Bytes) /\ Len(SubSeq(t, 1, i - 1)) = i - 1
        /\ \A m \in 1..(i - 1) : SubSeq(t, 1, i - 1)[m] = s[a + m]
    OBVIOUS
  <2>2. head \in Seq(M!Bytes) /\ Len(head) = i - 1 /\ \A m \in 1..(i - 1) : head[m] = s[a + m]
    OBVIOUS
  <2> HIDE DEF head, t
  <2> QED BY <2>1, <2>2, SeqEqual
<1>4. M!From(t, i) = rest
  <2>1. SubSeq(t, i, b - a) \in Seq(M!Bytes) /\ Len(SubSeq(t, i, b - a)) = b - k
        /\ \A m \in 1..(b - k) : SubSeq(t, i, b - a)[m] = s[k + m]
    OBVIOUS
  <2>2. rest \in Seq(M!Bytes) /\ Len(rest) = b - k /\ \A m \in 1..(b - k) : rest[m] = s[k + m]
    OBVIOUS
  <2> HIDE DEF rest, t
  <2>3. SubSeq(t, i, b - a) = rest
    BY <2>1, <2>2, SeqEqual
  <2> QED BY <1>1, <2>3 DEF M!From
<1> HIDE DEF t, k
<1>5. M!Text[head] <=> Whole(s, a, k)
  BY <1>2, TextOfSlice
<1>6. rest \in Seq(M!Bytes) /\ Len(rest) = b - k /\ Slice(rest, s, k, b)
  BY <1>2, SubSeqSlice
<1>7. rest \in M!Beginnings <=> BeginningAt(s, k, b)
  <2>1. 0 \in 0..(b - k) /\ b - k \in 0..(b - k) /\ k + 0 = k /\ k + (b - k) = b
    BY <1>2
  <2> HIDE DEF rest
  <2>2. BeginningAt(rest, 0, b - k) <=> BeginningAt(s, k + 0, k + (b - k))
    BY <1>6, <2>1, SliceBytes
  <2> QED BY <1>6, <2>1, <2>2, BeginningsAt
<1> HIDE DEF head, rest
<1>8. M!Cut(t, i) <=> Whole(s, a, k) /\ BeginningAt(s, k, b)
  BY <1>3, <1>4, <1>5, <1>7 DEF M!Cut
<1> QED BY <1>2, <1>4, <1>8 DEF t, k, rest

(* A judgement of characters from a to b, as Checked gives it; the tail is *)
(* what is left after the last of them.                                    *)
Judged(s, a, b, fin, r) ==
  /\ r = M!NotText => ~Whole(s, a, b) /\ (fin \/ ~CutFrom(s, a, b))
  /\ r # M!NotText =>
       /\ Whole(s, a, b) \/ (~fin /\ CutFrom(s, a, b))
       /\ \E p \in a..b : /\ Whole(s, a, p) /\ r = SubSeq(s, p + 1, b)
                          /\ p = b \/ BeginningAt(s, p, b)

LEMMA NotTextIsNoTail == M!NotText # <<>> /\ M!NotText \notin M!Beginnings
<1>1. M!NotText[1] = "never" /\ Len(M!NotText) = 1
  BY DEF M!NotText
<1>2. ~BeginningAt(M!NotText, 0, Len(M!NotText))
  BY <1>1 DEF BeginningAt
<1>3. M!NotText # <<>>
  <2>1. Len(<<>>) = 0
    OBVIOUS
  <2> QED BY <1>1, <2>1
<1>4. M!NotText \notin M!Beginnings
  BY <1>2, BeginningsAt
<1> QED BY <1>3, <1>4

LEMMA IncompleteOfSlice ==
  ASSUME NEW s \in Seq(M!Bytes), NEW a \in 0..Len(s), NEW b \in a..Len(s)
  PROVE  M!Incomplete(SubSeq(s, a + 1, b)) <=> CutFrom(s, a, b)
<1> DEFINE t == SubSeq(s, a + 1, b)
<1>1. t \in Seq(M!Bytes) /\ Len(t) = b - a
  BY SubSeqSlice
<1>3. \A i \in 1..(b - a) : M!Cut(t, i) <=> Whole(s, a, a + i - 1) /\ BeginningAt(s, a + i - 1, b)
  BY CutOfSlice
<1> HIDE DEF t
<1>4. M!Incomplete(t) <=> CutFrom(s, a, b)
  <2>1. ASSUME NEW i \in 1..(b - a) PROVE a + i - 1 \in a..(b - 1)
    OBVIOUS
  <2>2. ASSUME NEW k \in a..(b - 1) PROVE k - a + 1 \in 1..(b - a) /\ a + (k - a + 1) - 1 = k
    OBVIOUS
  <2>3. ASSUME M!Incomplete(t) PROVE CutFrom(s, a, b)
    <3>1. PICK i \in 1..(b - a) : M!Cut(t, i)
      BY <1>1, <2>3 DEF M!Incomplete
    <3>2. Whole(s, a, a + i - 1) /\ BeginningAt(s, a + i - 1, b)
      BY <1>3, <3>1
    <3> QED BY <2>1, <3>2 DEF CutFrom
  <2>4. ASSUME CutFrom(s, a, b) PROVE M!Incomplete(t)
    <3>1. PICK k \in a..(b - 1) : Whole(s, a, k) /\ BeginningAt(s, k, b)
      BY <2>4 DEF CutFrom
    <3>2. PICK i \in 1..(b - a) : i = k - a + 1 /\ a + i - 1 = k
      BY <2>2
    <3>3. M!Cut(t, i)
      BY <1>3, <3>1, <3>2
    <3> QED BY <1>1, <3>3 DEF M!Incomplete
  <2> QED BY <2>3, <2>4
<1> QED BY <1>4 DEF t

LEMMA CheckedRight ==
  ASSUME NEW s \in Seq(M!Bytes), NEW a \in 0..Len(s), NEW b \in a..Len(s), NEW fin \in BOOLEAN
  PROVE  Judged(s, a, b, fin, M!Checked(SubSeq(s, a + 1, b), fin))
<1> DEFINE t == SubSeq(s, a + 1, b)
<1>1. t \in Seq(M!Bytes) /\ Len(t) = b - a
  BY SubSeqSlice
<1>2. M!Text[t] <=> Whole(s, a, b)
  BY TextOfSlice
<1>3. \A i \in 1..(b - a) : /\ M!Cut(t, i) <=> Whole(s, a, a + i - 1) /\ BeginningAt(s, a + i - 1, b)
                            /\ M!From(t, i) = SubSeq(s, a + i, b)
  BY CutOfSlice
<1> HIDE DEF t
<1>4. M!Incomplete(t) <=> CutFrom(s, a, b)
  BY IncompleteOfSlice DEF t
<1>5. CASE M!Text[t]
  <2>1. M!Checked(t, fin) = <<>>
    BY <1>5 DEF M!Checked
  <2>2. SubSeq(s, b + 1, b) = <<>>
    OBVIOUS
  <2>3. b \in a..b
    OBVIOUS
  <2> QED BY <1>2, <1>5, <2>1, <2>2, <2>3, NotTextIsNoTail DEF Judged, t
<1>6. CASE ~M!Text[t] /\ M!Incomplete(t) /\ ~fin
  <2>1. M!Checked(t, fin) = M!Suffix(t)
    BY <1>6 DEF M!Checked
  <2>2. PICK i \in 1..(b - a) : M!Cut(t, i) /\ M!Suffix(t) = M!From(t, i)
    BY <1>1, <1>6 DEF M!Incomplete, M!Suffix
  <2>3. PICK p : p = a + i - 1
    OBVIOUS
  <2>4. p \in a..b /\ p + 1 = a + i
    BY <2>3
  <2>5. Whole(s, a, p) /\ BeginningAt(s, p, b) /\ M!Suffix(t) = SubSeq(s, p + 1, b)
    BY <1>3, <2>2, <2>3, <2>4
  <2>6. M!Suffix(t) # M!NotText
    BY <2>2, NotTextIsNoTail DEF M!Cut
  <2> QED BY <1>4, <1>6, <2>1, <2>4, <2>5, <2>6 DEF Judged, t
<1>7. CASE ~M!Text[t] /\ ~(M!Incomplete(t) /\ ~fin)
  <2>1. M!Checked(t, fin) = M!NotText
    BY <1>7 DEF M!Checked
  <2> QED BY <1>2, <1>4, <1>7, <2>1 DEF Judged, t
<1> QED BY <1>5, <1>6, <1>7

(* What comes after characters decides for the whole. *)
LEMMA CutSplits ==
  ASSUME NEW s, NEW a \in Nat, NEW m \in Nat, NEW b \in Nat, a <= m, m <= b, Whole(s, a, m)
  PROVE  /\ Whole(s, a, b) <=> Whole(s, m, b)
         /\ CutFrom(s, a, b) <=> CutFrom(s, m, b)
<1>1. Whole(s, a, b) <=> Whole(s, m, b)
  BY WholeJoins, WholeSplits
<1>2. ASSUME CutFrom(s, m, b) PROVE CutFrom(s, a, b)
  <2>1. PICK k \in m..(b - 1) : Whole(s, m, k) /\ BeginningAt(s, k, b)
    BY <1>2 DEF CutFrom
  <2>2. k \in Nat /\ m <= k /\ k \in a..(b - 1)
    OBVIOUS
  <2>3. Whole(s, a, k)
    BY <2>1, <2>2, WholeJoins
  <2> QED BY <2>1, <2>2, <2>3 DEF CutFrom
<1>3. ASSUME CutFrom(s, a, b) PROVE CutFrom(s, m, b)
  <2>1. PICK k \in a..(b - 1) : Whole(s, a, k) /\ BeginningAt(s, k, b)
    BY <1>3 DEF CutFrom
  <2>2. CASE m <= k
    <3>1. k \in Nat /\ k \in m..(b - 1)
      BY <2>2
    <3>2. Whole(s, m, k)
      BY <2>1, <2>2, <3>1, WholeSplits
    <3> QED BY <2>1, <3>1, <3>2 DEF CutFrom
  <2>3. CASE k < m
    <3>1. k \in Nat /\ a <= k /\ k <= m /\ k # m
      BY <2>3
    <3>2. Whole(s, k, m)
      BY <2>1, <3>1, WholeSplits
    <3>3. PICK n \in 1..4 : k + n <= m /\ CharacterAt(s, k, n)
      BY <3>1, <3>2, WholeFacts
    <3>4. b \in (k + 1)..(k + n - 1)
      BY <2>1, <3>1, <3>3, OneLength
    <3> QED BY <3>1, <3>3, <3>4
  <2> QED BY <2>2, <2>3
<1> QED BY <1>1, <1>2, <1>3

LEMMA JudgedOnward ==
  ASSUME NEW s, NEW a \in Nat, NEW m \in Nat, NEW b \in Nat, a <= m, m <= b, Whole(s, a, m),
         NEW fin \in BOOLEAN, NEW r, Judged(s, m, b, fin, r)
  PROVE  Judged(s, a, b, fin, r)
<1>1. /\ Whole(s, a, b) <=> Whole(s, m, b)
      /\ CutFrom(s, a, b) <=> CutFrom(s, m, b)
  BY CutSplits
<1>2. ASSUME NEW p \in m..b, Whole(s, m, p) PROVE p \in a..b /\ Whole(s, a, p)
  <2>1. p \in Nat /\ m <= p /\ p \in a..b
    OBVIOUS
  <2> QED BY <1>2, <2>1, WholeJoins
<1> QED BY <1>1, <1>2 DEF Judged

(* A beginning that has come to its full length and is no character will   *)
(* not become one.                                                         *)
LEMMA HopelessBeginning ==
  ASSUME NEW s, NEW p \in Nat, NEW l \in Nat, BeginningAt(s, p, l),
         NEW q \in Nat, q = p + M!Width(s[p + 1]), ~Whole(s, p, q),
         NEW b \in Nat, q <= b
  PROVE  ~Whole(s, p, b) /\ ~CutFrom(s, p, b)
<1>1. \A j \in Nat : BeginningAt(s, p, j) => j > p /\ j < q
  <2>1. \A j \in Nat : BeginningAt(s, p, j) => j > p /\ j - p < M!Width(s[p + 1])
    BY DEF BeginningAt, M!Width
  <2>2. M!Width(s[p + 1]) \in Nat
    BY DEF M!Width
  <2> QED BY <2>1, <2>2
<1>2. ASSUME NEW n, CharacterAt(s, p, n) PROVE FALSE
  <2>1. n \in 1..4 /\ l \in (p + 1)..(p + n - 1)
    BY <1>2, OneLength
  <2>2. n = M!Width(s[p + 1])
    BY <1>2, <2>1, OneLength
  <2>3. p + n = q
    BY <2>2
  <2>4. p <= q /\ Whole(s, q, q)
    BY <2>1, <2>3, WholeFacts
  <2>5. Whole(s, p, q)
    BY <1>2, <2>1, <2>3, <2>4, WholeFacts
  <2> QED BY <2>5
<1>3. ASSUME NEW k \in Nat, p <= k, Whole(s, p, k) PROVE k = p
  BY <1>2, <1>3, WholeFacts
<1>4. p < q
  BY <1>1
<1>5. ~Whole(s, p, b)
  BY <1>3, <1>4
<1>6. ASSUME CutFrom(s, p, b) PROVE FALSE
  <2>1. PICK k \in p..(b - 1) : Whole(s, p, k) /\ BeginningAt(s, k, b)
    BY <1>6 DEF CutFrom
  <2>2. k = p
    BY <1>3, <2>1
  <2> QED BY <1>1, <2>1, <2>2
<1> QED BY <1>5, <1>6

(* validate_utf8 judges what has come so far as a whole, though it looks   *)
(* only at the tail and at the new frame.                                  *)
LEMMA Utf8Right ==
  ASSUME NEW s \in Seq(M!Bytes), NEW l \in 0..Len(s), NEW p \in 0..l,
         Whole(s, 0, p), p = l \/ BeginningAt(s, p, l), NEW fin \in BOOLEAN
  PROVE  Judged(s, 0, Len(s), fin, M!Utf8(SubSeq(s, p + 1, l), SubSeq(s, l + 1, Len(s)), fin))
<1> DEFINE b == Len(s)
           tail == SubSeq(s, p + 1, l)
           data == SubSeq(s, l + 1, b)
           taken == M!Taken(tail, data)
           q == l + taken
<1>1. /\ tail \in Seq(M!Bytes) /\ Len(tail) = l - p /\ \A k \in 1..(l - p) : tail[k] = s[p + k]
      /\ data \in Seq(M!Bytes) /\ Len(data) = b - l /\ \A k \in 1..(b - l) : data[k] = s[l + k]
  OBVIOUS
<1>2. b \in Nat /\ l \in Nat /\ p \in Nat /\ p <= l /\ l <= b
  OBVIOUS
<1>3. tail = <<>> <=> p = l
  <2> HIDE DEF tail
  <2>1. Len(<<>>) = 0 /\ (tail # <<>> => Len(tail) # 0)
    BY <1>1, EmptySeq
  <2> QED BY <1>1, <1>2, <2>1
<1>4. tail # <<>> => BeginningAt(s, p, l) /\ tail[1] = s[p + 1]
  BY <1>1, <1>2, <1>3
<1>5. /\ taken \in 0..(b - l)
      /\ tail = <<>> => taken = 0
      /\ tail # <<>> => \/ taken = b - l
                        \/ taken = M!Width(s[p + 1]) - (l - p)
  <2> HIDE DEF tail, data
  <2>1. CASE tail = <<>>
    BY <1>2, <2>1 DEF M!Taken
  <2>2. CASE tail # <<>>
    <3>1. M!Width(s[p + 1]) \in Nat /\ M!Width(s[p + 1]) > l - p
      BY <1>2, <1>4, <2>2 DEF BeginningAt, M!Width
    <3>2. taken = M!Least(M!Width(s[p + 1]) - (l - p), b - l)
      BY <1>1, <1>4, <2>2 DEF M!Taken
    <3> QED BY <1>2, <2>2, <3>1, <3>2 DEF M!Least
  <2> QED BY <2>1, <2>2
<1> HIDE DEF taken
<1>6. q \in l..b /\ q \in Nat /\ q - l = taken /\ q - p = (l - p) + taken
  BY <1>2, <1>5
<1>7. M!Completed(tail, data) = SubSeq(s, p + 1, q)
  <2>1. SubSeq(s, p + 1, q) \in Seq(M!Bytes) /\ Len(SubSeq(s, p + 1, q)) = q - p
        /\ \A k \in 1..(q - p) : SubSeq(s, p + 1, q)[k] = s[p + k]
    BY <1>6
  <2> DEFINE more == SubSeq(data, 1, taken)
  <2>2. more \in Seq(M!Bytes) /\ Len(more) = taken /\ \A k \in 1..taken : more[k] = s[l + k]
    <3> HIDE DEF data
    <3> QED BY <1>1, <1>5
  <2>3. tail \o more \in Seq(M!Bytes) /\ Len(tail \o more) = (l - p) + taken
        /\ \A k \in 1..((l - p) + taken) : (tail \o more)[k] = IF k <= l - p THEN tail[k] ELSE more[k - (l - p)]
    <3> HIDE DEF tail, more
    <3>1. PICK x, y : x = tail /\ y = more
      OBVIOUS
    <3>2. x \in Seq(M!Bytes) /\ y \in Seq(M!Bytes) /\ Len(x) = l - p /\ Len(y) = taken
      BY <1>1, <2>2, <3>1
    <3>3. x \o y \in Seq(M!Bytes) /\ Len(x \o y) = (l - p) + taken
          /\ \A k \in 1..((l - p) + taken) : (x \o y)[k] = IF k <= l - p THEN x[k] ELSE y[k - (l - p)]
      <4>1. x \o y \in Seq(M!Bytes) /\ Len(x \o y) = Len(x) + Len(y)
            /\ \A k \in 1..(Len(x) + Len(y)) : (x \o y)[k] = IF k <= Len(x) THEN x[k] ELSE y[k - Len(x)]
        BY <3>2, ConcatProperties
      <4> QED BY <3>2, <4>1, Zenon
    <3> QED BY <3>1, <3>3
  <2>4. \A k \in 1..((l - p) + taken) : (tail \o more)[k] = s[p + k]
    <3> SUFFICES ASSUME NEW k \in 1..((l - p) + taken) PROVE (tail \o more)[k] = s[p + k]
      OBVIOUS
    <3> HIDE DEF tail, more
    <3>1. CASE k <= l - p
      BY <1>1, <1>2, <2>3, <3>1
    <3>2. CASE ~(k <= l - p)
      <4>1. k - (l - p) \in 1..taken /\ l + (k - (l - p)) = p + k
        BY <1>2, <1>5, <3>2
      <4> QED BY <2>2, <2>3, <3>2, <4>1
    <3> QED BY <3>1, <3>2
  <2> HIDE DEF tail, more
  <2>5. tail \o more = SubSeq(s, p + 1, q)
    BY <1>6, <2>1, <2>3, <2>4, SeqEqual
  <2> QED BY <2>5 DEF M!Completed, more, taken
<1>8. M!Remainder(tail, data) = SubSeq(s, q + 1, b)
  <2>1. SubSeq(s, q + 1, b) \in Seq(M!Bytes) /\ Len(SubSeq(s, q + 1, b)) = b - q
        /\ \A k \in 1..(b - q) : SubSeq(s, q + 1, b)[k] = s[q + k]
    <3>1. q \in 0..Len(s) /\ b \in q..Len(s)
      BY <1>2, <1>6
    <3> HIDE DEF q, b
    <3> QED BY <3>1, SubSeqSlice DEF Slice
  <2> DEFINE rest == SubSeq(data, taken + 1, b - l)
  <2>2. rest \in Seq(M!Bytes) /\ Len(rest) = b - q /\ \A k \in 1..(b - q) : rest[k] = s[q + k]
    <3> HIDE DEF data
    <3>1. rest \in Seq(M!Bytes) /\ Len(rest) = (b - l) - taken
          /\ \A k \in 1..((b - l) - taken) : rest[k] = data[taken + k]
      <4>1. PICK d, t, e : d = data /\ t = taken /\ e = b - l
        OBVIOUS
      <4>2. d \in Seq(M!Bytes) /\ t \in 0..Len(d) /\ e \in t..Len(d) /\ e = Len(d)
        BY <1>1, <1>2, <1>5, <4>1
      <4>3. SubSeq(d, t + 1, e) \in Seq(M!Bytes) /\ Len(SubSeq(d, t + 1, e)) = e - t
            /\ \A k \in 1..(e - t) : SubSeq(d, t + 1, e)[k] = d[t + k]
        BY <4>2, SubSeqSlice DEF Slice
      <4> QED BY <4>1, <4>3
    <3>2. (b - l) - taken = b - q /\ \A k \in 1..(b - q) : taken + k \in 1..(b - l) /\ l + (taken + k) = q + k
      BY <1>2, <1>5, <1>6
    <3> QED BY <1>1, <3>1, <3>2
  <2>3. rest = SubSeq(s, q + 1, b)
    <3> HIDE DEF rest
    <3> QED BY <2>1, <2>2, SeqEqual
  <2> HIDE DEF data
  <2> QED BY <1>1, <2>3 DEF M!Remainder, M!From, taken
<1> DEFINE r == M!Utf8(tail, data, fin)
<1> HIDE DEF tail, data, q
<1>9. r = IF tail # <<>> /\ ~Whole(s, p, q) THEN M!Checked(SubSeq(s, p + 1, q), fin)
          ELSE M!Checked(SubSeq(s, q + 1, b), fin)
  <2>1. M!Text[SubSeq(s, p + 1, q)] <=> Whole(s, p, q)
    <3>1. p \in 0..Len(s) /\ q \in p..Len(s)
      BY <1>2, <1>6
    <3> QED BY <3>1, TextOfSlice
  <2> QED BY <1>7, <1>8, <2>1 DEF M!Utf8
<1> HIDE DEF r
<1>10. CASE tail = <<>> \/ Whole(s, p, q)
  <2>1. Whole(s, p, q)
    <3>1. CASE tail = <<>>
      <4>1. p = q
        BY <1>2, <1>3, <1>5, <3>1 DEF q
      <4> QED BY <1>2, <4>1, WholeFacts
    <3> QED BY <1>10, <3>1
  <2>2. Whole(s, 0, q)
    BY <1>2, <1>6, <2>1, WholeJoins
  <2>3. Judged(s, q, b, fin, r)
    <3>1. q \in 0..Len(s) /\ b \in q..Len(s)
      BY <1>2, <1>6
    <3>2. r = M!Checked(SubSeq(s, q + 1, b), fin)
      BY <1>9, <1>10
    <3> QED BY <3>1, <3>2, CheckedRight
  <2>4. 0 \in Nat /\ 0 <= q /\ q <= b
    BY <1>2, <1>6
  <2> QED BY <1>2, <1>6, <2>2, <2>3, <2>4, JudgedOnward DEF r, tail, data
<1>11. CASE tail # <<>> /\ ~Whole(s, p, q)
  <2>1. Judged(s, p, q, fin, r)
    <3>1. p \in 0..Len(s) /\ q \in p..Len(s)
      BY <1>2, <1>6
    <3>2. r = M!Checked(SubSeq(s, p + 1, q), fin)
      BY <1>9, <1>11
    <3> QED BY <3>1, <3>2, CheckedRight
  <2>2. Judged(s, p, b, fin, r)
    <3>1. CASE q = b
      BY <2>1, <3>1
    <3>2. CASE q # b
      <4>1. q = p + M!Width(s[p + 1])
        <5>1. M!Width(s[p + 1]) \in Nat
          BY DEF M!Width
        <5> QED BY <1>2, <1>5, <1>6, <1>11, <3>2, <5>1
      <4>2. ~CutFrom(s, p, q) /\ ~Whole(s, p, b) /\ ~CutFrom(s, p, b)
        <5>1. q <= q /\ q <= b
          BY <1>2, <1>6
        <5> QED BY <1>2, <1>4, <1>6, <1>11, <4>1, <5>1, HopelessBeginning
      <4>3. r = M!NotText
        BY <1>11, <2>1, <4>2 DEF Judged
      <4> QED BY <4>2, <4>3 DEF Judged
    <3> QED BY <3>1, <3>2
  <2>3. 0 \in Nat /\ 0 <= p /\ p <= b
    BY <1>2
  <2> QED BY <1>2, <2>2, <2>3, JudgedOnward DEF r, tail, data
<1> QED BY <1>10, <1>11

-----------------------------------------------------------------------------
(* The messages: how text is judged *)

(* While a text message is open, its tail is what follows the last whole   *)
(* character of all that has come.                                         *)
TailInv ==
  opcode = "Text" /\ verdict = "ok" =>
    \E p \in 0..Len(said.payload) :
      /\ Whole(said.payload, 0, p)
      /\ utf8_tail = SubSeq(said.payload, p + 1, Len(said.payload))
      /\ p = Len(said.payload) \/ BeginningAt(said.payload, p, Len(said.payload))

TextInv == CollectInv /\ M!JudgedAsWhole /\ TailInv

(* A frame of a text message, after what had come of it before. *)
LEMMA FrameJudged ==
  ASSUME NEW before \in Seq(M!Bytes), NEW payload \in Seq(M!Bytes), NEW fin \in BOOLEAN, NEW tail,
         NEW p \in 0..Len(before), Whole(before, 0, p),
         tail = SubSeq(before, p + 1, Len(before)),
         p = Len(before) \/ BeginningAt(before, p, Len(before))
  PROVE  Judged(before \o payload, 0, Len(before \o payload), fin, M!Utf8(tail, payload, fin))
<1> DEFINE s == before \o payload
           l == Len(before)
           b == Len(s)
<1>1. s \in Seq(M!Bytes) /\ b = l + Len(payload) /\ l \in Nat /\ Len(payload) \in Nat
      /\ \A k \in 1..b : s[k] = IF k <= l THEN before[k] ELSE payload[k - l]
  <2>1. s \in Seq(M!Bytes) /\ b = l + Len(payload)
        /\ \A k \in 1..(l + Len(payload)) : s[k] = IF k <= l THEN before[k] ELSE payload[k - l]
    BY ConcatProperties
  <2>2. l \in Nat /\ Len(payload) \in Nat
    OBVIOUS
  <2> QED BY <2>1, <2>2
<1> HIDE DEF s
<1>2. l \in 0..b /\ p \in 0..l /\ b - l = Len(payload) /\ l <= b
  BY <1>1
<1>3. Slice(before, s, 0, l)
  <2>1. \A k \in 1..(l - 0) : k \in 1..b /\ k <= l /\ 0 + k = k
    BY <1>1
  <2> QED BY <1>1, <2>1 DEF Slice
<1>4. Whole(s, 0, p)
  <2>1. 0 \in 0..(l - 0) /\ p \in 0..(l - 0) /\ 0 + 0 = 0 /\ 0 + p = p
    BY <1>2
  <2>2. Whole(before, 0, p) <=> Whole(s, 0 + 0, 0 + p)
    BY <1>3, <2>1, SliceWhole
  <2> QED BY <2>1, <2>2
<1>5. p = l \/ BeginningAt(s, p, l)
  <2>1. p \in 0..(l - 0) /\ l \in p..(l - 0) /\ 0 + p = p /\ 0 + l = l
    BY <1>1, <1>2
  <2>2. BeginningAt(before, p, l) <=> BeginningAt(s, 0 + p, 0 + l)
    BY <1>3, <2>1, SliceBytes
  <2> QED BY <2>1, <2>2
<1>6. tail = SubSeq(s, p + 1, l)
  <2>1. tail \in Seq(M!Bytes) /\ Len(tail) = l - p /\ \A k \in 1..(l - p) : tail[k] = before[p + k]
    <3>1. p \in 0..Len(before) /\ l \in p..Len(before)
      BY <1>1
    <3> HIDE DEF l
    <3>2. SubSeq(before, p + 1, l) \in Seq(M!Bytes) /\ Len(SubSeq(before, p + 1, l)) = l - p
          /\ \A k \in 1..(l - p) : SubSeq(before, p + 1, l)[k] = before[p + k]
      BY <3>1, SubSeqSlice DEF Slice
    <3> QED BY <3>2 DEF l
  <2>2. SubSeq(s, p + 1, l) \in Seq(M!Bytes) /\ Len(SubSeq(s, p + 1, l)) = l - p
        /\ \A k \in 1..(l - p) : SubSeq(s, p + 1, l)[k] = s[p + k]
    <3>1. p \in 0..Len(s) /\ l \in p..Len(s)
      BY <1>1, <1>2
    <3> HIDE DEF l
    <3> QED BY <1>1, <3>1, SubSeqSlice DEF Slice
  <2>3. \A k \in 1..(l - p) : p + k \in 1..b /\ p + k <= l
    BY <1>1, <1>2
  <2>4. \A k \in 1..(l - p) : before[p + k] = s[p + k]
    BY <1>1, <2>3
  <2>5. \A k \in 1..Len(tail) : tail[k] = SubSeq(s, p + 1, l)[k]
    BY <2>1, <2>2, <2>4
  <2> QED BY <2>1, <2>2, <2>5, SeqEqual
<1>7. payload = SubSeq(s, l + 1, b)
  <2>1. SubSeq(s, l + 1, b) \in Seq(M!Bytes) /\ Len(SubSeq(s, l + 1, b)) = b - l
        /\ \A k \in 1..(b - l) : SubSeq(s, l + 1, b)[k] = s[l + k]
    <3>1. l \in 0..Len(s) /\ b \in l..Len(s)
      BY <1>1, <1>2
    <3> HIDE DEF l, b
    <3> QED BY <1>1, <3>1, SubSeqSlice DEF Slice
  <2>2. \A k \in 1..(b - l) : l + k \in 1..b /\ ~(l + k <= l) /\ (l + k) - l = k
    BY <1>1, <1>2
  <2>3. \A k \in 1..(b - l) : s[l + k] = payload[k]
    BY <1>1, <2>2
  <2>4. Len(payload) = b - l /\ \A k \in 1..Len(payload) : payload[k] = SubSeq(s, l + 1, b)[k]
    BY <1>2, <2>1, <2>3
  <2> QED BY <2>1, <2>4, SeqEqual
<1> HIDE DEF l
<1>8. Judged(s, 0, b, fin, M!Utf8(SubSeq(s, p + 1, l), SubSeq(s, l + 1, b), fin))
  BY <1>1, <1>2, <1>4, <1>5, Utf8Right
<1> QED BY <1>6, <1>7, <1>8 DEF s

(* What is judged by positions is judged by Text and Incomplete. *)
LEMMA JudgedText ==
  ASSUME NEW s \in Seq(M!Bytes)
  PROVE  (M!Text[s] <=> Whole(s, 0, Len(s))) /\ (M!Incomplete(s) <=> CutFrom(s, 0, Len(s)))
<1>1. 0 \in 0..Len(s) /\ Len(s) \in 0..Len(s) /\ SubSeq(s, 0 + 1, Len(s)) = s
  OBVIOUS
<1>2. M!Incomplete(SubSeq(s, 0 + 1, Len(s))) <=> CutFrom(s, 0, Len(s))
  BY <1>1, IncompleteOfSlice
<1> QED BY <1>1, <1>2, TextIsWhole

LEMMA FirstText == ASSUME M!Init PROVE TextInv
BY FirstMessage DEF M!Init, TextInv, TailInv, M!JudgedAsWhole

(* Nothing is claimed of a text that was refused for its size or place. *)
LEMMA RefusedText ==
  ASSUME M!Refuse("FrameTooLarge") \/ M!Refuse("InvalidFragment") \/ M!Refuse("InvalidContinuationFrame")
  PROVE  M!JudgedAsWhole' /\ TailInv'
BY DEF M!Refuse, M!JudgedAsWhole, TailInv

LEMMA AcceptedText ==
  ASSUME NEW kind \in {"Text", "Binary"}, NEW before \in Seq(M!Bytes), NEW payload \in Seq(M!Bytes),
         NEW fin \in BOOLEAN, NEW tail, NEW length, verdict = "ok",
         M!Accept(kind, length, tail, payload, fin), M!Said(kind, before \o payload, fin),
         kind = "Text" =>
           \E p \in 0..Len(before) :
             /\ Whole(before, 0, p) /\ tail = SubSeq(before, p + 1, Len(before))
             /\ p = Len(before) \/ BeginningAt(before, p, Len(before))
  PROVE  M!JudgedAsWhole' /\ TailInv'
<1>1. PICK s : s = before \o payload
  OBVIOUS
<1>2. s \in Seq(M!Bytes)
  BY <1>1
<1>3. said'.payload = s /\ said'.kind = kind /\ said'.fin = fin
  BY <1>1 DEF M!Said
<1>4. CASE M!Refuse("FrameTooLarge")
  BY <1>4, RefusedText
<1>5. CASE kind = "Binary"
  <2>1. opcode' = "Text" => opcode = "Text" /\ verdict' # "ok"
    BY <1>5 DEF M!Accept, M!Refuse
  <2> QED BY <1>3, <1>5, <2>1 DEF M!JudgedAsWhole, TailInv
<1>6. CASE kind = "Text" /\ ~M!Refuse("FrameTooLarge")
  <2> DEFINE r == M!Utf8(tail, payload, fin)
  <2>1. Judged(s, 0, Len(s), fin, r)
    BY <1>1, <1>6, FrameJudged
  <2>2. (M!Text[s] <=> Whole(s, 0, Len(s))) /\ (M!Incomplete(s) <=> CutFrom(s, 0, Len(s)))
    BY <1>2, JudgedText
  <2>3. \/ r = M!NotText /\ M!Refuse("InvalidUTF8")
        \/ r # M!NotText /\ utf8_tail' = r /\ verdict' = "ok"
    BY <1>6 DEF M!Accept
  <2> HIDE DEF r
  <2>4. CASE r = M!NotText /\ M!Refuse("InvalidUTF8")
    <3>1. verdict' = "InvalidUTF8"
      BY <2>4 DEF M!Refuse
    <3> QED BY <1>3, <2>1, <2>2, <2>4, <3>1 DEF M!JudgedAsWhole, TailInv, Judged
  <2>5. CASE r # M!NotText /\ utf8_tail' = r /\ verdict' = "ok"
    <3>1. M!JudgedAsWhole'
      BY <1>3, <2>1, <2>2, <2>5 DEF M!JudgedAsWhole, Judged
    <3>2. TailInv'
      BY <1>3, <2>1, <2>5 DEF TailInv, Judged
    <3> QED BY <3>1, <3>2
  <2> QED BY <2>3, <2>4, <2>5
<1> QED BY <1>4, <1>5, <1>6

LEMMA TextStep == ASSUME TextInv, [M!Next]_messageVars PROVE TextInv'
<1>1. CollectInv'
  BY CollectStep DEF TextInv
<1>2. CASE UNCHANGED messageVars
  BY <1>1, <1>2 DEF messageVars, TextInv, TailInv, M!JudgedAsWhole
<1>3. ASSUME NEW payload \in Payloads, M!Control(payload) PROVE TextInv'
  <2>1. CASE M!Refuse("FrameTooLarge")
    BY <1>1, <2>1, RefusedText DEF TextInv
  <2>2. CASE UNCHANGED <<opcode, utf8_tail, verdict>>
    BY <1>1, <1>3, <2>2 DEF M!Control, TextInv, TailInv, M!JudgedAsWhole
  <2> QED BY <1>3, <2>1, <2>2 DEF M!Control
<1>4. ASSUME NEW payload \in Payloads, NEW fin \in BOOLEAN, M!Continue(payload, fin) PROVE TextInv'
  <2>1. CASE M!Refuse("InvalidContinuationFrame")
    BY <1>1, <2>1, RefusedText DEF TextInv
  <2>2. CASE /\ opcode # "none" /\ M!Said(opcode, said.payload \o payload, fin)
             /\ M!Accept(opcode, bytes, utf8_tail, payload, fin)
    <3>1. verdict = "ok" /\ opcode \in {"Text", "Binary"} /\ said.payload \in Seq(M!Bytes)
      BY <1>4, <2>2 DEF M!Continue, TextInv, CollectInv, M!TypeOK
    <3>2. payload \in Seq(M!Bytes)
      BY MessagesAssumed DEF M!MessageAssumption
    <3>3. opcode = "Text" =>
            \E p \in 0..Len(said.payload) :
              /\ Whole(said.payload, 0, p)
              /\ utf8_tail = SubSeq(said.payload, p + 1, Len(said.payload))
              /\ p = Len(said.payload) \/ BeginningAt(said.payload, p, Len(said.payload))
      BY <3>1 DEF TextInv, TailInv
    <3>4. M!JudgedAsWhole' /\ TailInv'
      BY <2>2, <3>1, <3>2, <3>3, AcceptedText
    <3> QED BY <1>1, <3>4 DEF TextInv
  <2> QED BY <1>4, <2>1, <2>2 DEF M!Continue
<1>5. ASSUME NEW payload \in Payloads, NEW fin \in BOOLEAN, NEW kind \in {"Text", "Binary"},
             M!Begin(kind, payload, fin)
      PROVE  TextInv'
  <2>1. CASE M!Refuse("InvalidFragment")
    BY <1>1, <2>1, RefusedText DEF TextInv
  <2>2. CASE opcode = "none" /\ M!Said(kind, payload, fin) /\ M!Accept(kind, 0, <<>>, payload, fin)
    <3>1. verdict = "ok"
      BY <1>5 DEF M!Begin
    <3>2. PICK before : before = <<>>
      OBVIOUS
    <3>3. payload \in Seq(M!Bytes) /\ before \in Seq(M!Bytes) /\ Len(before) = 0
      BY <3>2, MessagesAssumed DEF M!MessageAssumption
    <3>4. before \o payload = payload
      BY <3>2, <3>3, ConcatEmptySeq
    <3>5. Whole(before, 0, 0) /\ <<>> = SubSeq(before, 0 + 1, Len(before)) /\ 0 \in 0..Len(before)
      <4>1. Whole(before, 0, 0)
        BY WholeFacts
      <4>2. SubSeq(before, 0 + 1, Len(before)) = <<>>
        BY <3>3, SubSeqEmpty
      <4> QED BY <3>3, <4>1, <4>2
    <3>6. M!JudgedAsWhole' /\ TailInv'
      BY <2>2, <3>1, <3>3, <3>4, <3>5, AcceptedText
    <3> QED BY <1>1, <3>6 DEF TextInv
  <2> QED BY <1>5, <2>1, <2>2 DEF M!Begin
<1> QED BY <1>2, <1>3, <1>4, <1>5 DEF M!Next

(* The tail of validate_utf8 is the cut character at the end of all that    *)
(* has come.                                                               *)
THEOREM TextInductive == PartsSpec => []TextInv
<1>1. PartsInit => TextInv
  BY FirstText DEF PartsInit
<1>2. TextInv /\ [PartsNext]_allVars => TextInv'
  BY MessagePart, TextStep
<1> QED BY <1>1, <1>2, PTL DEF PartsSpec

(* A text message is refused exactly when what has come of it is no text   *)
(* and cannot become text, wherever its frames cut its characters:         *)
(* validate_utf8, which looks only at the tail and the new frame.          *)
THEOREM TextJudgedAsWhole == PartsSpec => []JudgedAsWhole
<1>1. TextInv => JudgedAsWhole
  BY DEF TextInv, CollectInv, JudgedAsWhole
<1> QED BY <1>1, TextInductive, PTL
=============================================================================
