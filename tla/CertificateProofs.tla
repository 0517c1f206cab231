------------------------- MODULE CertificateProofs --------------------------
(***************************************************************************)
(* Proofs about CertificateStore, for every set of certificates: the       *)
(* directory loads unless a save was cut, what is served stays served, and *)
(* what the CA was told to fetch is there.                                 *)
(***************************************************************************)
EXTENDS CertificateStore, TLAPS

(* A pair that does not match is being saved, or its save was cut. *)
TornInv == /\ \A id \in Ids : ~Whole(id) => id \in cut \/ (pc = "cert" /\ id = cur)
           /\ pc = "cert" => key[cur] = draft.version

(* The disk differs from what is served by finished replacements only. *)
StoredInv ==
  /\ phase # "off" => \A id \in Ids :
       \/ cert[id] = index[id]
       \/ id \in Managed /\ cert[id] # NoPair /\ cert[id].names = Domains[id]
  /\ phase = "off" => \A id \in Ids : index[id] = NoPair

(* An accepted replacement claims nothing another certificate serves. *)
DraftInv == draft # NoPair => draft.names = Domains[cur] /\ Unclaimed(cur, Domains[cur])

DisjointInv == \A i, j \in Ids : ~Overlap(i, j)

IInv == TypeOK /\ TornInv /\ StoredInv /\ DraftInv /\ DisjointInv

(* What the types need to know of the configuration *)
LEMMA Configuration ==
  /\ NoPair \notin Versions /\ NoPair \notin Ids /\ NoPair \notin Names /\ NoPair \notin Pair
  /\ Managed \subseteq Ids
  /\ Domains \in [Managed -> (SUBSET Names) \ {{}}]
  /\ Disks \subseteq [Ids -> Pair \cup {NoPair}]
  /\ MaxFaults \in Nat /\ MaxStops \in Nat
BY CertificateAssumption

LEMMA InitInv == Init => IInv
<1> SUFFICES ASSUME Init PROVE IInv
  OBVIOUS
<1> USE Configuration DEF Init
<1>1. TypeOK
  <2>1. key \in [Ids -> Versions \cup {NoPair}]
    BY DEF Pair
  <2> QED BY <2>1 DEF TypeOK
<1>2. TornInv
  BY DEF TornInv, Whole
<1>3. StoredInv /\ DraftInv
  BY DEF StoredInv, DraftInv
<1>4. DisjointInv
  BY CertificateAssumption DEF DisjointInv, Overlap
<1> QED BY <1>1, <1>2, <1>3, <1>4 DEF IInv

-----------------------------------------------------------------------------
(* Types *)

(* There is a fresh key: three at most are in use for a certificate. *)
LEMMA FreshVersion == ASSUME TypeOK, NEW id \in Ids PROVE Fresh(id) \in Versions
<1> DEFINE used == {key[id]} \cup {p.version : p \in {cert[id], index[id]} \ {NoPair}}
           v(p) == IF p = NoPair THEN NoPair ELSE p.version
<1>1. key[id] \in Versions \cup {NoPair} /\ v(cert[id]) \in Versions \cup {NoPair}
        /\ v(index[id]) \in Versions \cup {NoPair}
  BY DEF TypeOK, Pair
<1>2. PICK fresh \in Versions : fresh \notin {key[id], v(cert[id]), v(index[id])}
  <2> HIDE DEF v
  <2> QED BY <1>1, CertificateAssumption
<1>3. fresh \notin used
  BY <1>2
<1> QED BY <1>3 DEF Fresh

LEMMA TypeStep == TypeOK /\ [Next]_vars => TypeOK'
<1> SUFFICES ASSUME TypeOK, [Next]_vars PROVE TypeOK'
  OBVIOUS
<1> USE Configuration
         DEF TypeOK, files, memory, cycle, order, bounds, vars
<1>1. CASE Start
  BY <1>1 DEF Start
<1>2. CASE Stop
  <2>1. cut' \subseteq Managed
    BY <1>2 DEF Stop, Cut
  <2>2. stops' \in 0..MaxStops
    BY <1>2 DEF Stop
  <2> QED BY <1>2, <2>1, <2>2 DEF Stop, Down, Abandon
<1>3. CASE BeginCycle
  BY <1>3 DEF BeginCycle
<1>4. CASE EndCycle
  <2>1. CASE Down
    BY <1>4, <2>1 DEF EndCycle, Down, Abandon
  <2>2. CASE ~Down
    BY <1>4, <2>2 DEF EndCycle
  <2> QED BY <2>1, <2>2
<1>5. CASE Wake
  BY <1>5 DEF Wake
<1>6. ASSUME NEW id \in Managed, NewOrder(id) PROVE TypeOK'
  <2>1. authz' \in [Names -> {"none", "pending", "ready", "valid", "invalid"}]
    BY <1>6 DEF NewOrder
  <2> QED BY <1>6, <2>1 DEF NewOrder, Foremost
<1>7. ASSUME NEW n \in Names, Publish(n) PROVE TypeOK'
  BY <1>7 DEF Publish
<1>8. CASE SetReady
  BY <1>8 DEF SetReady
<1>9. CASE Issue
  <2>1. Fresh(cur) \in Versions /\ cur \in Managed /\ Domains[cur] \in (SUBSET Names) \ {{}}
    BY <1>9, FreshVersion DEF Issue
  <2>2. CASE Unclaimed(cur, Domains[cur])
    <3>1. draft' \in Pair
      BY <1>9, <2>1, <2>2 DEF Issue, Pair
    <3> QED BY <1>9, <2>2, <3>1 DEF Issue
  <2>3. CASE ~Unclaimed(cur, Domains[cur])
    BY <1>9, <2>3 DEF Issue, Conclude
  <2> QED BY <2>2, <2>3
<1>10. CASE WriteTemporaries
  BY <1>10 DEF WriteTemporaries
<1>11. CASE ReplaceKey
  <2>1. draft.version \in Versions
    BY <1>11 DEF ReplaceKey, Pair
  <2> QED BY <1>11, <2>1 DEF ReplaceKey
<1>12. CASE ReplaceCertificate
  BY <1>12 DEF ReplaceCertificate
<1>13. CASE Reload
  <2>1. index' \in [Ids -> Pair \cup {NoPair}] /\ aged' \subseteq Managed
    BY <1>13 DEF Reload, Publication
  <2> QED BY <1>13, <2>1 DEF Reload, Conclude
<1>14. CASE CycleFails
  BY <1>14 DEF CycleFails
<1>15. CASE Fails
  <2>1. cut' \subseteq Managed
    BY <1>15 DEF Fails, Cut
  <2>2. faults' \in 0..MaxFaults
    BY <1>15 DEF Fails
  <2> QED BY <1>15, <2>1, <2>2 DEF Fails, Conclude, Abandon
<1>16. ASSUME NEW id \in Managed, NewOrderFails(id) PROVE TypeOK'
  BY <1>16 DEF NewOrderFails, Foremost
<1>17. ASSUME NEW n \in Names, Validate(n) PROVE TypeOK'
  BY <1>17 DEF Validate
<1>18. ASSUME NEW id \in Managed, Age(id) PROVE TypeOK'
  BY <1>18 DEF Age
<1>19. ASSUME NEW n \in Names, PassValid(n) PROVE TypeOK'
  BY <1>19 DEF PassValid
<1>20. ASSUME NEW n \in Names, Refuse(n) PROVE TypeOK'
  BY <1>20 DEF Refuse
<1>21. CASE Spoiled
  BY <1>21 DEF Spoiled, Conclude, Abandon
<1>22. CASE UNCHANGED vars
  BY <1>22
<1> QED BY <1>1, <1>2, <1>3, <1>4, <1>5, <1>6, <1>7, <1>8, <1>9, <1>10, <1>11,
           <1>12, <1>13, <1>14, <1>15, <1>16, <1>17, <1>18, <1>19, <1>20, <1>21, <1>22
        DEF Next, Manage, Save

(* The place of the manager is typed, its certificate is managed. *)
THEOREM TypeCorrect == Spec => []TypeOK
<1>1. Init => TypeOK
  BY InitInv DEF IInv
<1> QED BY <1>1, TypeStep, PTL DEF Spec

-----------------------------------------------------------------------------
(* Steps that touch neither the files nor what is served *)
LEMMA QuietStep ==
  ASSUME IInv,
         UNCHANGED <<cert, key, index, cut>>,
         phase' = "off" <=> phase = "off",
         \/ UNCHANGED <<pc, cur, draft>>
         \/ /\ pc # "cert" /\ pc' # "cert"
            /\ draft' = NoPair \/ (draft' = draft /\ cur' = cur)
  PROVE  TornInv' /\ StoredInv' /\ DraftInv' /\ DisjointInv'
<1>1. TornInv'
  BY DEF IInv, TornInv, Whole
<1>2. StoredInv'
  BY DEF IInv, StoredInv
<1>3. DraftInv'
  BY DEF IInv, DraftInv, Unclaimed
<1>4. DisjointInv'
  BY DEF IInv, DisjointInv, Overlap
<1> QED BY <1>1, <1>2, <1>3, <1>4

(* The end of an operation, whether it saved, failed or was dropped *)
LEMMA GiveUpStep ==
  ASSUME IInv, UNCHANGED files, cut' = Cut, draft' = NoPair, pc' # "cert",
         \/ UNCHANGED <<index, phase>> /\ phase # "off"
         \/ phase' = "off" /\ index' = [id \in Ids |-> NoPair]
  PROVE  TornInv' /\ StoredInv' /\ DraftInv' /\ DisjointInv'
<1>1. TornInv'
  BY DEF IInv, TornInv, Whole, Cut, files
<1>2. StoredInv'
  BY DEF IInv, StoredInv, files
<1>3. DraftInv'
  BY DEF DraftInv
<1>4. DisjointInv'
  BY DEF IInv, DisjointInv, Overlap, files
<1> QED BY <1>1, <1>2, <1>3, <1>4

LEMMA StartStep == IInv /\ Start => TornInv' /\ StoredInv' /\ DraftInv' /\ DisjointInv'
<1> SUFFICES ASSUME IInv, Start PROVE TornInv' /\ StoredInv' /\ DraftInv' /\ DisjointInv'
  OBVIOUS
<1> USE DEF Start, files
<1>1. TornInv'
  BY DEF TornInv, Loadable, Whole
<1>2. StoredInv'
  BY DEF StoredInv
<1>3. DraftInv'
  BY DEF DraftInv, IInv, TypeOK
<1>4. DisjointInv'
  BY DEF IInv, DisjointInv, Overlap
<1> QED BY <1>1, <1>2, <1>3, <1>4

LEMMA IssueStep == IInv /\ Issue => TornInv' /\ StoredInv' /\ DraftInv' /\ DisjointInv'
<1> SUFFICES ASSUME IInv, Issue PROVE TornInv' /\ StoredInv' /\ DraftInv' /\ DisjointInv'
  OBVIOUS
<1> USE DEF Issue, files, memory
<1>1. CASE Unclaimed(cur, Domains[cur])
  <2>1. TornInv'
    BY <1>1 DEF IInv, TornInv, Whole
  <2>2. StoredInv'
    BY <1>1 DEF IInv, StoredInv
  <2>3. DraftInv'
    BY <1>1 DEF DraftInv, Unclaimed
  <2>4. DisjointInv'
    BY <1>1 DEF IInv, DisjointInv, Overlap
  <2> QED BY <2>1, <2>2, <2>3, <2>4
<1>2. CASE ~Unclaimed(cur, Domains[cur])
  BY <1>2, QuietStep DEF Conclude
<1> QED BY <1>1, <1>2

LEMMA ReplaceKeyStep ==
  IInv /\ ReplaceKey => TornInv' /\ StoredInv' /\ DraftInv' /\ DisjointInv'
<1> SUFFICES ASSUME IInv, ReplaceKey
             PROVE  TornInv' /\ StoredInv' /\ DraftInv' /\ DisjointInv'
  OBVIOUS
<1> USE DEF ReplaceKey, memory
<1>0. cur \in Ids /\ key \in [Ids -> Versions \cup {NoPair}]
  BY CertificateAssumption DEF IInv, TypeOK
<1>1. TornInv'
  <2>1. key'[cur] = draft.version
    BY <1>0
  <2>2. ASSUME NEW id \in Ids, id # cur, ~Whole(id)' PROVE id \in cut
    BY <1>0, <2>2 DEF IInv, TornInv, Whole
  <2> QED BY <2>1, <2>2 DEF TornInv
<1>2. StoredInv'
  BY DEF IInv, StoredInv
<1>3. DraftInv'
  BY DEF IInv, DraftInv, Unclaimed
<1>4. DisjointInv'
  BY DEF IInv, DisjointInv, Overlap
<1> QED BY <1>1, <1>2, <1>3, <1>4

(* The only step that could make two certificates on disk claim one name:  *)
(* the other one is either served, and was looked at, or already replaced, *)
(* and then for its own configured names.                                  *)
LEMMA ReplaceCertificateStep ==
  IInv /\ ReplaceCertificate => TornInv' /\ StoredInv' /\ DraftInv' /\ DisjointInv'
<1> SUFFICES ASSUME IInv, ReplaceCertificate
             PROVE  TornInv' /\ StoredInv' /\ DraftInv' /\ DisjointInv'
  OBVIOUS
<1> USE DEF ReplaceCertificate, memory
<1>0. /\ cur \in Managed /\ cur \in Ids
      /\ cert \in [Ids -> Pair \cup {NoPair}]
      /\ draft \in Pair /\ draft # NoPair /\ phase # "off"
      /\ draft.names = Domains[cur] /\ Unclaimed(cur, Domains[cur])
  BY CertificateAssumption DEF IInv, TypeOK, DraftInv
<1>1. TornInv'
  <2>1. Whole(cur)'
    BY <1>0 DEF IInv, TornInv, Whole
  <2>2. ASSUME NEW id \in Ids, id # cur, ~Whole(id)' PROVE id \in cut'
    BY <1>0, <2>2 DEF IInv, TornInv, Whole
  <2> QED BY <2>1, <2>2 DEF TornInv
<1>2. StoredInv'
  <2>1. cert'[cur] # NoPair /\ cert'[cur].names = Domains[cur]
    BY <1>0
  <2>2. \A id \in Ids : id # cur => cert'[id] = cert[id]
    BY <1>0
  <2> QED BY <1>0, <2>1, <2>2 DEF IInv, StoredInv
<1>3. DraftInv'
  BY <1>0 DEF DraftInv, Unclaimed
<1>4. DisjointInv'
  <2>1. ASSUME NEW id \in Ids, id # cur, cert[id] # NoPair
        PROVE  cert[id].names \cap draft.names = {}
    <3>1. CASE cert[id] = index[id]
      BY <1>0, <2>1, <3>1 DEF Unclaimed
    <3>2. CASE id \in Managed /\ cert[id].names = Domains[id]
      BY <1>0, <2>1, <3>2, CertificateAssumption
    <3> QED BY <1>0, <2>1, <3>1, <3>2 DEF IInv, StoredInv
  <2>2. ASSUME NEW i \in Ids, NEW j \in Ids, Overlap(i, j)' PROVE FALSE
    <3>1. CASE i = cur
      BY <1>0, <2>1, <2>2, <3>1 DEF Overlap
    <3>2. CASE j = cur
      BY <1>0, <2>1, <2>2, <3>2 DEF Overlap
    <3>3. CASE i # cur /\ j # cur
      BY <1>0, <2>2, <3>3 DEF Overlap, IInv, DisjointInv
    <3> QED BY <3>1, <3>2, <3>3
  <2> QED BY <2>2 DEF DisjointInv
<1> QED BY <1>1, <1>2, <1>3, <1>4

LEMMA ReloadStep == IInv /\ Reload => TornInv' /\ StoredInv' /\ DraftInv' /\ DisjointInv'
<1> SUFFICES ASSUME IInv, Reload PROVE TornInv' /\ StoredInv' /\ DraftInv' /\ DisjointInv'
  OBVIOUS
<1> USE DEF Reload, Conclude, files
<1>1. TornInv'
  BY DEF IInv, TornInv, Whole
<1>2. StoredInv'
  BY DEF IInv, TypeOK, StoredInv, Publication
<1>3. DraftInv'
  BY DEF DraftInv
<1>4. DisjointInv'
  BY DEF IInv, DisjointInv, Overlap
<1> QED BY <1>1, <1>2, <1>3, <1>4

LEMMA InvStep == IInv /\ [Next]_vars => IInv'
<1> SUFFICES ASSUME IInv, [Next]_vars
             PROVE  TornInv' /\ StoredInv' /\ DraftInv' /\ DisjointInv'
  BY TypeStep DEF IInv
<1> USE DEF files, memory, cycle, vars
<1>0. TypeOK
  BY DEF IInv
<1>1. CASE Start
  BY <1>1, StartStep
<1>2. CASE Stop
  BY <1>2, GiveUpStep DEF Stop, Down
<1>3. CASE BeginCycle
  BY <1>0, <1>3, QuietStep DEF BeginCycle, TypeOK
<1>4. CASE EndCycle
  <2>1. CASE Down
    <3>1. cut' = Cut
      BY <1>4 DEF EndCycle, Cut
    <3> QED BY <1>4, <2>1, <3>1, GiveUpStep DEF EndCycle, Down
  <2>2. CASE ~Down
    BY <1>0, <1>4, <2>2, QuietStep DEF EndCycle, TypeOK
  <2> QED BY <2>1, <2>2
<1>5. CASE Wake
  BY <1>0, <1>5, QuietStep DEF Wake, TypeOK
<1>6. ASSUME NEW id \in Managed, NewOrder(id)
      PROVE  TornInv' /\ StoredInv' /\ DraftInv' /\ DisjointInv'
  <2>1. draft' = NoPair
    BY <1>0, <1>6 DEF NewOrder, TypeOK
  <2> QED BY <1>6, <2>1, QuietStep DEF NewOrder
<1>7. ASSUME NEW n \in Names, Publish(n)
      PROVE  TornInv' /\ StoredInv' /\ DraftInv' /\ DisjointInv'
  BY <1>7, QuietStep DEF Publish
<1>8. CASE SetReady
  BY <1>8, QuietStep DEF SetReady
<1>9. CASE Issue
  BY <1>9, IssueStep
<1>10. CASE WriteTemporaries
  BY <1>10, QuietStep DEF WriteTemporaries
<1>11. CASE ReplaceKey
  BY <1>11, ReplaceKeyStep
<1>12. CASE ReplaceCertificate
  BY <1>12, ReplaceCertificateStep
<1>13. CASE Reload
  BY <1>13, ReloadStep
<1>14. CASE CycleFails
  BY <1>0, <1>14, QuietStep DEF CycleFails, TypeOK
<1>15. CASE Fails
  <2>1. phase # "off"
    BY <1>0, <1>15 DEF Fails, TypeOK
  <2> QED BY <1>15, <2>1, GiveUpStep DEF Fails, Conclude
<1>16. ASSUME NEW id \in Managed, NewOrderFails(id)
       PROVE  TornInv' /\ StoredInv' /\ DraftInv' /\ DisjointInv'
  BY <1>16, QuietStep DEF NewOrderFails
<1>17. ASSUME NEW n \in Names, Validate(n)
       PROVE  TornInv' /\ StoredInv' /\ DraftInv' /\ DisjointInv'
  BY <1>17, QuietStep DEF Validate
<1>18. ASSUME NEW id \in Managed, Age(id)
       PROVE  TornInv' /\ StoredInv' /\ DraftInv' /\ DisjointInv'
  BY <1>18, QuietStep DEF Age
<1>19. ASSUME NEW n \in Names, PassValid(n) \/ Refuse(n)
       PROVE  TornInv' /\ StoredInv' /\ DraftInv' /\ DisjointInv'
  BY <1>19, QuietStep DEF PassValid, Refuse
<1>20. CASE Spoiled
  BY <1>20, QuietStep DEF Spoiled, Conclude
<1>21. CASE UNCHANGED vars
  BY <1>21, QuietStep
<1> QED BY <1>1, <1>2, <1>3, <1>4, <1>5, <1>6, <1>7, <1>8, <1>9, <1>10, <1>11,
           <1>12, <1>13, <1>14, <1>15, <1>16, <1>17, <1>18, <1>19, <1>20, <1>21
        DEF Next, Manage, Save

LEMMA Invariance == Spec => []IInv
BY InitInv, InvStep, PTL DEF Spec

-----------------------------------------------------------------------------
(* The directory loads at every moment unless the save of a pair ended     *)
(* between its two renames and was not repeated (save_certificate_pair).   *)
THEOREM StartAlwaysLoads == Spec => []StartLoads
<1>1. IInv => StartLoads
  BY DEF IInv, TornInv, DisjointInv, StartLoads, Loadable
<1> QED BY <1>1, Invariance, PTL

(* No failure and no half-done replacement takes a served certificate away *)
(* from a running gateway, and what replaces it matches the key on disk.   *)
THEOREM ServingKept == Spec => KeepsServing
<1>1. IInv /\ [Next]_vars =>
        [\A id \in Ids : index[id] # NoPair /\ phase' # "off" =>
           /\ index'[id] # NoPair
           /\ index'[id] # index[id] => index'[id].version = key[id]]_vars
  <2> SUFFICES ASSUME IInv, Next, NEW id \in Ids, index[id] # NoPair, phase' # "off"
               PROVE  /\ index'[id] # NoPair
                      /\ index'[id] # index[id] => index'[id].version = key[id]
    BY DEF vars
  <2> USE DEF files, memory
  <2>1. phase # "off"
    BY DEF IInv, StoredInv
  <2>2. index' = index \/ (Loadable /\ index' = cert)
    BY <2>1 DEF Next, Manage, Save, Start, Stop, Down, BeginCycle, EndCycle, Wake,
                NewOrder, Publish, SetReady, Issue, WriteTemporaries, ReplaceKey,
                ReplaceCertificate, Reload, Publication, CycleFails, Fails,
                NewOrderFails, PassValid, Validate, Refuse, Spoiled, Age
  <2>3. cert[id] # NoPair
    BY <2>1 DEF IInv, StoredInv
  <2> QED BY <2>2, <2>3 DEF Loadable, Whole
<1> QED BY <1>1, Invariance, PTL DEF Spec, KeepsServing

-----------------------------------------------------------------------------
(* What the CA was told and what the HTTP-01 server answers, by the place   *)
(* of the manager: the response is published before the CA is told; what is *)
(* published belongs to the order; and when a certificate is issued, which  *)
(* ends the order without a failure, the CA has validated every name of it. *)
OrderInv ==
  /\ pc = "announce" => chal \in published
  /\ cur = NoPair => published = {}
  /\ cur # NoPair => published \cup open \subseteq Domains[cur]
  /\ pc \in {"write", "key", "cert", "reload"} =>
       \A n \in Domains[cur] : authz[n] = "valid"

(* Steps of the manager, or of nobody, between two orders or calls *)
LEMMA IdleOrderStep ==
  ASSUME ChallengeServed, OrderInv, UNCHANGED <<published, authz, stray>>, open' \subseteq open,
         \/ cur' = cur /\ pc' \notin {"announce", "write", "key", "cert", "reload"}
         \/ cur' = cur /\ chal' = chal /\ pc' = pc
         \/ /\ cur' = cur /\ pc \in {"write", "key", "cert", "reload"}
            /\ pc' # "announce"
         \/ /\ cur' = cur /\ pc' \in {"write", "key", "cert", "reload"}
            /\ \A n \in Domains[cur] : authz[n] = "valid"
  PROVE  ChallengeServed' /\ OrderInv'
BY DEF ChallengeServed, OrderInv

(* The end of an order: what may still be fetched is remembered, or there  *)
(* is nothing to fetch any more.                                           *)
LEMMA OrderEnds ==
  ASSUME TypeOK, ChallengeServed, OrderInv, cur' = NoPair, published' = {},
         pc' \in {"down", "next"}, authz' = authz,
         \/ Abandon
         \/ /\ stray' = stray /\ cur # NoPair
            /\ \A n \in Domains[cur] : authz[n] = "valid"
  PROVE  ChallengeServed' /\ OrderInv'
<1>1. ChallengeServed'
  <2>1. CASE Abandon
    BY <2>1 DEF ChallengeServed, Abandon
  <2>2. CASE stray' = stray /\ cur # NoPair /\ \A n \in Domains[cur] : authz[n] = "valid"
    BY <2>2 DEF ChallengeServed, OrderInv
  <2> QED BY <2>1, <2>2
<1>2. OrderInv'
  BY DEF OrderInv
<1> QED BY <1>1, <1>2

LEMMA OrderStep ==
  TypeOK /\ ChallengeServed /\ OrderInv /\ [Next]_vars => ChallengeServed' /\ OrderInv'
<1> SUFFICES ASSUME TypeOK, ChallengeServed, OrderInv, [Next]_vars
             PROVE  ChallengeServed' /\ OrderInv'
  OBVIOUS
<1> USE DEF files, memory, cycle, order, vars
<1>1. CASE Start \/ BeginCycle \/ Wake \/ CycleFails
  BY <1>1, IdleOrderStep DEF Start, BeginCycle, Wake, CycleFails
<1>2. CASE Stop
  BY <1>2, OrderEnds DEF Stop, Down, Abandon
<1>3. CASE EndCycle
  <2>1. CASE Down
    BY <2>1, OrderEnds DEF Down, Abandon
  <2>2. CASE ~Down
    BY <1>3, <2>2, IdleOrderStep DEF EndCycle
  <2> QED BY <2>1, <2>2
<1>4. ASSUME NEW id \in Managed, NewOrder(id) PROVE ChallengeServed' /\ OrderInv'
  <2>1. published' = {} /\ published = {}
    BY <1>4 DEF NewOrder, OrderInv, TypeOK
  <2>2. ASSUME NEW n \in Names, authz'[n] = "ready" PROVE authz[n] = "ready"
    BY <1>4, <2>2 DEF NewOrder, Remembered
  <2>3. ChallengeServed'
    BY <1>4, <2>1, <2>2 DEF NewOrder, ChallengeServed
  <2>4. OrderInv'
    BY <1>4, <2>1 DEF NewOrder, OrderInv
  <2> QED BY <2>3, <2>4
<1>5. ASSUME NEW id \in Managed, NewOrderFails(id) \/ Age(id)
      PROVE  ChallengeServed' /\ OrderInv'
  BY <1>5, IdleOrderStep DEF NewOrderFails, Age
<1>6. ASSUME NEW n \in Names, PassValid(n) PROVE ChallengeServed' /\ OrderInv'
  BY <1>6, IdleOrderStep DEF PassValid
<1>7. ASSUME NEW n \in Names, Publish(n) PROVE ChallengeServed' /\ OrderInv'
  <2>1. ChallengeServed'
    BY <1>7 DEF Publish, ChallengeServed
  <2>2. n \in Domains[cur] /\ cur # NoPair
    BY <1>7 DEF Publish, TypeOK, OrderInv
  <2>3. OrderInv'
    BY <1>7, <2>2 DEF Publish, OrderInv
  <2> QED BY <2>1, <2>3
<1>8. CASE SetReady
  <2>1. chal \in published
    BY <1>8 DEF SetReady, OrderInv
  <2>2. ChallengeServed'
    BY <1>8, <2>1 DEF SetReady, ChallengeServed, TypeOK
  <2>3. OrderInv'
    BY <1>8 DEF SetReady, OrderInv
  <2> QED BY <2>2, <2>3
<1>9. CASE Spoiled
  BY <1>9, OrderEnds DEF Spoiled, Conclude, Abandon
<1>10. CASE Issue
  <2>1. cur # NoPair
    BY <1>10 DEF Issue, TypeOK
  <2>2. CASE Unclaimed(cur, Domains[cur])
    BY <1>10, <2>2, IdleOrderStep DEF Issue
  <2>3. CASE ~Unclaimed(cur, Domains[cur])
    BY <1>10, <2>1, <2>3, OrderEnds DEF Issue, Conclude
  <2> QED BY <2>2, <2>3
<1>11. CASE WriteTemporaries \/ ReplaceKey \/ ReplaceCertificate
  BY <1>11, IdleOrderStep DEF WriteTemporaries, ReplaceKey, ReplaceCertificate
<1>12. CASE Reload
  <2>1. cur # NoPair /\ \A n \in Domains[cur] : authz[n] = "valid"
    BY <1>12 DEF Reload, TypeOK, OrderInv
  <2> QED BY <1>12, <2>1, OrderEnds DEF Reload, Conclude
<1>13. CASE Fails
  BY <1>13, OrderEnds DEF Fails, Conclude, Abandon
<1>14. ASSUME NEW n \in Names, Validate(n) \/ Refuse(n)
       PROVE  ChallengeServed' /\ OrderInv'
  <2>1. ChallengeServed'
    BY <1>14 DEF Validate, Refuse, ChallengeServed, TypeOK
  <2>2. ASSUME NEW m \in Names, authz[m] = "valid" PROVE authz'[m] = "valid"
    BY <1>14, <2>2 DEF Validate, Refuse, TypeOK
  <2>3. cur # NoPair => Domains[cur] \subseteq Names
    BY Configuration DEF TypeOK
  <2>4. pc \in {"write", "key", "cert", "reload"} => cur # NoPair
    BY DEF TypeOK
  <2>5. OrderInv'
    BY <1>14, <2>2, <2>3, <2>4 DEF Validate, Refuse, OrderInv
  <2> QED BY <2>1, <2>5
<1>15. CASE UNCHANGED vars
  BY <1>15, IdleOrderStep
<1> QED BY <1>1, <1>2, <1>3, <1>4, <1>5, <1>6, <1>7, <1>8, <1>9, <1>10, <1>11,
           <1>12, <1>13, <1>14, <1>15
        DEF Next, Manage, Save

(* A challenge that the CA may fetch is answered, unless its order failed   *)
(* or its process stopped: the response is there before the CA is told, and *)
(* an order that does not fail ends only when the CA has validated it.      *)
THEOREM ChallengesAnswered == Spec => []ChallengeServed
<1>1. Init => ChallengeServed /\ OrderInv
  BY DEF Init, ChallengeServed, OrderInv
<1> QED BY <1>1, OrderStep, TypeCorrect, PTL DEF Spec
=============================================================================
