-------------------------- MODULE CertificateStore --------------------------
(***************************************************************************)
(* The certificates of the gateway: the pair of files each certificate has *)
(* on disk (src/src/acme/storage.rs), the index they are served from       *)
(* (src/src/tls/store.rs), the ACME manager that replaces them             *)
(* (src/src/acme/manager.rs) and the start of the gateway that depends on  *)
(* them (src/src/gateway/listener.rs).                                     *)
(*                                                                         *)
(* One action is what the manager does between two awaits that matter:     *)
(* the calls to the CA, the publication of a challenge, each rename, the   *)
(* reload.  The process may stop at any of them, by shutdown or crash.     *)
(* A certificate is the version of its key and the names it is for.        *)
(***************************************************************************)
EXTENDS Naturals, FiniteSets

CONSTANTS
  Ids,        \* certificate ids: file names in tls.cert_dir
  Names, Wild, \* DNS names, and the wildcards among them
  Managed,    \* acme.certificates: ids,
  Rank,       \*   their order in the list,
  Domains,    \*   and their domains
  Default,    \* tls.default_certificate, or NoPair
  Versions,   \* key pairs
  NoPair,
  Disks,      \* what the operator may have put into the directory
  MaxFaults,  \* bound: how often a call of the manager may fail
  MaxStops    \* bound: how often the process may stop

Pair == [version : Versions, names : (SUBSET Names) \ {{}}]

(* What config/mod.rs accepts, and directories that load. *)
ASSUME CertificateAssumption ==
  /\ IsFiniteSet(Ids) /\ NoPair \notin Pair \cup Versions \cup Ids \cup Names
  /\ Wild \subseteq Names
  /\ Managed \subseteq Ids /\ Managed # {}
  /\ Rank \in [Managed -> Nat]
  /\ \A i, j \in Managed : i # j => Rank[i] # Rank[j]
  /\ Domains \in [Managed -> (SUBSET (Names \ Wild)) \ {{}}]
  /\ \A i, j \in Managed : i # j => Domains[i] \cap Domains[j] = {}
  /\ Default \in Ids \cup {NoPair}
  /\ Disks \subseteq [Ids -> Pair \cup {NoPair}]
  /\ \A disk \in Disks : \A i, j \in Ids :
       i # j /\ disk[i] # NoPair /\ disk[j] # NoPair =>
         disk[i].names \cap disk[j].names = {}
  /\ \A u, v, w \in Versions \cup {NoPair} : \E fresh \in Versions : fresh \notin {u, v, w}
  /\ MaxFaults \in Nat /\ MaxStops \in Nat

VARIABLES
  cert, key,  \* the files, by id
  index,      \* CertificateStore.index: what is served, by id
  aged,       \* served certificates whose renewal time has come
  phase,      \* "off", "bootstrap" (before the listener runs) or "serving"
  pc,         \* where the manager is
  due,        \* certificates the cycle has still to issue
  cur,        \* the certificate being issued
  draft,      \* the issued pair that is not on disk yet
  open,       \* authorizations the manager has not looked at yet
  chal,       \* the one whose challenge it is about to set ready
  published,  \* names whose challenge response the HTTP-01 server gives
  authz,      \* what the CA has of each name, and keeps
  stray,      \* history: challenges set ready for an order since given up
  cut,        \* history: pairs whose last save ended between its renames
  faults, stops

files == <<cert, key>>
memory == <<index, aged, phase>>
cycle == <<pc, due, cur, draft>>
order == <<open, chal, published, authz, stray>>
bounds == <<faults, stops>>
vars == <<files, memory, cycle, order, cut, bounds>>

-----------------------------------------------------------------------------
(* Loading *)

Whole(id) == key[id] = IF cert[id] = NoPair THEN NoPair ELSE cert[id].version

Overlap(i, j) == /\ i # j /\ cert[i] # NoPair /\ cert[j] # NoPair
                 /\ cert[i].names \cap cert[j].names # {}

(* load_index: one pair that is incomplete or does not match, or one name  *)
(* with two certificates, and nothing is loaded.                           *)
Loadable == /\ \A id \in Ids : Whole(id)
            /\ \A i, j \in Ids : ~Overlap(i, j)

Empty(certs) == \A id \in Ids : certs[id] = NoPair

CanServe(certs) == /\ ~Empty(certs)
                   /\ Default \in Ids => certs[Default] # NoPair \/ Default \in Managed

(* should_issue: wildcards are left out of the comparison. *)
Due(id) == \/ index[id] = NoPair
           \/ index[id].names \ Wild # Domains[id]
           \/ id \in aged

-----------------------------------------------------------------------------
Init == /\ cert \in Disks
        /\ key = [id \in Ids |-> IF cert[id] = NoPair THEN NoPair ELSE cert[id].version]
        /\ index = [id \in Ids |-> NoPair] /\ aged = {}
        /\ phase = "off" /\ pc = "down"
        /\ due = {} /\ cur = NoPair /\ draft = NoPair
        /\ open = {} /\ chal = NoPair /\ published = {} /\ stray = {}
        /\ authz = [n \in Names |-> "none"]
        /\ cut = {} /\ faults = 0 /\ stops = 0

(* An order is given up: the CA may go on with what it was told to do. *)
Abandon == /\ stray' = stray \cup {n \in Names : authz[n] = "ready"}
           /\ UNCHANGED authz

(* The end of a process: the files stay, the rest goes. *)
Down == /\ index' = [id \in Ids |-> NoPair] /\ aged' = {}
        /\ phase' = "off" /\ pc' = "down"
        /\ due' = {} /\ cur' = NoPair /\ draft' = NoPair
        /\ open' = {} /\ chal' = NoPair /\ published' = {}
        /\ Abandon
        /\ UNCHANGED files

(* CertificateStore::load and bootstrap_if_store_empty.  A directory that  *)
(* does not load, or lacks the default, ends the process.                  *)
Start == /\ phase = "off" /\ Loadable
         /\ Empty(cert) \/ CanServe(cert)
         /\ index' = cert
         /\ phase' = IF Empty(cert) THEN "bootstrap" ELSE "serving"
         /\ pc' = "cycle"
         /\ UNCHANGED <<files, aged, due, cur, draft, order, cut, bounds>>

(* should_issue for each certificate *)
BeginCycle == /\ pc = "cycle"
              /\ due' = {id \in Managed : Due(id)}
              /\ pc' = "next"
              /\ UNCHANGED <<files, memory, cur, draft, order, cut, bounds>>

(* ensure_account fails: nothing is issued in this cycle. *)
CycleFails == /\ pc = "cycle" /\ faults < MaxFaults
              /\ faults' = faults + 1
              /\ pc' = "next"
              /\ UNCHANGED <<files, memory, due, cur, draft, order, cut, stops>>

EndCycle == /\ pc = "next" /\ due = {}
            /\ \/ /\ phase = "serving" /\ pc' = "sleep" /\ UNCHANGED <<files, memory, due, cur, draft, order>>
               \/ /\ phase = "bootstrap" /\ CanServe(index)
                  /\ phase' = "serving" /\ pc' = "cycle"
                  /\ UNCHANGED <<files, index, aged, due, cur, draft, order>>
               \/ phase = "bootstrap" /\ ~CanServe(index) /\ Down
            /\ UNCHANGED <<cut, bounds>>

Wake == /\ pc = "sleep" /\ pc' = "cycle"
        /\ UNCHANGED <<files, memory, due, cur, draft, order, cut, bounds>>

-----------------------------------------------------------------------------
(* issue_certificate *)

Foremost(id) == id \in due /\ \A other \in due : Rank[id] <= Rank[other]

(* What a new order finds at the CA: a name still valid, a challenge that  *)
(* an earlier order set ready, or a new authorization.                     *)
Remembered(state) == {"pending"} \cup ({state} \cap {"valid", "ready"})

NewOrder(id) == /\ pc = "next" /\ Foremost(id)
                /\ due' = due \ {id} /\ cur' = id
                /\ open' = Domains[id]
                /\ \E states \in [Domains[id] -> {"pending", "ready", "valid"}] :
                     /\ \A n \in Domains[id] : states[n] \in Remembered(authz[n])
                     /\ authz' = [n \in Names |-> IF n \in Domains[id] THEN states[n]
                                                                      ELSE authz[n]]
                /\ pc' = "authorize"
                /\ UNCHANGED <<files, memory, draft, chal, published, stray, cut, bounds>>

NewOrderFails(id) == /\ pc = "next" /\ Foremost(id) /\ faults < MaxFaults
                     /\ due' = due \ {id} /\ faults' = faults + 1
                     /\ UNCHANGED <<files, memory, pc, cur, draft, order, cut, stops>>

PassValid(n) == /\ pc = "authorize" /\ n \in open /\ authz[n] = "valid"
                /\ open' = open \ {n}
                /\ UNCHANGED <<files, memory, cycle, chal, published, authz, stray, cut, bounds>>

(* Mutant: the response is there only after the CA was told. *)
PublishLate(n) == /\ pc = "authorize" /\ n \in open /\ authz[n] \in {"pending", "ready"}
                  /\ open' = open \ {n} /\ chal' = n
                  /\ pc' = "announce"
                  /\ UNCHANGED <<files, memory, due, cur, draft, published, authz, stray, cut, bounds>>

Publish(n) == /\ pc = "authorize" /\ n \in open /\ authz[n] \in {"pending", "ready"}
              /\ open' = open \ {n} /\ chal' = n
              /\ published' = published \cup {n}
              /\ pc' = "announce"
              /\ UNCHANGED <<files, memory, due, cur, draft, authz, stray, cut, bounds>>

SetReady == /\ pc = "announce" /\ authz[chal] # "invalid"
            /\ authz' = IF authz[chal] = "pending" THEN [authz EXCEPT ![chal] = "ready"] ELSE authz
            /\ stray' = stray \ {chal} /\ chal' = NoPair
            /\ pc' = "authorize"
            /\ UNCHANGED <<files, memory, due, cur, draft, open, published, cut, bounds>>

(* The CA fetches the response ...                                         *)
Validate(n) == /\ authz[n] = "ready" /\ n \in published
               /\ authz' = [authz EXCEPT ![n] = "valid"]
               /\ UNCHANGED <<files, memory, cycle, open, chal, published, stray, cut, bounds>>

(* ... or finds none, or cannot reach it.                                  *)
Refuse(n) == /\ authz[n] = "ready" /\ faults < MaxFaults
             /\ faults' = faults + 1
             /\ authz' = [authz EXCEPT ![n] = "invalid"]
             /\ UNCHANGED <<files, memory, cycle, open, chal, published, stray, cut, stops>>

(* The operation ends, with whatever result; its tokens are removed. *)
Conclude == /\ pc' = "next" /\ cur' = NoPair /\ draft' = NoPair
            /\ open' = {} /\ chal' = NoPair /\ published' = {}
            /\ UNCHANGED due

(* The authorization, the challenge or the order turns out to be invalid. *)
Spoiled == /\ pc \in {"authorize", "announce"}
           /\ \E n \in Domains[cur] : authz[n] = "invalid"
           /\ Conclude /\ Abandon
           /\ UNCHANGED <<files, memory, cut, bounds>>

(* Mutant: the names of other certificates are not looked at. *)
Unchecked(id, names) == TRUE

(* validate_replacement looks at what is served, not at the disk. *)
Unclaimed(id, names) == \A other \in Ids \ {id} :
  index[other] # NoPair => index[other].names \cap names = {}

(* A fresh key; which one makes no difference. *)
Fresh(id) == CHOOSE v \in Versions :
  v \notin {key[id]} \cup {p.version : p \in {cert[id], index[id]} \ {NoPair}}

Issue == /\ pc = "authorize" /\ open = {}
         /\ \A n \in Domains[cur] : authz[n] = "valid"
         /\ IF Unclaimed(cur, Domains[cur])
            THEN /\ draft' = [version |-> Fresh(cur), names |-> Domains[cur]]
                 /\ pc' = "write"
                 /\ UNCHANGED <<due, cur, order>>
            ELSE Conclude /\ UNCHANGED <<authz, stray>>
         /\ UNCHANGED <<files, memory, cut, bounds>>

(* Both temporary files, whose names are never used twice. *)
WriteTemporaries == /\ pc = "write" /\ pc' = "key"
                    /\ UNCHANGED <<files, memory, due, cur, draft, order, cut, bounds>>

ReplaceKey == /\ pc = "key"
              /\ key' = [key EXCEPT ![cur] = draft.version]
              /\ pc' = "cert"
              /\ UNCHANGED <<cert, memory, due, cur, draft, order, cut, bounds>>

ReplaceCertificate == /\ pc = "cert"
                      /\ cert' = [cert EXCEPT ![cur] = draft]
                      /\ cut' = cut \ {cur}
                      /\ pc' = "reload"
                      /\ UNCHANGED <<key, memory, due, cur, draft, order, bounds>>

(* Mutant: a bad pair is left out instead of failing the load. *)
PublicationOfTheRest == /\ index' = [id \in Ids |-> IF Whole(id) THEN cert[id] ELSE NoPair]
                        /\ aged' = {id \in aged : index[id] = cert[id]}

(* Mutant: the new pair is stored, and not loaded. *)
PublicationForgotten == UNCHANGED <<index, aged>>

Publication == IF Loadable
               THEN index' = cert /\ aged' = {id \in aged : index[id] = cert[id]}
               ELSE UNCHANGED <<index, aged>>

Reload == /\ pc = "reload"
          /\ Publication
          /\ Conclude
          /\ UNCHANGED <<files, phase, authz, stray, cut, bounds>>

(* Any call of the operation fails: the CA, the HTTP-01 listener, a        *)
(* certificate for other names, a file operation, a read of the reload.    *)
Cut == IF pc = "cert" THEN cut \cup {cur} ELSE cut

Fails == /\ pc \in {"authorize", "announce", "write", "key", "cert", "reload"}
         /\ faults < MaxFaults
         /\ faults' = faults + 1
         /\ cut' = Cut
         /\ Conclude /\ Abandon
         /\ UNCHANGED <<files, memory, stops>>

(* Shutdown drops the cycle at its await, a crash does no more. *)
Stop == /\ phase # "off" /\ stops < MaxStops
        /\ stops' = stops + 1
        /\ cut' = Cut
        /\ Down
        /\ UNCHANGED faults

(* The ARI window or the expiry limit of a served certificate is reached. *)
Age(id) == /\ phase = "serving" /\ index[id] # NoPair
           /\ aged' = aged \cup {id}
           /\ UNCHANGED <<files, index, phase, cycle, order, cut, bounds>>

Save == WriteTemporaries \/ ReplaceKey \/ ReplaceCertificate \/ Reload

Manage == \/ BeginCycle \/ EndCycle \/ Wake
          \/ \E id \in Managed : NewOrder(id)
          \/ \E n \in Names : PassValid(n) \/ Publish(n)
          \/ SetReady \/ Spoiled \/ Issue \/ Save

Next == \/ Start \/ Stop \/ Manage
        \/ CycleFails \/ Fails \/ \E id \in Managed : NewOrderFails(id)
        \/ \E n \in Names : Validate(n) \/ Refuse(n)
        \/ \E id \in Managed : Age(id)

(* The scheduler polls the manager; the CA answers, or a timer does.       *)
(* Failures are finitely many, by MaxFaults.                               *)
Fairness == WF_vars(Manage) /\ \A n \in Names : WF_vars(Validate(n))

Spec == Init /\ [][Next]_vars
FairSpec == Spec /\ Fairness

-----------------------------------------------------------------------------
(* Types, and what belongs to which place of the manager *)
TypeOK ==
  /\ cert \in [Ids -> Pair \cup {NoPair}]
  /\ key \in [Ids -> Versions \cup {NoPair}]
  /\ index \in [Ids -> Pair \cup {NoPair}]
  /\ aged \subseteq Managed
  /\ phase \in {"off", "bootstrap", "serving"}
  /\ pc \in {"down", "cycle", "next", "authorize", "announce", "write", "key",
             "cert", "reload", "sleep"}
  /\ pc = "down" <=> phase = "off"
  /\ due \subseteq Managed
  /\ cur \in Managed \cup {NoPair}
  /\ cur = NoPair <=> pc \in {"down", "cycle", "next", "sleep"}
  /\ draft \in Pair \cup {NoPair}
  /\ draft # NoPair <=> pc \in {"write", "key", "cert", "reload"}
  /\ chal \in Names \cup {NoPair} /\ chal # NoPair <=> pc = "announce"
  /\ open \subseteq Names /\ published \subseteq Names /\ stray \subseteq Names
  /\ authz \in [Names -> {"none", "pending", "ready", "valid", "invalid"}]
  /\ cut \subseteq Managed
  /\ faults \in 0..MaxFaults /\ stops \in 0..MaxStops

(* Unless a save was cut short between its two renames, and not repeated,  *)
(* the directory loads at every moment but that one: the next start        *)
(* succeeds, and no replacement the manager accepted ever claims a name of *)
(* another certificate (validate_replacement, save_certificate_pair).      *)
StartLoads == cut = {} /\ pc # "cert" => Loadable

(* A challenge that the CA may fetch has its response on the HTTP-01       *)
(* server, unless it was set ready for an order that has failed since, or  *)
(* whose process stopped, and not again: the response is there before the  *)
(* CA is told ("hard ordering contract"), and an operation that does not   *)
(* fail removes it, with its other tokens, only after the CA has validated *)
(* it.                                                                     *)
ChallengeServed ==
  \A n \in Names : authz[n] = "ready" => n \in published \cup stray

(* A running gateway never ceases to serve a certificate: a failed or      *)
(* half-done replacement leaves the served one in place (reload).          *)
KeepsServing == [][\A id \in Ids : index[id] # NoPair /\ phase' # "off" =>
                     /\ index'[id] # NoPair
                     /\ index'[id] # index[id] => index'[id].version = key[id]]_vars

(* A torn pair that the manager has no reason to issue again *)
Neglected == \E id \in cut : ~Due(id)

(* A name that another served certificate has: validate_replacement refuses *)
(* every certificate for it.                                               *)
Claimed(id, others) ==
  \E other \in others \ {id} : /\ index[other] # NoPair
                               /\ index[other].names \cap Domains[id] # {}

(* Nobody gives the name up: a certificate that the manager does not renew *)
(* has it, or one that waits in its turn, as when two are to exchange.     *)
Barred(id) == \E bar \in SUBSET Managed :
                /\ id \in bar
                /\ \A i \in bar : Claimed(i, bar \cup (Ids \ Managed))

(* Once nothing fails any more a certificate that is missing, for other    *)
(* names or old is replaced and served, although earlier failures may have *)
(* torn several pairs and names may have to move between certificates.     *)
(* The exceptions: another pair is torn, but not due itself, so that nobody *)
(* repairs it (should_issue looks at what is served, reload at what is on  *)
(* disk); and names that have to be given up by a certificate that nobody  *)
(* replaces, or that are to be exchanged (validate_replacement).           *)
DueIsRenewed == \A id \in Managed :
  (phase = "serving" /\ Due(id))
    ~> (phase # "serving" \/ ~Due(id) \/ Neglected \/ Barred(id))
=============================================================================
