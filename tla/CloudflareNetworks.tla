------------------------- MODULE CloudflareNetworks -------------------------
(***************************************************************************)
(* src/src/security/cloudflare.rs: the networks requests are judged by,    *)
(* the cache file they come from, and the maintenance task that replaces   *)
(* both once the file is 30 days old.  A content is what parse_networks    *)
(* makes of it: a version of each family, or something it refuses.         *)
(*                                                                         *)
(* The directory is not synced after the rename: until the file system     *)
(* gets to it, a power loss brings back what the path named before.        *)
(* Temporary files have names of their own; one that a crash leaves behind *)
(* is not looked at again.                                                 *)
(***************************************************************************)
EXTENDS Naturals

CONSTANTS
  Versions,      \* of what Cloudflare publishes, an interval of Nat
  NoFile, Bad,   \* no cache file; one that does not parse, not of our making
  Torn,          \* what a power loss makes of data that was not synced
  Missing,
  MaxFaults, MaxStops

Families == {"v4", "v6"}
Contents == [Families -> Versions]
Loadable(content) == content \in Contents      \* parse_networks

Nothing == [f \in Families |-> Missing]

VARIABLES
  origin,    \* what www.cloudflare.com serves
  pc,        \* of load and then of the maintenance task
  networks,  \* the ArcSwap, or Missing before load has returned
  got,       \* what a refresh has downloaded
  synced,    \* whether its temporary file is
  file, shadow,  \* the cache file; what a power loss may make of it
  stamp,     \* its modification time: "recent", "old", or "future"
  faults, stops

vars == <<origin, pc, networks, got, synced, file, shadow, stamp, faults, stops>>
disk == <<file, shadow, stamp>>

Serving == networks # Missing
Refreshing == {"fetch", "create", "write", "sync", "rename"}

Init ==
  /\ origin \in Contents /\ \A f \in Families : \A v \in Versions : origin[f] <= v
  /\ pc = "down" /\ networks = Missing /\ got = Nothing /\ synced = FALSE
  /\ file \in {NoFile, Bad, origin} /\ shadow = {} /\ stamp \in {"recent", "old", "future"}
  /\ faults = 0 /\ stops = 0

Goes(place) == pc' = place /\ UNCHANGED <<origin, faults, stops>>

-----------------------------------------------------------------------------
(* The process, and the loop of its maintenance task *)

Start == pc = "down" /\ Goes("load") /\ UNCHANGED <<networks, got, synced, disk>>

Load == /\ pc = "load"
        /\ \/ Loadable(file) /\ networks' = file /\ Goes("look")
           \/ ~Loadable(file) /\ Goes("fetch") /\ UNCHANGED networks
        /\ UNCHANGED <<got, synced, disk>>

(* Mutant: a file from the future counts as recent. *)
DueIfOld == stamp = "old"

Due == stamp # "recent"                        \* cache_needs_refresh

Look == /\ pc = "look" /\ Goes(IF Due THEN "fetch" ELSE "sleep")
        /\ UNCHANGED <<networks, got, synced, disk>>

Wake == pc = "sleep" /\ Goes("look") /\ UNCHANGED <<networks, got, synced, disk>>

-----------------------------------------------------------------------------
(* refresh: both downloads at once, then persist_cache, then the store *)

Fetch(f) ==
  /\ pc = "fetch" /\ got[f] = Missing
  /\ got' = [got EXCEPT ![f] = origin[f]]
  /\ Goes(IF \A g \in Families \ {f} : got[g] # Missing THEN "create" ELSE "fetch")
  /\ UNCHANGED <<networks, synced, disk>>

Create == pc = "create" /\ Goes("write") /\ synced' = FALSE /\ UNCHANGED <<networks, got, disk>>
Write == pc = "write" /\ Goes("sync") /\ UNCHANGED <<networks, got, synced, disk>>

(* Mutant: renamed without sync_all. *)
SyncSkipped == pc = "sync" /\ Goes("rename") /\ UNCHANGED <<networks, got, synced, disk>>

Sync == pc = "sync" /\ Goes("rename") /\ synced' = TRUE /\ UNCHANGED <<networks, got, disk>>

(* The path names the new file; what it named, or, unsynced, anything, may *)
(* be there after a power loss.                                            *)
Renamed == /\ file' = got /\ stamp' = "recent"
           /\ shadow' = shadow \cup {file} \cup (IF synced THEN {} ELSE {Torn})

Rename == pc = "rename" /\ Renamed /\ Goes("store") /\ UNCHANGED <<networks, got, synced>>

Store == /\ pc = "store" /\ networks' = got /\ got' = Nothing
         /\ Goes(IF Serving THEN "sleep" ELSE "look") /\ UNCHANGED <<synced, disk>>

(* Any step of the refresh fails: the temporary file is removed, load gives *)
(* up, the maintenance task goes on with the networks it has.               *)
RefreshFails ==
  /\ pc \in Refreshing /\ faults < MaxFaults /\ faults' = faults + 1
  /\ pc' = IF Serving THEN "sleep" ELSE "down"
  /\ got' = Nothing /\ UNCHANGED <<origin, networks, synced, disk, stops>>

-----------------------------------------------------------------------------
(* The world *)

(* The shutdown is noticed, by a refresh or a sleep, and the task ends; a   *)
(* rename under way happens or not.  Requests are served to the end.       *)
Shutdown ==
  /\ Serving /\ pc \in Refreshing \cup {"store", "sleep"} /\ Goes("drained")
  /\ got' = Nothing /\ UNCHANGED <<networks, synced>>
  /\ UNCHANGED disk \/ (pc = "rename" /\ Renamed)

Gone == /\ stops < MaxStops /\ stops' = stops + 1 /\ pc # "down" /\ pc' = "down"
        /\ networks' = Missing /\ got' = Nothing /\ UNCHANGED <<origin, synced, faults>>

(* The end of the process, or a crash. *)
Ends == Gone /\ (UNCHANGED disk \/ (pc = "rename" /\ Renamed))

PowerLoss == /\ Gone /\ file' \in {file} \cup shadow /\ shadow' = {}
             /\ stamp' \in {"recent", "old"}

Flush == shadow # {} /\ shadow' = {} /\ UNCHANGED <<origin, pc, networks, got, synced, file, stamp, faults, stops>>

(* 30 days pass, or the clock is set. *)
Passes == /\ stamp' \in {"old", "future"} \ {stamp}
          /\ UNCHANGED <<origin, pc, networks, got, synced, file, shadow, faults, stops>>

Publish(f) == /\ \E v \in Versions : v = origin[f] + 1 /\ origin' = [origin EXCEPT ![f] = v]
              /\ UNCHANGED <<pc, networks, got, synced, disk, faults, stops>>

Next ==
  \/ Start \/ Load \/ Look \/ Wake
  \/ \E f \in Families : Fetch(f) \/ Publish(f)
  \/ Create \/ Write \/ Sync \/ Rename \/ Store \/ RefreshFails
  \/ Shutdown \/ Ends \/ PowerLoss \/ Flush \/ Passes

Fairness == /\ WF_vars(Look) /\ WF_vars(Wake) /\ \A f \in Families : WF_vars(Fetch(f))
            /\ WF_vars(Create) /\ WF_vars(Write) /\ WF_vars(Sync) /\ WF_vars(Rename) /\ WF_vars(Store)

Spec == Init /\ [][Next]_vars /\ Fairness

-----------------------------------------------------------------------------
(* Properties *)

(* Of the constants, assumed where they get values. *)
NetworkAssumption ==
  /\ Missing \notin Versions \cup Contents
  /\ Torn \notin Contents \cup {NoFile, Bad}

(* The types, with what each place of the task has in hand. *)
TypeOK ==
  /\ origin \in Contents
  /\ pc \in Refreshing \cup {"down", "load", "look", "sleep", "store", "drained"}
  /\ networks \in Contents \cup {Missing}
  /\ Serving <=> networks \in Contents
  /\ got \in [Families -> Versions \cup {Missing}]
  /\ pc \in {"create", "write", "sync", "rename", "store"} => got \in Contents
  /\ pc \in {"down", "load"} => ~Serving
  /\ pc \in {"look", "sleep", "drained"} => Serving
  /\ {file} \cup shadow \subseteq Contents \cup {NoFile, Bad}

(* What requests are judged by is one whole download of both families, and *)
(* the cache file holds it, or the one about to be stored: a process that   *)
(* dies starts again without the network.  No power loss leaves a file that *)
(* is neither the new nor an earlier one.                                   *)
ServedIsKept ==
  /\ Serving =>
       /\ networks \in Contents /\ file \in Contents
       /\ pc \notin {"store", "drained"} => file = networks
  /\ Torn \notin shadow \cup {file}

(* Networks are refreshed once they are due, whatever the clock says, when  *)
(* downloads and file operations cease to fail.                             *)
DueIsRefreshed ==
  Serving /\ stamp # "recent" ~> pc \in {"down", "drained"} \/ stamp = "recent"
=============================================================================
