-------------------------- MODULE AtomicBlockFile --------------------------
(***************************************************************************)
(* What the block-state writer promises its callers about the state file:  *)
(* after a crash the file holds one of a known set of complete contents,   *)
(* which a write attempt may enlarge by the new content only and which a   *)
(* completed write, or the crash itself, narrows to one content.           *)
(***************************************************************************)
CONSTANTS Content, \* every complete content a caller may write
          NoFile   \* the file does not exist yet

VARIABLE poss      \* the contents that a crash at this moment may leave

Init == poss \in { {c} : c \in Content \cup {NoFile} }

Attempt(c) == poss' = poss \cup {c}

Settle == \E c \in poss : poss' = {c}

Next == Settle \/ \E c \in Content : Attempt(c)

Spec == Init /\ [][Next]_poss
=============================================================================
