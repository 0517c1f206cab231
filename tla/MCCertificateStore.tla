------------------------- MODULE MCCertificateStore -------------------------
(* An instance of CertificateStore for TLC: c is a certificate that the     *)
(* manager does not renew, w a wildcard.                                    *)
EXTENDS CertificateStore, TLC

CONSTANTS a, b, c, x, y, w

MCRank == (a :> 2) @@ (b :> 1)
MCDomains == (a :> {x}) @@ (b :> {y})
Old(names) == [version |-> 0, names |-> names]
Dir(forA, forB, forC) ==
  LET File(names) == IF names = {} THEN NoPair ELSE Old(names)
  IN  (a :> File(forA)) @@ (b :> File(forB)) @@ (c :> File(forC))

(* Nothing; one certificate; one for both names; one under the wrong id;    *)
(* with a wildcard; two to be exchanged; names that c has.                  *)
MCDisks == {Dir({}, {}, {}), Dir({x}, {}, {}), Dir({x, y}, {}, {}), Dir({y}, {}, {}),
            Dir({x, w}, {}, {}), Dir({y}, {x}, {}), Dir({y}, {}, {x}), Dir({x}, {}, {y})}
=============================================================================
