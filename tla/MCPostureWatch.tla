--------------------------- MODULE MCPostureWatch ---------------------------
(* Small instances of PostureWatch for TLC. *)
EXTENDS PostureWatch, TLC

Symmetry == Permutations(Keys)

\* A deployment as the runbook wants it, and the deployments that differ from it
\* in up to three settings.
Hardened ==
  [privilege |-> "user", loopback |-> TRUE, token |-> TRUE, unauthenticated |-> FALSE,
   backend |-> "gog-agent-safe", auth |-> "signature", secret |-> FALSE, keys |-> TRUE,
   keyring |-> {"active"}, hmac |-> EvidenceVariables, rotation |-> TRUE, roots |-> TRUE,
   exposed |-> {}, gogHome |-> TRUE, attested |-> TRUE]

MCDeployments ==
  {Hardened}
    \cup {[Hardened EXCEPT !.privilege = p] : p \in {"root", "unknown"}}
    \cup {[Hardened EXCEPT !.loopback = l, !.token = t, !.unauthenticated = u] :
            l \in BOOLEAN, t \in BOOLEAN, u \in BOOLEAN}
    \cup {[Hardened EXCEPT !.backend = b, !.gogHome = g] :
            b \in {"fake", "gog-agent-safe", "gog"}, g \in BOOLEAN}
    \cup {[Hardened EXCEPT !.auth = "hmac", !.secret = s] : s \in BOOLEAN}
    \cup {[Hardened EXCEPT !.keys = k, !.keyring = r] :
            k \in BOOLEAN, r \in SUBSET {"active", "inactive", "bad"}}
    \cup {[Hardened EXCEPT !.hmac = v, !.rotation = r, !.attested = a] :
            v \in SUBSET EvidenceVariables, r \in BOOLEAN, a \in BOOLEAN}
    \cup {[Hardened EXCEPT !.roots = r, !.exposed = e] :
            r \in BOOLEAN, e \in SUBSET (Paths \cup {"gog_home"})}
=============================================================================
