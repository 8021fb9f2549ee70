----------------------------- MODULE MCSessions -----------------------------
(***************************************************************************)
(* Instances of Sessions for TLC.                                           *)
(***************************************************************************)
EXTENDS Sessions, TLC

\* Processes, request slots and sockets are interchangeable.
Symmetry == Permutations(Processes) \cup Permutations(Requests) \cup Permutations(Sockets)

\* In a behaviour requests overlap, or Redis fails, or a token grows old, or a
\* request dies between its steps, or a user is marked or cut off from elsewhere.
Kinds == {k \in {"overlap", "fault", "age", "cut", "elsewhere"} :
            CASE k = "overlap" -> overlap
              [] k = "fault" -> faulty
              [] k = "age" -> \E j \in Token : life[j] # "valid"
              [] k = "cut" -> cut
              [] k = "elsewhere" -> elsewhere # {}}
\* Where sockets are open, no process revoked a token on its own.
InUse == (\E s \in Sockets : sockets[s] # Closed) \/ (\E u \in Users : shown[u]) \/ news # <<>>
\* Where Redis fails, one user comes, and with a second pair one token is
\* revoked at a time.
OneUser ==
  \E x \in Users : /\ \A n \in DOMAIN pairs : pairs[n].user = x
                   /\ \A r \in Requests : req[r] # Idle => req[r].user = x
Listed == bl \cup UNION {mem[p] : p \in Processes}
\* The states with the last pair are reached, and not left.
Bounded ==
  /\ Len(pairs) < MaxPairs
  /\ Cardinality(Kinds) <= 1
  /\ faulty => OneUser /\ (Len(pairs) = 1 \/ Cardinality(Listed) <= 1)
  /\ InUse => /\ Kinds \subseteq {"fault", "elsewhere"} /\ Len(pairs) = 1
             /\ \A p \in Processes : mem[p] = {} /\ link[p] # "off"
=============================================================================
