------------------------- MODULE PortManager_proofs -------------------------
(***************************************************************************)
(* What polling and offering do to the queue of ports, for the proofs about*)
(* the pool's users.                                                       *)
(***************************************************************************)
EXTENDS PortManager, TLAPS

\* What a poll does to a queue in which the elements of D are distinct.
LEMMA TailFacts ==
  ASSUME NEW S, NEW D, NEW q \in Seq(S), q # <<>>,
         \A i, j \in 1 .. Len(q) : i # j /\ q[i] \in D => q[i] # q[j]
  PROVE  /\ \A i, j \in 1 .. Len(Tail(q)) :
              i # j /\ Tail(q)[i] \in D => Tail(q)[i] # Tail(q)[j]
         /\ {Tail(q)[i] : i \in 1 .. Len(Tail(q))} \cup {Head(q)} =
              {q[i] : i \in 1 .. Len(q)}
         /\ Head(q) \in D => Head(q) \notin {Tail(q)[i] : i \in 1 .. Len(Tail(q))}
<1> DEFINE r == Tail(q)
<1>1. /\ Len(q) \in Nat /\ Len(q) > 0 /\ Len(r) = Len(q) - 1
      /\ \A i \in 1 .. Len(r) : r[i] = q[i + 1]
      /\ Head(q) = q[1]
  OBVIOUS
<1> HIDE DEF r
<1>2. \A i, j \in 1 .. Len(r) : i # j /\ r[i] \in D => r[i] # r[j]
  BY <1>1
<1>3. \A i \in 1 .. Len(r) : /\ r[i] \in {q[k] : k \in 1 .. Len(q)}
                             /\ Head(q) \in D => r[i] # Head(q)
  BY <1>1
<1>4. \A k \in 1 .. Len(q) : k # 1 => k - 1 \in 1 .. Len(r) /\ r[k - 1] = q[k]
  BY <1>1
<1>5. {r[i] : i \in 1 .. Len(r)} \cup {Head(q)} = {q[i] : i \in 1 .. Len(q)}
  BY <1>1, <1>3, <1>4
<1>6. QED
  BY <1>1, <1>2, <1>3, <1>5 DEF r

\* What an offer does to a queue in which the elements of D are distinct.
LEMMA AppendFacts ==
  ASSUME NEW S, NEW D, NEW q \in Seq(S), NEW e \in S
  PROVE  LET r == Append(q, e)
         IN  /\ r \in Seq(S)
             /\ {r[i] : i \in 1 .. Len(r)} =
                  {q[i] : i \in 1 .. Len(q)} \cup {e}
             /\ ( /\ \A i, j \in 1 .. Len(q) : i # j /\ q[i] \in D => q[i] # q[j]
                  /\ e \in D => e \notin {q[i] : i \in 1 .. Len(q)} )
                => \A i, j \in 1 .. Len(r) : i # j /\ r[i] \in D => r[i] # r[j]
<1> DEFINE r == Append(q, e)
<1>1. /\ r \in Seq(S) /\ Len(q) \in Nat /\ Len(r) = Len(q) + 1
      /\ \A i \in 1 .. Len(q) : r[i] = q[i]
      /\ r[Len(r)] = e
  OBVIOUS
<1> HIDE DEF r
<1>2. {r[i] : i \in 1 .. Len(r)} = {q[i] : i \in 1 .. Len(q)} \cup {e}
  BY <1>1
<1>3. ASSUME \A i, j \in 1 .. Len(q) : i # j /\ q[i] \in D => q[i] # q[j],
             e \in D => e \notin {q[i] : i \in 1 .. Len(q)}
      PROVE  \A i, j \in 1 .. Len(r) : i # j /\ r[i] \in D => r[i] # r[j]
  BY <1>1, <1>3
<1>4. QED
  BY <1>1, <1>2, <1>3 DEF r

\* release() keeps the queue a queue of pool ports, whatever port it is given.
LEMMA ReleaseType ==
  ASSUME NEW p \in Int, reuse_queue \in Seq(PoolPorts), Release(p)
  PROVE  reuse_queue' \in Seq(PoolPorts)
<1>1. CASE p \in PoolPorts
  BY <1>1, AppendFacts, PoolAssumption DEF Release, PoolPorts
<1>2. CASE p \notin PoolPorts
  BY <1>2, PoolAssumption DEF Release, PoolPorts
<1>3. QED
  BY <1>1, <1>2
=============================================================================
