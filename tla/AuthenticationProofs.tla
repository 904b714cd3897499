------------------------ MODULE AuthenticationProofs ------------------------
(***************************************************************************)
(* What the token cache and the failure limiter of Authentication promise, *)
(* for any attempts, peers, tokens and parameters that satisfy Parameters: *)
(* a permit is honoured, the idle sweep forgives nothing, and an answer from*)
(* the cache is backed.                                                    *)
(***************************************************************************)
EXTENDS Authentication, TLAPS

Calls == [at : Steps, peer : Keys, token : Tokens \cup {None}, key : Keys \cup {None},
          t : Nat, reserved : Nat, result : {"none", "ok", "error", "rejected"}]

\* An attempt has the token of its stream, and its readings of the clock are
\* past ones.
Clocked == \A a \in Attempts : /\ call[a].t <= clock
                               /\ call[a].reserved <= clock
                               /\ At(a, "finish") => call[a].reserved <= call[a].t
                               /\ ~At(a, "idle") => call[a].token \in Tokens

Typed == AuthenticationTypeOK /\ Clocked

\* The permits of bucket b of key k belong to distinct attempts, and the i-th
\* oldest of them found i tokens when it was given.
Backed(b, k, cl) ==
  /\ b.tokens >= 0
  /\ \A i \in 1..Len(b.pend) :
       /\ cl[b.pend[i]].key = k
       /\ TokensAt(b, cl[b.pend[i]].reserved) >= i
       /\ \A j \in 1..Len(b.pend) : b.pend[j] = b.pend[i] => j = i

Tracked == \A k \in Keys : buckets[k] # None => Backed(buckets[k], k, call)

\* An attempt with a permit is among those of its bucket.
Holds(a, bs) == /\ bs[call[a].key] # None
                /\ \E i \in 1..Len(bs[call[a].key].pend) : bs[call[a].key].pend[i] = a

Keyed == \A a \in Attempts : call[a].key # None =>
           call[a].at \in {"review", "finish"} /\ Holds(a, buckets)

PermitInv == Typed /\ Tracked /\ Keyed

----------------------------------------------------------------------------
(* Arithmetic of a bucket                                                  *)

\* More time refills more.
LEMMA Refill ==
    ASSUME NEW R \in Nat, NEW m \in Nat, NEW n \in Nat, m <= n
    PROVE  /\ R * m \in Nat /\ R * n \in Nat /\ R * m <= R * n
           /\ R * (n - m) = R * n - R * m
  <1>1. PICK d \in Nat : n = m + d
    <2>1. n - m \in Nat /\ n = m + (n - m)
      OBVIOUS
    <2> QED
      BY <2>1, Zenon
  <1>2. R * m \in Nat /\ R * d \in Nat
    OBVIOUS
  <1>3. R * (m + d) = R * m + R * d
    OBVIOUS
  <1>4. n - m = d
    BY <1>1
  <1> QED
    BY <1>1, <1>2, <1>3, <1>4

\* A bucket never holds more than Burst, and no less at a later reading; in
\* between it gains at most Rate per tick.
LEMMA TokensGrow ==
    ASSUME Parameters, NEW b \in Buckets, NEW t \in Nat, NEW u \in Nat, t <= u
    PROVE  /\ TokensAt(b, t) \in Int /\ TokensAt(b, u) \in Int /\ TokensAt(b, t) <= Burst
           /\ TokensAt(b, t) <= TokensAt(b, u)
           /\ Rate * (u - t) \in Nat
           /\ TokensAt(b, u) <= TokensAt(b, t) + Rate * (u - t)
  <1> DEFINE el(x) == IF x > b.last THEN x - b.last ELSE 0
  <1>0. b.tokens \in Int /\ b.last \in Nat /\ Rate \in Nat /\ Burst \in Nat
    BY Zenon DEF Buckets, Parameters
  <1>1. el(t) \in Nat /\ el(u) \in Nat /\ el(t) <= el(u) /\ u - t \in Nat /\ el(u) - el(t) \in Nat
        /\ el(u) - el(t) <= u - t
    BY <1>0
  <1>2. TokensAt(b, t) = Lesser(Burst, b.tokens + Rate * el(t))
        /\ TokensAt(b, u) = Lesser(Burst, b.tokens + Rate * el(u))
    BY Zenon DEF TokensAt
  <1> HIDE DEF el
  <1>3. Rate * el(t) \in Nat /\ Rate * el(u) \in Nat /\ Rate * el(t) <= Rate * el(u)
        /\ Rate * (el(u) - el(t)) = Rate * el(u) - Rate * el(t)
    BY <1>0, <1>1, Refill, Zenon
  <1>4. Rate * (u - t) \in Nat /\ Rate * (el(u) - el(t)) <= Rate * (u - t)
    BY <1>0, <1>1, Refill, Zenon
  <1> DEFINE x == Rate * el(t)
             y == Rate * el(u)
             z == Rate * (u - t)
  <1>5. x \in Nat /\ y \in Nat /\ z \in Nat /\ x <= y /\ y - x <= z
    BY <1>3, <1>4, Zenon
  <1>6. TokensAt(b, t) = Lesser(Burst, b.tokens + x) /\ TokensAt(b, u) = Lesser(Burst, b.tokens + y)
    BY <1>2, Zenon
  <1> HIDE DEF x, y, z
  <1>7. /\ TokensAt(b, t) \in Int /\ TokensAt(b, u) \in Int /\ TokensAt(b, t) <= Burst
        /\ TokensAt(b, t) <= TokensAt(b, u) /\ TokensAt(b, u) <= TokensAt(b, t) + z
    BY <1>0, <1>5, <1>6 DEF Lesser
  <1> QED
    BY <1>4, <1>7, Zenon DEF z

\* A consumed token leaves a reading u with at most one token less, and no
\* less than the reading t that consumed it was left with.
LEMMA Consumed ==
    ASSUME Parameters, NEW b \in Buckets, NEW t \in Nat, NEW u \in Nat, TokensAt(b, t) >= 1
    PROVE  /\ AllowN(b, t) \in Buckets /\ AllowN(b, t).pend = b.pend
           /\ AllowN(b, t).lastSeen = b.lastSeen
           /\ AllowN(b, t).last = t /\ AllowN(b, t).tokens >= 0
           /\ TokensAt(AllowN(b, t), u) >= TokensAt(b, t) - 1
           /\ TokensAt(AllowN(b, t), u) >= TokensAt(b, u) - 1
  <1> DEFINE c == AllowN(b, t)
  <1>0. TokensAt(b, t) \in Int /\ TokensAt(b, t) <= Burst /\ Burst \in Nat /\ Rate \in Nat
    BY TokensGrow DEF Parameters
  <1>1. c = [b EXCEPT !.tokens = TokensAt(b, t) - 1, !.last = t]
    BY <1>0 DEF AllowN
  <1>2. c \in Buckets /\ c.tokens = TokensAt(b, t) - 1 /\ c.last = t /\ c.pend = b.pend
        /\ c.lastSeen = b.lastSeen
    <2>1. TokensAt(b, t) - 1 \in Int
      BY <1>0
    <2> HIDE DEF c
    <2> QED
      BY <1>1, <2>1, Zenon DEF Buckets
  <1>3. CASE u <= t
    <2>1. TokensAt(b, u) \in Int /\ TokensAt(b, u) <= TokensAt(b, t)
      BY <1>3, TokensGrow, Zenon
    <2>2. TokensAt(c, u) = Lesser(Burst, TokensAt(b, t) - 1 + Rate * 0)
      BY <1>2, <1>3 DEF TokensAt
    <2>3. TokensAt(c, u) = TokensAt(b, t) - 1
      BY <1>0, <2>2 DEF Lesser
    <2> QED
      BY <1>0, <1>2, <2>1, <2>3
  <1>4. CASE t < u
    <2>1. TokensAt(b, u) \in Int /\ TokensAt(b, u) <= TokensAt(b, t) + Rate * (u - t)
          /\ Rate * (u - t) \in Nat /\ TokensAt(b, u) <= Burst
      BY <1>4, TokensGrow
    <2>2. TokensAt(c, u) = Lesser(Burst, TokensAt(b, t) - 1 + Rate * (u - t))
      BY <1>2, <1>4, Zenon DEF TokensAt
    <2> DEFINE z == Rate * (u - t)
    <2>3. z \in Nat /\ TokensAt(b, u) <= TokensAt(b, t) + z
          /\ TokensAt(c, u) = Lesser(Burst, TokensAt(b, t) - 1 + z)
      BY <2>1, <2>2, Zenon
    <2> HIDE DEF z
    <2> QED
      BY <1>0, <1>2, <2>1, <2>3 DEF Lesser
  <1> QED
    BY <1>3, <1>4

----------------------------------------------------------------------------
(* Permits                                                                 *)

\* Without removes one position of a sequence.
LEMMA WithoutOne ==
    ASSUME NEW S, NEW s \in Seq(S), NEW i \in 1..Len(s)
    PROVE  /\ Without(s, i) \in Seq(S) /\ Len(Without(s, i)) = Len(s) - 1
           /\ Len(s) \in Nat
           /\ \A j \in 1..(Len(s) - 1) : Without(s, i)[j] = IF j < i THEN s[j] ELSE s[j + 1]
  <1>1. Len(s) \in Nat /\ Len(s) - 1 \in Nat /\ s \in [1..Len(s) -> S]
    <2>1. Len(s) \in Nat /\ s \in [1..Len(s) -> S]
      OBVIOUS
    <2> QED
      BY <2>1
  <1>2. Without(s, i) \in [1..(Len(s) - 1) -> S]
    BY <1>1 DEF Without
  <1>3. Without(s, i) \in Seq(S)
    BY <1>1, <1>2
  <1>4. DOMAIN Without(s, i) = 1..(Len(s) - 1) /\ DOMAIN Without(s, i) = 1..Len(Without(s, i))
        /\ Len(Without(s, i)) \in Nat
    <2>1. DOMAIN Without(s, i) = 1..(Len(s) - 1)
      BY Zenon DEF Without
    <2>2. DOMAIN Without(s, i) = 1..Len(Without(s, i)) /\ Len(Without(s, i)) \in Nat
      BY <1>3
    <2> QED
      BY <2>1, <2>2, Zenon
  <1>5. Len(Without(s, i)) = Len(s) - 1
    <2>1. ASSUME NEW m \in Nat, NEW n \in Nat, 1..m = 1..n PROVE m = n
      <3>1. (m < n => n \in 1..n /\ n \notin 1..m) /\ (n < m => m \in 1..m /\ m \notin 1..n)
        OBVIOUS
      <3> QED
        BY <2>1, <3>1
    <2> QED
      BY <1>1, <1>4, <2>1, Zenon
  <1> QED
    BY <1>1, <1>3, <1>5, Zenon DEF Without

\* What a bucket owes depends neither on when it was last seen nor on the
\* attempts that hold no permit of it.
LEMMA BackedFrame ==
    ASSUME NEW b \in Buckets, NEW k, NEW cl, NEW new, NEW t, Backed(b, k, cl),
           \A c \in Attempts : cl[c].key = k => /\ new[c].key = k
                                                /\ new[c].reserved = cl[c].reserved
    PROVE  Backed(b, k, new) /\ Backed([b EXCEPT !.lastSeen = t], k, new)
  <1>1. b.pend \in Seq(Attempts)
    BY Zenon DEF Buckets
  <1>2. \A i \in 1..Len(b.pend) : b.pend[i] \in Attempts
    BY <1>1
  <1>3. Backed(b, k, new)
    BY <1>2, Zenon DEF Backed
  <1> DEFINE c == [b EXCEPT !.lastSeen = t]
  <1>4. c.pend = b.pend /\ c.tokens = b.tokens /\ c.last = b.last
    BY Zenon DEF Buckets
  <1> HIDE DEF c
  <1>5. \A u : TokensAt(c, u) = TokensAt(b, u)
    BY <1>4, Zenon DEF TokensAt
  <1>6. Backed(c, k, new)
    BY <1>3, <1>4, <1>5 DEF Backed
  <1> QED
    BY <1>3, <1>6, Zenon DEF c

\* A step that drops at most buckets without permits, and changes neither the
\* permits nor their readings, keeps every permit backed.
LEMMA PermitFrame ==
    ASSUME PermitInv, Parameters,
           \A k \in Keys : \/ buckets'[k] = buckets[k]
                           \/ buckets'[k] = None /\ buckets[k].pend = <<>>,
           \A c \in Attempts : /\ call'[c].key = call[c].key
                               /\ call[c].key # None => /\ call'[c].reserved = call[c].reserved
                                                        /\ call'[c].at \in {"review", "finish"}
    PROVE  Tracked' /\ Keyed'
  <1>0. /\ None \notin Keys /\ buckets \in [Keys -> Buckets \cup {None}]
        /\ call \in [Attempts -> Calls]
    BY Zenon DEF Parameters, PermitInv, Typed, AuthenticationTypeOK, Calls
  <1>1. ASSUME NEW k \in Keys, buckets'[k] # None PROVE Backed(buckets'[k], k, call')
    <2>1. buckets'[k] = buckets[k] /\ Backed(buckets[k], k, call) /\ buckets[k] \in Buckets
      BY <1>0, <1>1, Zenon DEF PermitInv, Tracked
    <2>2. \A c \in Attempts : call[c].key = k => /\ call'[c].key = k
                                                  /\ call'[c].reserved = call[c].reserved
      BY <1>0, Zenon
    <2>3. Backed(buckets[k], k, call')
      <3>1. buckets[k].pend \in Seq(Attempts)
        BY <2>1, Zenon DEF Buckets
      <3>2. \A i \in 1..Len(buckets[k].pend) : buckets[k].pend[i] \in Attempts
        BY <3>1
      <3> QED
        BY <2>1, <2>2, <3>2, Zenon DEF Backed
    <2> QED
      BY <2>1, <2>3, Zenon
  <1>2. ASSUME NEW a \in Attempts, call'[a].key # None
        PROVE  call'[a].at \in {"review", "finish"} /\ Holds(a, buckets)'
    <2>1. call[a].key # None /\ call[a].key \in Keys /\ call'[a].key = call[a].key
      BY <1>0, <1>2, Zenon DEF Calls
    <2>2. Holds(a, buckets)
      BY <2>1, Zenon DEF PermitInv, Keyed
    <2>3. buckets'[call[a].key] = buckets[call[a].key]
      BY <2>1, <2>2 DEF Holds
    <2> QED
      BY <2>1, <2>2, <2>3 DEF Holds
  <1> QED
    BY <1>1, <1>2, Zenon DEF Tracked, Keyed

\* A sweep drops buckets without permits only.
LEMMA SweptType ==
    ASSUME Typed, NEW t \in Nat
    PROVE  /\ Swept(t) \in [Keys -> Buckets \cup {None}]
           /\ SweepTime(t) \in Nat \cup {None}
           /\ \A k \in Keys : \/ Swept(t)[k] = buckets[k]
                              \/ Swept(t)[k] = None /\ buckets[k].pend = <<>>
  <1>1. buckets \in [Keys -> Buckets \cup {None}] /\ lastSweep \in Nat \cup {None}
    BY Zenon DEF Typed, AuthenticationTypeOK
  <1>2. Swept(t) \in [Keys -> Buckets \cup {None}]
    BY <1>1, Zenon DEF Swept
  <1>3. SweepTime(t) \in Nat \cup {None}
    BY <1>1, Zenon DEF SweepTime
  <1>4. \A k \in Keys : \/ Swept(t)[k] = buckets[k]
                        \/ Swept(t)[k] = None /\ buckets[k].pend = <<>>
    BY Zenon DEF Swept, IdleBucket
  <1> QED
    BY <1>2, <1>3, <1>4, Zenon

\* An attempt that ends returns its permit, and a token if it was rejected:
\* the permits that stay are still backed.
LEMMA SettledBacked ==
    ASSUME Parameters, Typed, NEW b \in Buckets, NEW k \in Keys, NEW a \in Attempts,
           Backed(b, k, call), NEW i0 \in 1..Len(b.pend), b.pend[i0] = a,
           NEW t \in Nat, call[a].reserved <= t,
           NEW cl, \A c \in Attempts \ {a} : cl[c] = call[c]
    PROVE  /\ Settled(b, a, t) \in Buckets
           /\ Backed(Settled(b, a, t), k, cl)
           /\ \A c \in Attempts \ {a} : (\E i \in 1..Len(b.pend) : b.pend[i] = c) =>
                 \E i \in 1..Len(Settled(b, a, t).pend) : Settled(b, a, t).pend[i] = c
  <1> DEFINE i == CHOOSE i \in 1..Len(b.pend) : b.pend[i] = a
             n == Len(b.pend)
             m == IF call[a].result = "rejected" THEN AllowN(b, t) ELSE b
             s == Settled(b, a, t)
             res(j) == call[b.pend[j]].reserved
  <1>0. /\ b.pend \in Seq(Attempts) /\ n \in Nat /\ i \in 1..n /\ b.pend[i] = a
        /\ b.tokens \in Int /\ b.last \in Nat /\ b.lastSeen \in Nat
    BY DEF Buckets
  <1>1. s = [m EXCEPT !.pend = Without(@, i), !.lastSeen = t]
    BY Zenon DEF Settled
  <1> HIDE DEF i, n, s
  <1>2. \A j \in 1..n : b.pend[j] \in Attempts /\ res(j) \in Nat
    <2>1. \A c \in Attempts : call[c].reserved \in Nat
      BY Zenon DEF Typed, AuthenticationTypeOK
    <2>2. \A j \in 1..n : b.pend[j] \in Attempts
      BY <1>0 DEF n
    <2> QED
      BY <2>1, <2>2, Zenon
  <1>3. TokensAt(b, call[a].reserved) \in Int /\ TokensAt(b, t) \in Int
        /\ TokensAt(b, call[a].reserved) <= TokensAt(b, t)
    BY <1>0, <1>2, TokensGrow, Zenon
  <1>4. TokensAt(b, t) >= i
    BY <1>0, <1>3 DEF Backed, n
  <1>5. m \in Buckets /\ m.pend = b.pend /\ m.tokens >= 0
    BY <1>0, <1>3, <1>4, Consumed DEF Backed
  <1>6. ASSUME NEW j \in 1..n, j # i
        PROVE  TokensAt(m, res(j)) >= IF j < i THEN j ELSE j - 1
    <2>1. TokensAt(b, res(j)) >= j
      BY Zenon DEF Backed, n
    <2>0. res(j) \in Nat /\ res(j) <= res(j)
      BY <1>2
    <2> HIDE DEF res
    <2>2. TokensAt(b, res(j)) \in Int
      BY <2>0, TokensGrow, Zenon
    <2>3. CASE call[a].result # "rejected"
      BY <1>0, <2>1, <2>2, <2>3
    <2>4. CASE call[a].result = "rejected"
      <3>1. /\ TokensAt(m, res(j)) >= TokensAt(b, t) - 1
            /\ TokensAt(m, res(j)) >= TokensAt(b, res(j)) - 1
        <4>1. TokensAt(b, t) >= 1 /\ m = AllowN(b, t)
          BY <1>0, <1>3, <1>4, <2>4
        <4> QED
          BY <2>0, <4>1, Consumed, Zenon
      <3>2. TokensAt(m, res(j)) \in Int
        BY <1>5, <2>0, TokensGrow, Zenon
      <3> DEFINE x == TokensAt(m, res(j))
                 y == TokensAt(b, res(j))
                 z == TokensAt(b, t)
      <3>3. x \in Int /\ y \in Int /\ z \in Int /\ x >= z - 1 /\ x >= y - 1 /\ y >= j /\ z >= i
        BY <1>3, <1>4, <2>1, <2>2, <3>1, <3>2, Zenon
      <3> HIDE DEF x, y, z
      <3>4. x >= IF j < i THEN j ELSE j - 1
        BY <1>0, <3>3
      <3> QED
        BY <3>4, Zenon DEF x
    <2> QED
      BY <2>3, <2>4, Zenon
  <1> HIDE DEF m
  <1>7. /\ Without(b.pend, i) \in Seq(Attempts) /\ Len(Without(b.pend, i)) = n - 1
        /\ \A j \in 1..(n - 1) : Without(b.pend, i)[j] = IF j < i THEN b.pend[j] ELSE b.pend[j + 1]
    BY <1>0, WithoutOne, Zenon DEF n
  <1>8. s \in Buckets /\ s.pend = Without(b.pend, i) /\ s.tokens = m.tokens /\ s.last = m.last
    BY <1>1, <1>5, <1>7, Zenon DEF Buckets
  <1>9. \A u : TokensAt(s, u) = TokensAt(m, u)
    BY <1>8, Zenon DEF TokensAt
  <1> DEFINE at(j) == IF j < i THEN j ELSE j + 1
  <1>10. ASSUME NEW j \in 1..(n - 1)
         PROVE  /\ at(j) \in 1..n /\ at(j) # i /\ s.pend[j] = b.pend[at(j)]
                /\ (IF at(j) < i THEN at(j) ELSE at(j) - 1) = j
    <2>1. at(j) \in 1..n /\ at(j) # i /\ (IF at(j) < i THEN at(j) ELSE at(j) - 1) = j
      BY <1>0
    <2>2. s.pend[j] = b.pend[at(j)]
      <3>1. Without(b.pend, i)[j] = IF j < i THEN b.pend[j] ELSE b.pend[j + 1]
        BY <1>7, Zenon
      <3> QED
        BY <1>8, <3>1, Zenon
    <2> QED
      BY <2>1, <2>2, Zenon
  <1>11. Len(s.pend) = n - 1
    BY <1>7, <1>8, Zenon
  <1>12. \A j \in 1..(n - 1), l \in 1..(n - 1) : at(j) = at(l) => j = l
    BY <1>0
  <1> HIDE DEF at
  <1>13. ASSUME NEW j \in 1..(n - 1)
         PROVE  /\ cl[s.pend[j]].key = k
                /\ TokensAt(s, cl[s.pend[j]].reserved) >= j
                /\ \A l \in 1..(n - 1) : s.pend[l] = s.pend[j] => l = j
    <2>1. at(j) \in 1..n /\ at(j) # i /\ s.pend[j] = b.pend[at(j)]
          /\ (IF at(j) < i THEN at(j) ELSE at(j) - 1) = j
      BY <1>10, Zenon
    <2>2. b.pend[at(j)] \in Attempts \ {a}
      <3>1. b.pend[at(j)] = a => at(j) = i
        BY <1>0, <2>1, Zenon DEF Backed, n
      <3> QED
        BY <1>2, <2>1, <3>1, Zenon
    <2>3. cl[s.pend[j]] = call[b.pend[at(j)]]
      BY <2>1, <2>2, Zenon
    <2>4. call[b.pend[at(j)]].key = k
      BY <2>1, Zenon DEF Backed, n
    <2>5. TokensAt(s, res(at(j))) >= j
      BY <1>6, <1>9, <2>1, Zenon
    <2>6. ASSUME NEW l \in 1..(n - 1), s.pend[l] = s.pend[j] PROVE l = j
      <3>1. at(l) \in 1..n /\ s.pend[l] = b.pend[at(l)]
        BY <1>10, Zenon
      <3>2. at(l) = at(j)
        BY <2>1, <2>6, <3>1, Zenon DEF Backed, n
      <3> QED
        BY <1>12, <3>2, Zenon
    <2> QED
      BY <2>3, <2>4, <2>5, <2>6, Zenon
  <1>14. Backed(s, k, cl)
    BY <1>5, <1>8, <1>11, <1>13, Zenon DEF Backed
  <1>15. ASSUME NEW c \in Attempts \ {a}, NEW j \in 1..n, b.pend[j] = c
         PROVE  \E l \in 1..(n - 1) : s.pend[l] = c
    <2>1. j # i
      BY <1>0, <1>15, Zenon
    <2>2. CASE j < i
      <3>1. j \in 1..(n - 1) /\ s.pend[j] = b.pend[j]
        BY <1>0, <1>7, <1>8, <2>2
      <3> QED
        BY <1>15, <3>1, Zenon
    <2>3. CASE j > i
      <3>1. j - 1 \in 1..(n - 1) /\ s.pend[j - 1] = b.pend[j]
        <4>1. j - 1 \in 1..(n - 1) /\ ~(j - 1 < i) /\ (j - 1) + 1 = j
          BY <1>0, <2>3
        <4> QED
          BY <1>7, <1>8, <4>1, Zenon
      <3> QED
        BY <1>15, <3>1, Zenon
    <2> QED
      BY <1>0, <2>1, <2>2, <2>3
  <1> QED
    BY <1>8, <1>11, <1>14, <1>15 DEF s, n

----------------------------------------------------------------------------
(***************************************************************************)
(* A permit is honoured.                                                   *)
(***************************************************************************)

\* A step of attempt a keeps the types.
LEMMA CallTyped ==
    ASSUME Typed, NEW a \in Attempts, NEW v \in Calls, call' = [call EXCEPT ![a] = v],
           UNCHANGED clock, v.t <= clock, v.reserved <= clock,
           v.at = "finish" => v.reserved <= v.t, v.at # "idle" => v.token \in Tokens,
           buckets' \in [Keys -> Buckets \cup {None}], lastSweep' \in Nat \cup {None},
           cache' \in [Tokens -> Nat \cup {None}], accepted' \in [Tokens -> Nat \cup {None}]
    PROVE  Typed'
  <1>0. call \in [Attempts -> Calls] /\ clock \in Nat
    BY Zenon DEF Typed, AuthenticationTypeOK, Calls
  <1>1. call' \in [Attempts -> Calls]
    BY <1>0, Zenon
  <1>2. Clocked'
    <2>1. ASSUME NEW c \in Attempts
          PROVE  /\ call'[c].t <= clock
                 /\ call'[c].reserved <= clock
                 /\ call'[c].at = "finish" => call'[c].reserved <= call'[c].t
                 /\ call'[c].at # "idle" => call'[c].token \in Tokens
      <3>1. CASE c = a
        BY <1>0, <3>1, Zenon
      <3>2. CASE c # a
        BY <1>0, <3>2, Zenon DEF Typed, Clocked, At
      <3> QED
        BY <3>1, <3>2, Zenon
    <2> QED
      BY <2>1, Zenon DEF Clocked, At
  <1> QED
    BY <1>0, <1>1, <1>2, Zenon DEF Typed, AuthenticationTypeOK, Calls

\* A step of an attempt without a permit, which may sweep, keeps the others'.
LEMMA Unpermitted ==
    ASSUME Parameters, PermitInv,
           NEW a \in Attempts, NEW v \in Calls, call' = [call EXCEPT ![a] = v],
           call[a].key = None, v.key = None, v.reserved <= clock, v.t <= clock,
           v.at # "finish", v.at # "idle" => v.token \in Tokens,
           clock' = clock, accepted' = accepted, cache' \in [Tokens -> Nat \cup {None}],
           lastSweep' \in Nat \cup {None}, buckets' \in [Keys -> Buckets \cup {None}],
           \A k \in Keys : \/ buckets'[k] = buckets[k]
                           \/ buckets'[k] = None /\ buckets[k].pend = <<>>
    PROVE  PermitInv'
  <1>0. Typed /\ call \in [Attempts -> Calls] /\ accepted' \in [Tokens -> Nat \cup {None}]
    BY Zenon DEF PermitInv, Typed, AuthenticationTypeOK, Calls
  <1>1. Typed'
    BY <1>0, CallTyped, Zenon
  <1>2. \A c \in Attempts : /\ call'[c].key = call[c].key
                            /\ call[c].key # None => call'[c] = call[c]
    BY <1>0, Zenon
  <1>3. \A c \in Attempts : call[c].key # None => call[c].at \in {"review", "finish"}
    BY Zenon DEF PermitInv, Keyed
  <1>4. \A c \in Attempts : /\ call'[c].key = call[c].key
                            /\ call[c].key # None => /\ call'[c].reserved = call[c].reserved
                                                     /\ call'[c].at \in {"review", "finish"}
    BY <1>2, <1>3, Zenon
  <1>5. Tracked' /\ Keyed'
    BY <1>4, PermitFrame, Zenon
  <1> QED
    BY <1>1, <1>5, Zenon DEF PermitInv

\* The initial state satisfies the invariant.
LEMMA PermitInit == ASSUME Parameters PROVE Init => PermitInv
  <1> SUFFICES ASSUME Init PROVE PermitInv
    OBVIOUS
  <1>1. Idle \in Calls /\ Idle.at = "idle" /\ Idle.t = 0 /\ Idle.reserved = 0 /\ Idle.key = None
    BY Zenon DEF Idle, Calls, Steps, Keys
  <1>2. call \in [Attempts -> Calls] /\ \A a \in Attempts : call[a] = Idle
    BY <1>1, Zenon DEF Init
  <1>3. Typed
    BY <1>1, <1>2 DEF Init, Typed, AuthenticationTypeOK, Calls, Clocked, At
  <1> QED
    BY <1>1, <1>2, <1>3, Zenon DEF Init, PermitInv, Tracked, Keyed

\* Every step keeps the permits backed.
LEMMA PermitStep == ASSUME Parameters PROVE PermitInv /\ [Next]_vars => PermitInv'
  <1> SUFFICES ASSUME PermitInv, [Next]_vars PROVE PermitInv'
    OBVIOUS
  <1>0. /\ call \in [Attempts -> Calls] /\ clock \in Nat
        /\ buckets \in [Keys -> Buckets \cup {None}] /\ lastSweep \in Nat \cup {None}
        /\ cache \in [Tokens -> Nat \cup {None}] /\ accepted \in [Tokens -> Nat \cup {None}]
        /\ None \notin Keys /\ None \notin Buckets /\ Typed
    BY Zenon DEF PermitInv, Typed, AuthenticationTypeOK, Calls, Parameters
  <1>a. Idle \in Calls /\ Idle.at = "idle" /\ Idle.t = 0 /\ Idle.reserved = 0 /\ Idle.key = None
    BY Zenon DEF Idle, Calls, Steps, Keys
  <1>b. \A c \in Attempts : /\ call[c] \in Calls /\ call[c].t \in Nat /\ call[c].reserved \in Nat
                            /\ call[c].t <= clock /\ call[c].reserved <= clock
                            /\ call[c].at # "idle" => call[c].token \in Tokens
                            /\ call[c].key # None => call[c].at \in {"review", "finish"}
    BY <1>0, Zenon DEF Calls, Typed, Clocked, At, PermitInv, Keyed
  <1>1. CASE UNCHANGED vars
    BY <1>1, Zenon DEF vars, PermitInv, Typed, AuthenticationTypeOK, Clocked, At, Tracked, Keyed,
                       Holds
  <1>2. CASE Tick
    <2>1. Typed'
      BY <1>0, <1>2 DEF Tick, Typed, AuthenticationTypeOK, Clocked, At
    <2>2. Tracked' /\ Keyed'
      BY <1>2, Zenon DEF Tick, PermitInv, Tracked, Keyed, Holds
    <2> QED
      BY <2>1, <2>2, Zenon DEF PermitInv
  <1>4. ASSUME NEW a \in Attempts, NEW p \in Keys, NEW k \in Tokens, Authenticate(a, p, k)
        PROVE  PermitInv'
    <2> DEFINE at == IF cache[k] = None THEN "reserve"
                     ELSE IF clock < cache[k] THEN "sweep" ELSE "expired"
               v == [Idle EXCEPT !.at = at, !.peer = p, !.token = k, !.t = clock]
    <2>1. /\ call' = [call EXCEPT ![a] = v] /\ At(a, "idle")
          /\ UNCHANGED <<clock, buckets, lastSweep, cache, accepted>>
      BY <1>4, Zenon DEF Authenticate
    <2>2. at \in {"reserve", "sweep", "expired"}
      OBVIOUS
    <2> HIDE DEF at
    <2>3. v \in Calls /\ v.key = None /\ v.reserved = 0 /\ v.t = clock /\ v.at = at /\ v.token = k
      BY <1>0, <1>a, <2>2, Zenon DEF Idle, Calls, Steps
    <2>4. call[a].key = None
      BY <1>b, <2>1, Zenon DEF At
    <2>5. buckets' \in [Keys -> Buckets \cup {None}] /\ lastSweep' \in Nat \cup {None}
          /\ cache' \in [Tokens -> Nat \cup {None}] /\ clock' = clock /\ accepted' = accepted
          /\ \A q \in Keys : buckets'[q] = buckets[q]
      BY <1>0, <2>1, Zenon
    <2>6. v.reserved <= clock /\ v.t <= clock /\ v.at # "finish" /\ v.token \in Tokens
      BY <1>0, <2>2, <2>3
    <2> HIDE DEF v
    <2> QED
      BY <2>1, <2>3, <2>4, <2>5, <2>6, Unpermitted, Zenon
  <1>5. ASSUME NEW a \in Attempts, NEW k \in Tokens, Revalidate(a, k) PROVE PermitInv'
    <2> DEFINE v == [Idle EXCEPT !.at = "review", !.token = k]
    <2>1. /\ call' = [call EXCEPT ![a] = v] /\ At(a, "idle")
          /\ UNCHANGED <<clock, buckets, lastSweep, cache, accepted>>
      BY <1>5, Zenon DEF Revalidate
    <2>3. v \in Calls /\ v.key = None /\ v.reserved = 0 /\ v.t = 0 /\ v.at = "review" /\ v.token = k
      BY <1>a, Zenon DEF Idle, Calls, Steps
    <2>4. call[a].key = None
      BY <1>b, <2>1, Zenon DEF At
    <2>5. buckets' \in [Keys -> Buckets \cup {None}] /\ lastSweep' \in Nat \cup {None}
          /\ cache' \in [Tokens -> Nat \cup {None}] /\ clock' = clock /\ accepted' = accepted
          /\ \A q \in Keys : buckets'[q] = buckets[q]
      BY <1>0, <2>1, Zenon
    <2>6. v.reserved <= clock /\ v.t <= clock /\ v.at # "finish" /\ v.token \in Tokens
      BY <1>0, <2>3
    <2> HIDE DEF v
    <2> QED
      BY <2>1, <2>3, <2>4, <2>5, <2>6, Unpermitted, Zenon
  <1>6. ASSUME NEW a \in Attempts, CacheHit(a) PROVE PermitInv'
    <2>1. /\ call' = [call EXCEPT ![a] = Idle] /\ At(a, "sweep")
          /\ buckets' = Swept(call[a].t) /\ lastSweep' = SweepTime(call[a].t)
          /\ UNCHANGED <<clock, cache, accepted>>
      BY <1>6, Zenon DEF CacheHit
    <2>2. call[a].key = None
      BY <1>b, <2>1, Zenon DEF At
    <2>3. /\ buckets' \in [Keys -> Buckets \cup {None}] /\ lastSweep' \in Nat \cup {None}
          /\ \A k \in Keys : \/ buckets'[k] = buckets[k]
                             \/ buckets'[k] = None /\ buckets[k].pend = <<>>
      BY <1>0, <1>b, <2>1, SweptType, Zenon
    <2>4. clock' = clock /\ accepted' = accepted /\ cache' \in [Tokens -> Nat \cup {None}]
          /\ Idle.reserved <= clock /\ Idle.t <= clock
      BY <1>0, <1>a, <2>1
    <2> QED
      BY <1>a, <2>1, <2>2, <2>3, <2>4, Unpermitted, Zenon
  <1>7. ASSUME NEW a \in Attempts, DropExpired(a) PROVE PermitInv'
    <2> DEFINE v == [call[a] EXCEPT !.at = "reserve", !.t = clock]
    <2>1. /\ call' = [call EXCEPT ![a] = v] /\ At(a, "expired")
          /\ UNCHANGED <<clock, buckets, lastSweep, accepted>>
      BY <1>0, <1>7, Zenon DEF DropExpired
    <2>2. cache' \in [Tokens -> Nat \cup {None}]
      BY <1>0, <1>7, Zenon DEF DropExpired
    <2>3. v \in Calls /\ v.key = call[a].key /\ v.reserved = call[a].reserved /\ v.t = clock
          /\ v.at = "reserve" /\ v.token = call[a].token
      BY <1>0, <1>b, Zenon DEF Calls, Steps
    <2>4. call[a].key = None /\ call[a].token \in Tokens
      BY <1>b, <2>1, Zenon DEF At
    <2>5. buckets' \in [Keys -> Buckets \cup {None}] /\ lastSweep' \in Nat \cup {None}
          /\ cache' \in [Tokens -> Nat \cup {None}] /\ clock' = clock /\ accepted' = accepted
          /\ \A q \in Keys : buckets'[q] = buckets[q]
      BY <1>0, <2>1, <2>2, Zenon
    <2>6. v.reserved <= clock /\ v.t <= clock /\ v.at # "finish" /\ v.token \in Tokens
      BY <1>0, <1>b, <2>3, <2>4
    <2> HIDE DEF v
    <2> QED
      BY <2>1, <2>3, <2>4, <2>5, <2>6, Unpermitted, Zenon
  <1>8. ASSUME NEW a \in Attempts, Store(a) PROVE PermitInv'
    <2>1. /\ call' = [call EXCEPT ![a] = Idle] /\ At(a, "store")
          /\ UNCHANGED <<clock, buckets, lastSweep, accepted>>
      BY <1>8, Zenon DEF Store
    <2>2. call[a].key = None /\ call[a].token \in Tokens
      BY <1>b, <2>1, Zenon DEF At
    <2> DEFINE ttl == cacheLifetime(call[a].token, call[a].t)
    <2>3. ttl \in Int
      BY <1>0, <1>b, <2>2 DEF cacheLifetime, Lesser, Parameters, Calls
    <2>4. ttl > 0 => clock + ttl \in Nat
      BY <1>0, <2>3
    <2>5. cache' \in [Tokens -> Nat \cup {None}]
      <3>1. \/ cache' = cache
            \/ /\ ttl > 0
               /\ cache' = [[j \in Tokens |-> IF cache[j] # None /\ clock >= cache[j] THEN None
                                              ELSE cache[j]]
                             EXCEPT ![call[a].token] = clock + ttl]
        BY <1>8, <2>3 DEF Store
      <3> QED
        BY <1>0, <2>2, <2>4, <3>1, Zenon
    <2>6. buckets' \in [Keys -> Buckets \cup {None}] /\ lastSweep' \in Nat \cup {None}
          /\ cache' \in [Tokens -> Nat \cup {None}] /\ clock' = clock /\ accepted' = accepted
          /\ Idle.reserved <= clock /\ Idle.t <= clock
          /\ \A q \in Keys : buckets'[q] = buckets[q]
      BY <1>0, <1>a, <2>1, <2>5
    <2> QED
      BY <1>a, <2>1, <2>2, <2>6, Unpermitted, Zenon
  <1>9. ASSUME NEW a \in Attempts, Review(a) PROVE PermitInv'
    <2>1. PICK result \in {"error", "rejected", "ok"} :
            /\ call' = [call EXCEPT ![a].at = "finish", ![a].t = clock, ![a].result = result]
            /\ accepted' = [accepted EXCEPT ![call[a].token] = IF result = "ok" THEN clock ELSE @]
      BY <1>9, Zenon DEF Review
    <2> DEFINE v == [call[a] EXCEPT !.at = "finish", !.t = clock, !.result = result]
    <2>2. call' = [call EXCEPT ![a] = v]
      BY <1>0, <2>1, Zenon
    <2>3. At(a, "review") /\ UNCHANGED <<clock, buckets, lastSweep, cache>>
      BY <1>9, Zenon DEF Review
    <2>4. v \in Calls /\ v.key = call[a].key /\ v.reserved = call[a].reserved /\ v.t = clock
          /\ v.at = "finish" /\ v.token = call[a].token
      BY <1>0, <1>b, Zenon DEF Calls, Steps
    <2> HIDE DEF v
    <2>5. v.t <= clock /\ v.reserved <= clock /\ v.reserved <= v.t /\ v.token \in Tokens
      BY <1>0, <1>b, <2>3, <2>4 DEF At
    <2>6. buckets' \in [Keys -> Buckets \cup {None}] /\ lastSweep' \in Nat \cup {None}
          /\ cache' \in [Tokens -> Nat \cup {None}] /\ accepted' \in [Tokens -> Nat \cup {None}]
      BY <1>0, <2>1, <2>3, Zenon
    <2>7. Typed'
      BY <1>0, <2>2, <2>3, <2>4, <2>5, <2>6, CallTyped, Zenon
    <2>8. \A c \in Attempts : /\ call'[c].key = call[c].key
                              /\ call[c].key # None => /\ call'[c].reserved = call[c].reserved
                                                       /\ call'[c].at \in {"review", "finish"}
      BY <1>0, <1>b, <2>2, <2>4, Zenon
    <2>9. Tracked' /\ Keyed'
      BY <2>3, <2>8, PermitFrame, Zenon
    <2> QED
      BY <2>7, <2>9, Zenon DEF PermitInv
  <1>10. ASSUME NEW a \in Attempts, Reserve(a) PROVE PermitInv'
    <2> DEFINE t == call[a].t
               sw == Swept(t)
               k == BucketKey(sw, call[a].peer)
               old == IF sw[k] = None THEN NewBucket ELSE sw[k]
               b == [old EXCEPT !.lastSeen = t]
               nb == [b EXCEPT !.pend = Append(@, a)]
               v == [call[a] EXCEPT !.at = "review", !.key = k, !.reserved = t]
    <2>1. /\ At(a, "reserve") /\ lastSweep' = SweepTime(t)
          /\ UNCHANGED <<clock, cache, accepted>>
          /\ \/ /\ Granted(b, t) /\ buckets' = [sw EXCEPT ![k] = nb]
                /\ call' = [call EXCEPT ![a].at = "review", ![a].key = k, ![a].reserved = t]
             \/ buckets' = [sw EXCEPT ![k] = b] /\ call' = [call EXCEPT ![a] = Idle]
      BY <1>10, Zenon DEF Reserve
    <2>2. t \in Nat /\ t <= clock /\ call[a].key = None /\ call[a].token \in Tokens
          /\ call[a].peer \in Keys /\ call[a] \in Calls
      BY <1>0, <1>b, <2>1, Zenon DEF At, Calls
    <2>3. k \in Keys
      BY <2>2, Zenon DEF BucketKey, Keys
    <2> HIDE DEF t
    <2>4. /\ sw \in [Keys -> Buckets \cup {None}] /\ lastSweep' \in Nat \cup {None}
          /\ \A q \in Keys : \/ sw[q] = buckets[q]
                             \/ sw[q] = None /\ buckets[q].pend = <<>>
      BY <1>0, <2>1, <2>2, SweptType, Zenon
    <2> HIDE DEF sw, k
    <2>5. old \in Buckets /\ Backed(old, k, call)
      <3>1. NewBucket \in Buckets
        BY DEF NewBucket, Buckets, Parameters
      <3>2. Backed(NewBucket, k, call)
        BY DEF NewBucket, Backed, Parameters
      <3>3. sw[k] # None => sw[k] \in Buckets /\ Backed(sw[k], k, call)
        BY <1>0, <2>3, <2>4, Zenon DEF PermitInv, Tracked
      <3> QED
        BY <3>1, <3>2, <3>3, Zenon
    <2>6. sw[k] # None => old.pend = buckets[k].pend
      BY <2>3, <2>4, Zenon
    <2> HIDE DEF old
    <2>7. b \in Buckets /\ Backed(b, k, call) /\ b.pend = old.pend
      <3>1. Backed(b, k, call)
        BY <2>5, BackedFrame, Zenon
      <3>2. b \in Buckets /\ b.pend = old.pend
        BY <2>2, <2>5, Zenon DEF Buckets
      <3> QED
        BY <3>1, <3>2, Zenon
    <2> HIDE DEF b
    <2>8. \A c \in Attempts \ {a} : call'[c] = call[c]
      BY <1>0, <2>1, Zenon
    <2>9. ASSUME NEW q \in Keys, q # k, buckets'[q] # None PROVE Backed(buckets'[q], q, call')
      <3>1. buckets'[q] = sw[q]
        BY <2>1, <2>4, <2>9, Zenon
      <3>2. sw[q] = buckets[q] /\ buckets[q] \in Buckets /\ Backed(buckets[q], q, call)
        BY <1>0, <2>4, <2>9, <3>1, Zenon DEF PermitInv, Tracked
      <3>3. \A c \in Attempts : call[c].key = q =>
                call'[c].key = q /\ call'[c].reserved = call[c].reserved
        BY <1>0, <2>2, <2>8, Zenon
      <3>4. Backed(buckets[q], q, call')
        BY <3>2, <3>3, BackedFrame, Zenon
      <3> QED
        BY <3>1, <3>2, <3>4, Zenon
    <2>10. ASSUME NEW c \in Attempts \ {a}, call[c].key # None,
                  NEW x \in Buckets, buckets' = [sw EXCEPT ![k] = x],
                  \A i \in 1..Len(b.pend) : i \in 1..Len(x.pend) /\ x.pend[i] = b.pend[i]
           PROVE  call'[c].at \in {"review", "finish"} /\ Holds(c, buckets)'
      <3>1. call[c].at \in {"review", "finish"} /\ Holds(c, buckets) /\ call[c].key \in Keys
        BY <1>0, <2>10, Zenon DEF PermitInv, Keyed, Calls
      <3>2. PICK i \in 1..Len(buckets[call[c].key].pend) : buckets[call[c].key].pend[i] = c
        BY <3>1, Zenon DEF Holds
      <3>3. buckets[call[c].key] # None /\ buckets[call[c].key].pend # <<>>
        BY <3>1, <3>2 DEF Holds
      <3>4. sw[call[c].key] = buckets[call[c].key]
        BY <2>4, <3>1, <3>3, Zenon
      <3>5. CASE call[c].key # k
        <4>1. buckets'[call[c].key] = buckets[call[c].key] /\ call'[c] = call[c]
          BY <2>4, <2>8, <2>10, <3>1, <3>4, <3>5, Zenon
        <4> QED
          BY <3>1, <4>1, Zenon DEF Holds
      <3>6. CASE call[c].key = k
        <4>1. buckets'[k] = x /\ call'[c] = call[c] /\ x # None
          BY <1>0, <2>3, <2>4, <2>8, <2>10, Zenon
        <4>2. b.pend = buckets[k].pend
          BY <2>6, <2>7, <3>3, <3>4, <3>6, Zenon
        <4>3. i \in 1..Len(x.pend) /\ x.pend[i] = c
          BY <2>10, <3>2, <3>6, <4>2, Zenon
        <4> QED
          BY <3>1, <3>6, <4>1, <4>3, Zenon DEF Holds
      <3> QED
        BY <3>5, <3>6, Zenon
    <2>11. CASE buckets' = [sw EXCEPT ![k] = b] /\ call' = [call EXCEPT ![a] = Idle]
      <3>1. buckets' \in [Keys -> Buckets \cup {None}] /\ buckets'[k] = b
        BY <2>3, <2>4, <2>7, <2>11, Zenon
      <3>2. Idle.reserved <= clock /\ Idle.t <= clock /\ cache' \in [Tokens -> Nat \cup {None}]
            /\ accepted' \in [Tokens -> Nat \cup {None}] /\ UNCHANGED clock
        BY <1>0, <1>a, <2>1
      <3>3. Typed'
        BY <1>0, <1>a, <2>4, <2>11, <3>1, <3>2, CallTyped, Zenon
      <3>4. Backed(b, k, call')
        <4>1. \A c \in Attempts : call[c].key = k =>
                  call'[c].key = k /\ call'[c].reserved = call[c].reserved
          BY <1>0, <2>2, <2>3, <2>8, Zenon
        <4> QED
          BY <2>7, <4>1, BackedFrame, Zenon
      <3>5. Tracked'
        BY <2>9, <3>1, <3>4, Zenon DEF Tracked
      <3>6. Keyed'
        <4>1. call'[a].key = None
          BY <1>0, <1>a, <2>11, Zenon
        <4> QED
          BY <2>7, <2>8, <2>10, <2>11, <4>1, Zenon DEF Keyed
      <3> QED
        BY <3>3, <3>5, <3>6, Zenon DEF PermitInv
    <2>12. CASE Granted(b, t) /\ buckets' = [sw EXCEPT ![k] = nb]
                /\ call' = [call EXCEPT ![a].at = "review", ![a].key = k, ![a].reserved = t]
      <3> DEFINE n == Len(b.pend)
      <3>0. b.pend \in Seq(Attempts) /\ n \in Nat
        BY <2>7 DEF Buckets
      <3>1. /\ nb \in Buckets /\ nb.pend = Append(b.pend, a) /\ nb.tokens = b.tokens
            /\ nb.last = b.last
        <4>1. Append(b.pend, a) \in Seq(Attempts)
          BY <3>0
        <4> QED
          BY <2>7, <4>1, Zenon DEF Buckets
      <3>2. Len(nb.pend) = n + 1 /\ nb.pend[n + 1] = a /\ \A i \in 1..n : nb.pend[i] = b.pend[i]
        BY <3>0, <3>1
      <3> HIDE DEF nb
      <3>3. \A u : TokensAt(nb, u) = TokensAt(b, u)
        BY <3>1, Zenon DEF TokensAt
      <3>4. buckets' \in [Keys -> Buckets \cup {None}] /\ buckets'[k] = nb
        BY <2>3, <2>4, <2>12, <3>1, Zenon
      <3>5. call' = [call EXCEPT ![a] = v]
        BY <1>0, <2>12, Zenon
      <3>6. v \in Calls /\ v.key = k /\ v.reserved = t /\ v.t = call[a].t /\ v.at = "review"
            /\ v.token = call[a].token
        BY <2>2, <2>3, Zenon DEF Calls, Steps
      <3> HIDE DEF v
      <3>7. v.t <= clock /\ v.reserved <= clock /\ cache' \in [Tokens -> Nat \cup {None}]
            /\ accepted' \in [Tokens -> Nat \cup {None}] /\ UNCHANGED clock
        BY <1>0, <1>b, <2>1, <2>2, <3>6, Zenon
      <3>8. Typed'
        BY <1>0, <2>2, <2>4, <3>4, <3>5, <3>6, <3>7, CallTyped, Zenon
      <3>9. call'[a] = v
        BY <1>0, <3>5, Zenon
      <3>10. ASSUME NEW i \in 1..n
             PROVE  b.pend[i] \in Attempts \ {a} /\ call'[b.pend[i]] = call[b.pend[i]]
        <4>1. b.pend[i] \in Attempts /\ call[b.pend[i]].key = k
          BY <2>7, <3>0 DEF Backed
        <4> QED
          BY <1>0, <2>2, <2>3, <2>8, <4>1, Zenon
      <3>11. TokensAt(b, t) >= n + 1
        <4>1. TokensAt(b, t) \in Int
          BY <2>2, <2>7, TokensGrow
        <4> QED
          BY <2>12, <3>0, <4>1 DEF Granted
      <3>12. ASSUME NEW i \in 1..(n + 1)
             PROVE  /\ call'[nb.pend[i]].key = k
                    /\ TokensAt(nb, call'[nb.pend[i]].reserved) >= i
                    /\ \A j \in 1..(n + 1) : nb.pend[j] = nb.pend[i] => j = i
        <4>1. CASE i = n + 1
          <5>1. call'[nb.pend[i]].key = k /\ TokensAt(nb, call'[nb.pend[i]].reserved) >= i
            BY <3>2, <3>3, <3>6, <3>9, <3>11, <4>1, Zenon
          <5>2. ASSUME NEW j \in 1..(n + 1), nb.pend[j] = nb.pend[i] PROVE j = i
            <6>1. j \in 1..n => nb.pend[j] # a
              BY <3>2, <3>10, Zenon
            <6> QED
              BY <3>0, <3>2, <4>1, <5>2, <6>1
          <5> QED
            BY <5>1, <5>2, Zenon
        <4>2. CASE i \in 1..n
          <5>1. nb.pend[i] = b.pend[i] /\ call'[b.pend[i]] = call[b.pend[i]] /\ b.pend[i] # a
            BY <3>2, <3>10, <4>2, Zenon
          <5>2. call[b.pend[i]].key = k /\ TokensAt(b, call[b.pend[i]].reserved) >= i
                /\ \A j \in 1..n : b.pend[j] = b.pend[i] => j = i
            BY <2>7, <4>2, Zenon DEF Backed
          <5>3. ASSUME NEW j \in 1..(n + 1), nb.pend[j] = nb.pend[i] PROVE j = i
            <6>1. j # n + 1
              BY <3>2, <5>1, <5>3, Zenon
            <6>2. j \in 1..n
              BY <3>0, <6>1
            <6> QED
              BY <3>2, <5>1, <5>2, <5>3, <6>2, Zenon
          <5> QED
            BY <3>3, <5>1, <5>2, <5>3, Zenon
        <4> QED
          BY <3>0, <4>1, <4>2
      <3>13. Backed(nb, k, call')
        BY <2>7, <3>1, <3>2, <3>12, Zenon DEF Backed
      <3>14. Tracked'
        BY <2>9, <3>4, <3>13, Zenon DEF Tracked
      <3>15. Keyed'
        <4>1. ASSUME NEW c \in Attempts \ {a}, call'[c].key # None
              PROVE  call'[c].at \in {"review", "finish"} /\ Holds(c, buckets)'
          <5>1. \A i \in 1..Len(b.pend) : i \in 1..Len(nb.pend) /\ nb.pend[i] = b.pend[i]
            BY <3>0, <3>2
          <5> QED
            BY <2>8, <2>10, <2>12, <3>1, <4>1, <5>1, Zenon
        <4>2. call'[a].at \in {"review", "finish"} /\ Holds(a, buckets)'
          <5>1. n + 1 \in 1..Len(nb.pend) /\ nb.pend[n + 1] = a /\ nb # None
            BY <1>0, <3>0, <3>1, <3>2
          <5> QED
            BY <3>4, <3>6, <3>9, <5>1, Zenon DEF Holds
        <4> QED
          BY <4>1, <4>2, Zenon DEF Keyed
      <3> QED
        BY <3>8, <3>14, <3>15, Zenon DEF PermitInv
    <2> QED
      BY <2>1, <2>11, <2>12, Zenon
  <1>11. ASSUME NEW a \in Attempts, Finish(a) PROVE PermitInv'
    <2> DEFINE k == call[a].key
               t == call[a].t
               v == IF call[a].result = "ok" THEN [call[a] EXCEPT !.at = "store", !.key = None, !.t = clock]
                    ELSE Idle
               b == buckets[k]
               s == Settled(b, a, t)
    <2>1. /\ At(a, "finish") /\ call' = [call EXCEPT ![a] = v]
          /\ UNCHANGED <<clock, lastSweep, cache, accepted>>
          /\ buckets' = IF k = None THEN buckets ELSE [buckets EXCEPT ![k] = s]
      BY <1>11, Zenon DEF Finish
    <2>2. /\ v \in Calls /\ v.key = None
          /\ \/ v = Idle
             \/ /\ v.at = "store" /\ v.t = clock /\ v.reserved = call[a].reserved
                /\ v.token = call[a].token
      <3>1. CASE call[a].result = "ok"
        <4>1. v = [call[a] EXCEPT !.at = "store", !.key = None, !.t = clock] /\ call[a] \in Calls
          BY <1>b, <3>1, Zenon
        <4> HIDE DEF v
        <4> QED
          BY <1>0, <4>1, Zenon DEF Calls, Steps
      <3>2. CASE call[a].result # "ok"
        <4>1. v = Idle
          BY <3>2, Zenon
        <4> HIDE DEF v
        <4> QED
          BY <1>a, <4>1, Zenon
      <3> QED
        BY <3>1, <3>2, Zenon
    <2> HIDE DEF v
    <2>3. /\ v.t <= clock /\ v.reserved <= clock /\ v.at # "finish"
          /\ (v.at # "idle" => v.token \in Tokens)
      BY <1>0, <1>a, <1>b, <2>1, <2>2 DEF At
    <2>4. clock' = clock /\ accepted' = accepted /\ cache' \in [Tokens -> Nat \cup {None}]
          /\ lastSweep' \in Nat \cup {None} /\ accepted' \in [Tokens -> Nat \cup {None}]
      BY <1>0, <2>1, Zenon
    <2>5. CASE k = None
      <3>1. buckets' \in [Keys -> Buckets \cup {None}] /\ \A q \in Keys : buckets'[q] = buckets[q]
        BY <1>0, <2>1, <2>5, Zenon
      <3> QED
        BY <2>1, <2>2, <2>3, <2>4, <2>5, <3>1, Unpermitted, Zenon
    <2>6. CASE k # None
      <3>1. k \in Keys /\ t \in Nat /\ call[a].reserved <= t
        BY <1>0, <1>b, <2>1, <2>6, Zenon DEF Calls, Typed, Clocked
      <3>2. Holds(a, buckets)
        BY <2>6, Zenon DEF PermitInv, Keyed
      <3>3. b \in Buckets /\ Backed(b, k, call)
        BY <1>0, <3>1, <3>2, Zenon DEF Holds, PermitInv, Tracked
      <3>4. PICK i0 \in 1..Len(b.pend) : b.pend[i0] = a
        BY <3>2, Zenon DEF Holds
      <3>5. \A c \in Attempts \ {a} : call'[c] = call[c]
        BY <1>0, <2>1, Zenon
      <3>6. /\ s \in Buckets /\ Backed(s, k, call')
            /\ \A c \in Attempts \ {a} : (\E i \in 1..Len(b.pend) : b.pend[i] = c) =>
                  \E i \in 1..Len(s.pend) : s.pend[i] = c
        BY <1>0, <3>1, <3>3, <3>4, <3>5, SettledBacked, SMTT(20)
      <3> HIDE DEF s
      <3>7. buckets' = [buckets EXCEPT ![k] = s] /\ buckets' \in [Keys -> Buckets \cup {None}]
            /\ buckets'[k] = s
        BY <1>0, <2>1, <2>6, <3>1, <3>6, Zenon
      <3>8. Typed'
        BY <1>0, <2>1, <2>2, <2>3, <2>4, <3>7, CallTyped, Zenon
      <3>9. Tracked'
        <4>1. ASSUME NEW q \in Keys, q # k, buckets'[q] # None PROVE Backed(buckets'[q], q, call')
          <5>1. buckets'[q] = buckets[q] /\ buckets[q] \in Buckets /\ Backed(buckets[q], q, call)
            BY <1>0, <3>7, <4>1, Zenon DEF PermitInv, Tracked
          <5>2. \A c \in Attempts : call[c].key = q => call'[c].key = q
                                                       /\ call'[c].reserved = call[c].reserved
            BY <3>5, <4>1, Zenon
          <5>3. Backed(buckets[q], q, call')
            BY <5>1, <5>2, BackedFrame, Zenon
          <5> QED
            BY <5>1, <5>3, Zenon
        <4> QED
          BY <3>6, <3>7, <4>1, Zenon DEF Tracked
      <3>10. ASSUME NEW c \in Attempts, call'[c].key # None
             PROVE  call'[c].at \in {"review", "finish"} /\ Holds(c, buckets)'
        <4>1. c # a
          BY <1>0, <2>1, <2>2, <3>10, Zenon
        <4>2. call'[c] = call[c] /\ call[c].key # None /\ call[c].key \in Keys
          BY <1>0, <3>5, <3>10, <4>1 DEF Calls
        <4>3. call[c].at \in {"review", "finish"} /\ Holds(c, buckets)
          BY <4>2, Zenon DEF PermitInv, Keyed
        <4>4. CASE call[c].key # k
          <5>1. buckets'[call[c].key] = buckets[call[c].key]
            BY <1>0, <3>7, <4>2, <4>4, Zenon
          <5> QED
            BY <4>2, <4>3, <5>1, Zenon DEF Holds
        <4>5. CASE call[c].key = k
          <5>1. \E i \in 1..Len(s.pend) : s.pend[i] = c
            BY <3>6, <4>1, <4>3, <4>5, Zenon DEF Holds
          <5>2. s # None
            BY <1>0, <3>6, Zenon
          <5> QED
            BY <3>7, <4>2, <4>3, <4>5, <5>1, <5>2, Zenon DEF Holds
        <4> QED
          BY <4>4, <4>5, Zenon
      <3> QED
        BY <3>8, <3>9, <3>10, Zenon DEF PermitInv, Keyed
    <2> QED
      BY <2>5, <2>6, Zenon
  <1> QED
    BY <1>1, <1>2, <1>4, <1>5, <1>6, <1>7, <1>8, <1>9, <1>10, <1>11, Zenon DEF Next

\* A permit guarantees a token: whatever other attempts of the peer reserved,
\* failed or were swept meanwhile (reserve and finish of auth_limiter.go).
THEOREM PermitsHonoured == ASSUME Parameters PROVE Spec => []PermitHonoured
  <1>1. PermitInv => PermitHonoured
    <2> SUFFICES ASSUME PermitInv, NEW a \in Attempts, At(a, "finish"), call[a].key # None
                 PROVE  /\ buckets[call[a].key] # None
                        /\ \E i \in DOMAIN buckets[call[a].key].pend :
                              buckets[call[a].key].pend[i] = a
                        /\ TokensAt(buckets[call[a].key], call[a].t) >= 1
      BY Zenon DEF PermitHonoured
    <2> DEFINE b == buckets[call[a].key]
    <2>1. Holds(a, buckets) /\ call[a].key \in Keys /\ call[a].t \in Nat
          /\ call[a].reserved \in Nat /\ call[a].reserved <= call[a].t
      BY Zenon DEF PermitInv, Keyed, Typed, AuthenticationTypeOK, Clocked
    <2>2. b # None /\ b \in Buckets /\ Backed(b, call[a].key, call)
      BY <2>1, Zenon DEF Holds, PermitInv, Tracked, Typed, AuthenticationTypeOK
    <2>3. PICK i \in 1..Len(b.pend) : b.pend[i] = a
      BY <2>1, Zenon DEF Holds
    <2>4. i \in DOMAIN b.pend /\ i \in Nat /\ i >= 1
      <3>1. b.pend \in Seq(Attempts)
        BY <2>2, Zenon DEF Buckets
      <3> QED
        BY <3>1, <2>3
    <2>5. TokensAt(b, call[a].reserved) >= i
      BY <2>2, <2>3, Zenon DEF Backed
    <2> HIDE DEF b
    <2>6. TokensAt(b, call[a].reserved) \in Int /\ TokensAt(b, call[a].t) \in Int
          /\ TokensAt(b, call[a].reserved) <= TokensAt(b, call[a].t)
      BY <2>1, <2>2, TokensGrow, Zenon
    <2>7. TokensAt(b, call[a].t) >= 1
      BY <2>4, <2>5, <2>6
    <2> QED
      BY <2>2, <2>3, <2>4, <2>7, Zenon DEF b
  <1> QED
    BY <1>1, PermitInit, PermitStep, PTL DEF Spec

----------------------------------------------------------------------------
(***************************************************************************)
(* The idle sweep forgives nothing, and an answer from the cache is        *)
(* backed, because no reading of the clock is used late.                   *)
(***************************************************************************)

\* A reading of the clock is used within MaxDelay.
Fresh == \A a \in Attempts : call[a].at \in Timed => clock <= call[a].t + MaxDelay

\* No reading of the clock grows older than Tick allows.
LEMMA FreshStep == ASSUME Parameters PROVE PermitInv /\ Fresh /\ [Next]_vars => Fresh'
  <1> SUFFICES ASSUME PermitInv, Fresh, [Next]_vars PROVE Fresh'
    OBVIOUS
  <1>0. /\ call \in [Attempts -> Calls] /\ clock \in Nat /\ MaxDelay \in Nat
        /\ \A c \in Attempts : call[c].t \in Nat
    BY Zenon DEF PermitInv, Typed, AuthenticationTypeOK, Calls, Parameters
  <1>1. CASE UNCHANGED vars
    BY <1>1, Zenon DEF vars, Fresh
  <1>2. CASE Tick
    <2>1. ASSUME NEW c \in Attempts, call[c].at \in Timed PROVE clock + 1 <= call[c].t + MaxDelay
      <3>1. clock - call[c].t < MaxDelay
        BY <1>2, <2>1, Zenon DEF Tick
      <3> QED
        BY <1>0, <3>1
    <2> QED
      BY <1>2, <2>1, Zenon DEF Tick, Fresh
  <1>3. ASSUME NEW a \in Attempts, UNCHANGED clock,
               \A c \in Attempts \ {a} : call'[c] = call[c],
               \/ call'[a].at \notin Timed \/ call'[a].t = clock
               \/ call[a].at \in Timed /\ call'[a].t = call[a].t
        PROVE  Fresh'
    BY <1>0, <1>3 DEF Fresh
  <1>4. ASSUME NEW a \in Attempts, CacheHit(a) \/ Store(a) PROVE Fresh'
    <2>1. call' = [call EXCEPT ![a] = Idle] /\ UNCHANGED clock
      BY <1>4, Zenon DEF CacheHit, Store
    <2>2. Idle.at \notin Timed
      BY Zenon DEF Idle, Timed
    <2> QED
      BY <1>0, <1>3, <2>1, <2>2, Zenon
  <1>5. ASSUME NEW a \in Attempts, NEW p \in Keys, NEW k \in Tokens, Authenticate(a, p, k)
        PROVE  Fresh'
    <2>1. UNCHANGED clock /\ call'[a].t = clock /\ \A c \in Attempts \ {a} : call'[c] = call[c]
      BY <1>0, <1>5, Zenon DEF Authenticate, Idle
    <2> QED
      BY <1>3, <2>1, Zenon
  <1>6. ASSUME NEW a \in Attempts, NEW k \in Tokens, Revalidate(a, k) PROVE Fresh'
    <2>1. UNCHANGED clock /\ call'[a].at = "review" /\ \A c \in Attempts \ {a} : call'[c] = call[c]
      BY <1>0, <1>6, Zenon DEF Revalidate, Idle
    <2> QED
      BY <1>3, <2>1, Zenon DEF Timed
  <1>7. ASSUME NEW a \in Attempts, DropExpired(a) \/ Review(a) PROVE Fresh'
    <2>1. UNCHANGED clock /\ call'[a].t = clock /\ \A c \in Attempts \ {a} : call'[c] = call[c]
      <3>1. CASE DropExpired(a)
        BY <1>0, <3>1, Zenon DEF DropExpired, Calls
      <3>2. CASE Review(a)
        BY <1>0, <3>2 DEF Review, Calls
      <3> QED
        BY <1>7, <3>1, <3>2, Zenon
    <2> QED
      BY <1>3, <2>1, Zenon
  <1>8. ASSUME NEW a \in Attempts, Reserve(a) PROVE Fresh'
    <2>1. UNCHANGED clock /\ call'[a].at \in {"review", "idle"}
          /\ \A c \in Attempts \ {a} : call'[c] = call[c]
      BY <1>0, <1>8 DEF Reserve, Idle, Calls
    <2> QED
      BY <1>3, <2>1, Zenon DEF Timed
  <1>9. ASSUME NEW a \in Attempts, Finish(a) PROVE Fresh'
    <2>1. UNCHANGED clock /\ \A c \in Attempts \ {a} : call'[c] = call[c]
      BY <1>0, <1>9, Zenon DEF Finish
    <2>2. call[a].at = "finish" /\ (call'[a].at = "idle" \/ call'[a].t = clock)
      BY <1>0, <1>9, Zenon DEF Finish, At, Idle, Calls
    <2> QED
      BY <1>3, <2>1, <2>2, Zenon DEF Timed
  <1> QED
    BY <1>1, <1>2, <1>4, <1>5, <1>6, <1>7, <1>8, <1>9, Zenon DEF Next

\* A bucket was seen when its tokens last changed, or not long before.
Aged == \A k \in Keys : buckets[k] # None =>
          buckets[k].last <= clock /\ buckets[k].last <= buckets[k].lastSeen + MaxDelay

SweepInv == PermitInv /\ Fresh /\ Aged

\* Buckets age with the clock.
LEMMA AgedStep ==
    ASSUME Parameters
    PROVE  SweepInv /\ [Next]_vars =>
             /\ Aged'
             /\ \A k \in Keys : buckets[k] # None /\ buckets'[k] = None =>
                  \E t \in Nat : t <= clock /\ IdleBucket(buckets[k], t)
  <1> SUFFICES ASSUME SweepInv, [Next]_vars
               PROVE  /\ Aged'
                      /\ \A k \in Keys : buckets[k] # None /\ buckets'[k] = None =>
                           \E t \in Nat : t <= clock /\ IdleBucket(buckets[k], t)
    OBVIOUS
  <1> DEFINE Goal == /\ Aged'
                     /\ \A k \in Keys : buckets[k] # None /\ buckets'[k] = None =>
                          \E t \in Nat : t <= clock /\ IdleBucket(buckets[k], t)
  <1>0. /\ call \in [Attempts -> Calls] /\ clock \in Nat /\ MaxDelay \in Nat
        /\ buckets \in [Keys -> Buckets \cup {None}] /\ None \notin Buckets /\ Typed
        /\ \A c \in Attempts : call[c].t \in Nat /\ call[c].t <= clock
    BY Zenon DEF SweepInv, PermitInv, Typed, AuthenticationTypeOK, Calls, Parameters, Clocked
  <1>1. ASSUME UNCHANGED buckets, clock' \in {clock, clock + 1} PROVE Goal
    BY <1>0, <1>1 DEF SweepInv, Aged, Buckets
  <1>2. ASSUME NEW t \in Nat, t <= clock, NEW k \in Keys
        PROVE  /\ Swept(t)[k] # None => Swept(t)[k] = buckets[k]
               /\ buckets[k] # None /\ Swept(t)[k] = None => IdleBucket(buckets[k], t)
    BY Zenon DEF Swept
  <1>3. ASSUME NEW a \in Attempts, CacheHit(a) PROVE Goal
    <2>1. UNCHANGED clock /\ buckets' = Swept(call[a].t)
      BY <1>3, Zenon DEF CacheHit
    <2> QED
      BY <1>0, <1>2, <2>1, Zenon DEF SweepInv, Aged
  <1>4. ASSUME NEW a \in Attempts, Reserve(a) PROVE Goal
    <2> DEFINE t == call[a].t
               sw == Swept(t)
               k == BucketKey(sw, call[a].peer)
               old == IF sw[k] = None THEN NewBucket ELSE sw[k]
    <2>1. /\ UNCHANGED clock /\ At(a, "reserve")
          /\ \/ buckets' = [sw EXCEPT ![k] = [old EXCEPT !.lastSeen = t]]
             \/ buckets' = [sw EXCEPT ![k] = [[old EXCEPT !.lastSeen = t] EXCEPT !.pend = Append(@, a)]]
      BY <1>4, Zenon DEF Reserve
    <2>2. t \in Nat /\ t <= clock /\ clock <= t + MaxDelay /\ call[a].peer \in Keys
      BY <1>0, <2>1, Zenon DEF At, SweepInv, Fresh, Timed, Calls
    <2>3. k \in Keys
      BY <2>2, Zenon DEF BucketKey, Keys
    <2> HIDE DEF t, k
    <2>4. sw \in [Keys -> Buckets \cup {None}]
      BY <1>0, <2>2, SweptType, Zenon
    <2>5. old \in Buckets /\ old.last <= clock
      <3>1. NewBucket \in Buckets /\ NewBucket.last <= clock
        BY <1>0 DEF NewBucket, Buckets, Parameters
      <3>2. sw[k] # None => sw[k] \in Buckets /\ sw[k].last <= clock
        BY <1>2, <2>2, <2>3, <2>4, Zenon DEF SweepInv, Aged
      <3> QED
        BY <3>1, <3>2, Zenon
    <2> HIDE DEF old
    <2>6. \A q \in Keys \ {k} : buckets'[q] = sw[q]
      BY <2>1, <2>4, Zenon
    <2>7. buckets'[k] # None /\ buckets'[k].last = old.last /\ buckets'[k].lastSeen = t
      <3> DEFINE b == [old EXCEPT !.lastSeen = t]
                 nb == [b EXCEPT !.pend = Append(@, a)]
      <3>1. b \in Buckets /\ b.last = old.last /\ b.lastSeen = t
        BY <2>2, <2>5, Zenon DEF Buckets
      <3>2. nb \in Buckets /\ nb.last = b.last /\ nb.lastSeen = b.lastSeen
        <4> HIDE DEF b
        <4>1. b.pend \in Seq(Attempts) /\ Append(b.pend, a) \in Seq(Attempts)
          BY <3>1 DEF Buckets
        <4> HIDE DEF nb
        <4>2. nb = [b EXCEPT !.pend = Append(b.pend, a)]
          BY Zenon DEF nb
        <4> QED
          BY <3>1, <4>1, <4>2, Zenon DEF Buckets
      <3>3. buckets'[k] = b \/ buckets'[k] = nb
        BY <2>1, <2>3, <2>4, Zenon
      <3> HIDE DEF b, nb
      <3> QED
        BY <1>0, <3>1, <3>2, <3>3, Zenon
    <2>8. old.last \in Nat /\ old.last <= t + MaxDelay
      BY <1>0, <2>2, <2>5 DEF Buckets
    <2>9. ASSUME NEW q \in Keys, buckets'[q] # None
          PROVE  buckets'[q].last <= clock /\ buckets'[q].last <= buckets'[q].lastSeen + MaxDelay
      <3>1. CASE q = k
        BY <2>5, <2>7, <2>8, <3>1, Zenon
      <3>2. CASE q # k
        BY <1>2, <2>2, <2>6, <2>9, <3>2, Zenon DEF SweepInv, Aged
      <3> QED
        BY <3>1, <3>2, Zenon
    <2>10. ASSUME NEW q \in Keys, buckets[q] # None, buckets'[q] = None
           PROVE  t \in Nat /\ t <= clock /\ IdleBucket(buckets[q], t)
      BY <1>2, <2>2, <2>6, <2>7, <2>10, Zenon
    <2> QED
      BY <2>1, <2>9, <2>10, Zenon DEF Aged
  <1>5. ASSUME NEW a \in Attempts, Finish(a) PROVE Goal
    <2> DEFINE k == call[a].key
               t == call[a].t
               s == Settled(buckets[k], a, t)
    <2>1. /\ UNCHANGED clock /\ At(a, "finish")
          /\ buckets' = IF k = None THEN buckets ELSE [buckets EXCEPT ![k] = s]
      BY <1>5, Zenon DEF Finish
    <2>2. CASE k = None
      BY <1>1, <2>1, <2>2, Zenon
    <2>3. CASE k # None
      <3>1. k \in Keys /\ t \in Nat /\ t <= clock /\ clock <= t + MaxDelay
        BY <1>0, <2>1, <2>3, Zenon DEF Calls, SweepInv, Fresh, Timed, At
      <3>2. buckets[k] \in Buckets
        BY <1>0, <2>3, <3>1, Zenon DEF SweepInv, PermitInv, Keyed, Holds
      <3>3. s # None /\ s.lastSeen = t /\ (s.last = t \/ s.last = buckets[k].last)
        <4> DEFINE b == buckets[k]
                   m == IF call[a].result = "rejected" THEN AllowN(b, t) ELSE b
                   i == CHOOSE i \in 1..Len(b.pend) : b.pend[i] = a
        <4>1. s = [m EXCEPT !.pend = Without(@, i), !.lastSeen = t]
          BY Zenon DEF Settled
        <4>2. TokensAt(b, t) \in Int
          BY <3>1, <3>2, TokensGrow
        <4>3. m \in Buckets /\ (m.last = t \/ m.last = b.last)
          <5>1. AllowN(b, t) \in Buckets /\ (AllowN(b, t).last = t \/ AllowN(b, t).last = b.last)
            <6>1. TokensAt(b, t) - 1 \in Int
              BY <4>2
            <6> QED
              BY <3>1, <3>2, <6>1, Zenon DEF AllowN, Buckets
          <5> QED
            BY <3>2, <5>1, Zenon
        <4>4. \E j \in 1..Len(b.pend) : b.pend[j] = a
          BY <2>3, Zenon DEF SweepInv, PermitInv, Keyed, Holds
        <4> HIDE DEF m
        <4>5. s.lastSeen = t /\ s.last = m.last
          BY <4>1, <4>3, Zenon DEF Buckets
        <4>6. Backed(b, k, call) /\ call[a].reserved <= t
          BY <1>0, <2>1, <3>1, <3>2, Zenon DEF SweepInv, PermitInv, Tracked, Typed, Clocked
        <4>7. s \in Buckets
          <5>1. \A c \in Attempts \ {a} : call[c] = call[c]
            OBVIOUS
          <5>2. PICK j \in 1..Len(b.pend) : b.pend[j] = a
            BY <4>4, Zenon
          <5> QED
            BY <1>0, <3>1, <3>2, <4>6, <5>1, <5>2, SettledBacked, Zenon
        <4> QED
          BY <1>0, <4>3, <4>5, <4>7, Zenon
      <3> HIDE DEF s
      <3>4. buckets'[k] = s /\ \A q \in Keys \ {k} : buckets'[q] = buckets[q]
        BY <1>0, <2>1, <2>3, <3>1, Zenon
      <3>5. s.last <= clock /\ s.last <= s.lastSeen + MaxDelay
        <4>1. buckets[k].last \in Nat /\ buckets[k].last <= clock
          BY <1>0, <3>1, <3>2, Zenon DEF Buckets, SweepInv, Aged
        <4> QED
          BY <1>0, <3>1, <3>3, <4>1
      <3> QED
        BY <2>1, <3>3, <3>4, <3>5, Zenon DEF SweepInv, Aged
    <2> QED
      BY <2>2, <2>3, Zenon
  <1>6. CASE UNCHANGED vars \/ Tick
    BY <1>0, <1>1, <1>6, Zenon DEF vars, Tick
  <1>7. ASSUME NEW a \in Attempts,
               \/ \E p \in Keys, k \in Tokens : Authenticate(a, p, k)
               \/ \E k \in Tokens : Revalidate(a, k)
               \/ DropExpired(a) \/ Review(a) \/ Store(a)
        PROVE  Goal
    <2>1. UNCHANGED <<buckets, clock>>
      BY <1>7, Zenon DEF Authenticate, Revalidate, DropExpired, Review, Store
    <2> QED
      BY <1>1, <2>1, Zenon
  <1> QED
    BY <1>3, <1>4, <1>5, <1>6, <1>7, Zenon DEF Next

\* The idle sweep drops no bucket that has not refilled (sweepIdleLocked).
THEOREM SweepsForgiveNothing == ASSUME Parameters, Refills PROVE Spec => SweepForgivesNothing
  <1>1. Init => SweepInv
    <2>1. Init => Fresh /\ Aged
      BY DEF Init, Fresh, Aged, Idle, Timed
    <2> QED
      BY <2>1, PermitInit, Zenon DEF SweepInv
  <1>2. SweepInv /\ [Next]_vars => SweepInv'
    BY PermitStep, FreshStep, AgedStep, Zenon DEF SweepInv
  <1>3. SweepInv /\ [Next]_vars =>
          [\A k \in Keys : buckets[k] # None /\ buckets'[k] = None =>
              TokensAt(buckets[k], clock) >= Burst]_vars
    <2> SUFFICES ASSUME SweepInv, [Next]_vars, NEW k \in Keys, buckets[k] # None,
                        buckets'[k] = None
                 PROVE  TokensAt(buckets[k], clock) >= Burst
      OBVIOUS
    <2> DEFINE b == buckets[k]
    <2>1. PICK t \in Nat : t <= clock /\ IdleBucket(b, t)
      BY AgedStep, Zenon
    <2>2. b \in Buckets /\ clock \in Nat /\ b.tokens >= 0 /\ b.last <= clock
          /\ b.last <= b.lastSeen + MaxDelay
      BY DEF SweepInv, PermitInv, Typed, AuthenticationTypeOK, Tracked, Backed, Aged
    <2>3. b.tokens \in Int /\ b.last \in Nat /\ b.lastSeen \in Nat /\ t - b.lastSeen >= IdleTTL
      BY <2>1, <2>2, Zenon DEF Buckets, IdleBucket
    <2>4. Rate \in Nat /\ Burst \in Nat /\ IdleTTL - MaxDelay \in Nat
          /\ Rate * (IdleTTL - MaxDelay) >= Burst /\ IdleTTL \in Nat /\ MaxDelay \in Nat
      BY DEF Parameters, Refills
    <2> HIDE DEF b
    <2> DEFINE d == clock - b.last
               e == IdleTTL - MaxDelay
    <2>5. d \in Nat /\ e <= d
      BY <2>1, <2>2, <2>3, <2>4
    <2>6. TokensAt(b, clock) = Lesser(Burst, b.tokens + Rate * d)
      <3>1. d = IF clock > b.last THEN clock - b.last ELSE 0
        BY <2>2, <2>3
      <3> QED
        BY <3>1, Zenon DEF TokensAt
    <2> HIDE DEF d, e
    <2>7. Rate * d \in Nat /\ Rate * e \in Nat /\ Rate * e <= Rate * d /\ Rate * e >= Burst
      BY <2>4, <2>5, Refill, Zenon DEF e
    <2> DEFINE x == Rate * d
    <2>8. x \in Nat /\ x >= Burst /\ TokensAt(b, clock) = Lesser(Burst, b.tokens + x)
      BY <2>4, <2>6, <2>7
    <2> HIDE DEF x
    <2>9. TokensAt(b, clock) >= Burst
      BY <2>2, <2>3, <2>4, <2>8 DEF Lesser
    <2> QED
      BY <2>9, Zenon DEF b
  <1> QED
    BY <1>1, <1>2, <1>3, PTL DEF Spec, SweepForgivesNothing

----------------------------------------------------------------------------
(* The cache                                                               *)

\* A cached identity expires within the cache lifetime of a review that
\* accepted its token, and a minute before the token, give or take a delay.
EntryBacked(e, k, acc) == /\ acc[k] # None
                          /\ e <= acc[k] + 2 * MaxDelay + CacheTTL
                          /\ Expiry[k] # None => e + Minute <= Expiry[k] + MaxDelay

\* What attempt a has seen: an entry that had not expired, or its review.
CallBacked(v, acc) ==
  /\ v.at = "sweep" => /\ acc[v.token] # None
                       /\ v.t < acc[v.token] + 2 * MaxDelay + CacheTTL
                       /\ Expiry[v.token] # None => v.t + Minute < Expiry[v.token] + MaxDelay
  /\ v.at = "store" => acc[v.token] # None /\ v.t <= acc[v.token] + MaxDelay
  /\ v.at = "finish" /\ v.result = "ok" => acc[v.token] # None /\ v.t <= acc[v.token]

CacheInv == /\ \A k \in Tokens : accepted[k] # None => accepted[k] <= clock
            /\ \A k \in Tokens : cache[k] # None => EntryBacked(cache[k], k, accepted)
            /\ \A a \in Attempts : CallBacked(call[a], accepted)

\* A later review backs what an earlier one did.
LEMMA ReviewsBack ==
    ASSUME Parameters, Typed, CacheInv, accepted' \in [Tokens -> Nat \cup {None}],
           \A k \in Tokens : accepted[k] # None => accepted'[k] # None /\ accepted[k] <= accepted'[k]
    PROVE  /\ \A k \in Tokens : cache[k] # None => EntryBacked(cache[k], k, accepted')
           /\ \A a \in Attempts : CallBacked(call[a], accepted')
  <1>0. /\ call \in [Attempts -> Calls] /\ cache \in [Tokens -> Nat \cup {None}]
        /\ accepted \in [Tokens -> Nat \cup {None}] /\ MaxDelay \in Nat /\ CacheTTL \in Nat
    BY Zenon DEF Typed, AuthenticationTypeOK, Calls, Parameters
  <1>1. ASSUME NEW k \in Tokens, cache[k] # None PROVE EntryBacked(cache[k], k, accepted')
    <2>1. EntryBacked(cache[k], k, accepted) /\ cache[k] \in Nat
      BY <1>0, <1>1, Zenon DEF CacheInv
    <2>2. accepted[k] \in Nat /\ accepted'[k] \in Nat /\ accepted'[k] # None
          /\ accepted[k] <= accepted'[k]
      BY <1>0, <2>1, Zenon DEF EntryBacked
    <2>3. cache[k] <= accepted'[k] + 2 * MaxDelay + CacheTTL
      BY <1>0, <2>1, <2>2 DEF EntryBacked
    <2> QED
      BY <2>1, <2>2, <2>3, Zenon DEF EntryBacked
  <1>2. ASSUME NEW a \in Attempts PROVE CallBacked(call[a], accepted')
    <2> DEFINE v == call[a]
    <2>1. CallBacked(v, accepted) /\ v.t \in Nat /\ (v.at # "idle" => v.token \in Tokens)
      BY <1>0, Zenon DEF CacheInv, Typed, Clocked, At, Calls
    <2> HIDE DEF v
    <2>2. ASSUME v.at \in {"sweep", "finish", "store"}, accepted[v.token] # None
          PROVE  /\ accepted[v.token] \in Nat /\ accepted'[v.token] \in Nat
                 /\ accepted'[v.token] # None /\ accepted[v.token] <= accepted'[v.token]
      BY <1>0, <2>1, <2>2, Zenon
    <2>3. CASE v.at = "sweep"
      <3>1. accepted[v.token] # None /\ v.t < accepted[v.token] + 2 * MaxDelay + CacheTTL
        BY <2>1, <2>3, Zenon DEF CallBacked
      <3>2. v.t < accepted'[v.token] + 2 * MaxDelay + CacheTTL /\ accepted'[v.token] # None
        BY <1>0, <2>1, <2>2, <2>3, <3>1
      <3> QED
        BY <2>1, <2>3, <3>2, Zenon DEF CallBacked, v
    <2>4. CASE v.at = "finish" /\ v.result = "ok"
      <3>1. accepted[v.token] # None /\ v.t <= accepted[v.token]
        BY <2>1, <2>4, Zenon DEF CallBacked
      <3>2. v.t <= accepted'[v.token] /\ accepted'[v.token] # None
        BY <2>1, <2>2, <2>4, <3>1
      <3> QED
        BY <2>1, <2>4, <3>2, Zenon DEF CallBacked, v
    <2>5. CASE v.at = "store"
      <3>1. accepted[v.token] # None /\ v.t <= accepted[v.token] + MaxDelay
        BY <2>1, <2>5, Zenon DEF CallBacked
      <3>2. v.t <= accepted'[v.token] + MaxDelay /\ accepted'[v.token] # None
        BY <1>0, <2>1, <2>2, <2>5, <3>1
      <3> QED
        BY <2>1, <2>5, <3>2, Zenon DEF CallBacked, v
    <2>6. CASE v.at \notin {"sweep", "store"} /\ ~(v.at = "finish" /\ v.result = "ok")
      BY <2>1, <2>6, Zenon DEF CallBacked, v
    <2> QED
      BY <2>3, <2>4, <2>5, <2>6, Zenon
  <1> QED
    BY <1>1, <1>2, Zenon

\* Every step of an attempt, and every tick, keeps the cache backed.
LEMMA CacheStep ==
    ASSUME Parameters
    PROVE  PermitInv /\ Fresh /\ CacheInv /\ [Next]_vars => CacheInv'
  <1> SUFFICES ASSUME PermitInv, Fresh, CacheInv, [Next]_vars PROVE CacheInv'
    OBVIOUS
  <1>0. /\ call \in [Attempts -> Calls] /\ clock \in Nat /\ Typed
        /\ cache \in [Tokens -> Nat \cup {None}] /\ accepted \in [Tokens -> Nat \cup {None}]
        /\ MaxDelay \in Nat /\ CacheTTL \in Nat /\ Minute \in Nat /\ None \notin Nat
        /\ Expiry \in [Tokens -> Nat \cup {None}]
    BY DEF PermitInv, Typed, AuthenticationTypeOK, Calls, Parameters
  <1>1. ASSUME NEW a \in Attempts, UNCHANGED <<clock, accepted>>,
               \A c \in Attempts \ {a} : call'[c] = call[c],
               CallBacked(call'[a], accepted),
               \A k \in Tokens : cache'[k] \in {None, cache[k]}
        PROVE  CacheInv'
    BY <1>1, Zenon DEF CacheInv
  <1>2. CallBacked(Idle, accepted)
    BY Zenon DEF CallBacked, Idle
  <1>3. CASE UNCHANGED vars
    BY <1>3, Zenon DEF vars, CacheInv
  <1>4. CASE Tick
    <2>1. \A k \in Tokens : accepted[k] # None => accepted[k] <= clock + 1
      BY <1>0 DEF CacheInv
    <2> QED
      BY <1>4, <2>1, Zenon DEF Tick, CacheInv
  <1>5. ASSUME NEW a \in Attempts, NEW p \in Keys, NEW k \in Tokens, Authenticate(a, p, k)
        PROVE  CacheInv'
    <2> DEFINE at == IF cache[k] = None THEN "reserve"
                     ELSE IF clock < cache[k] THEN "sweep" ELSE "expired"
               v == [Idle EXCEPT !.at = at, !.peer = p, !.token = k, !.t = clock]
    <2>1. UNCHANGED <<clock, accepted, cache>> /\ call' = [call EXCEPT ![a] = v]
      BY <1>5, Zenon DEF Authenticate
    <2>2. v.at = at /\ v.token = k /\ v.t = clock
      BY Zenon DEF Idle
    <2>3. CallBacked(v, accepted)
      <3> HIDE DEF v
      <3>1. CASE cache[k] # None /\ clock < cache[k]
        <4>1. cache[k] \in Nat /\ EntryBacked(cache[k], k, accepted)
          BY <1>0, <3>1, Zenon DEF CacheInv
        <4>2. accepted[k] \in Nat
          BY <1>0, <4>1, Zenon DEF EntryBacked
        <4>3. clock < accepted[k] + 2 * MaxDelay + CacheTTL
          BY <1>0, <3>1, <4>1, <4>2 DEF EntryBacked
        <4>4. Expiry[k] # None => clock + Minute < Expiry[k] + MaxDelay
          BY <1>0, <3>1, <4>1 DEF EntryBacked
        <4>5. v.at = "sweep"
          BY <2>2, <3>1, Zenon
        <4> QED
          BY <2>2, <4>1, <4>3, <4>4, <4>5, Zenon DEF CallBacked, EntryBacked
      <3>2. CASE cache[k] = None \/ ~(clock < cache[k])
        <4>1. v.at \in {"reserve", "expired"}
          BY <2>2, <3>2, Zenon
        <4> QED
          BY <4>1, Zenon DEF CallBacked
      <3> QED
        BY <3>1, <3>2, Zenon
    <2> HIDE DEF v
    <2> QED
      BY <1>0, <1>1, <2>1, <2>3, Zenon
  <1>6. ASSUME NEW a \in Attempts, NEW k \in Tokens, Revalidate(a, k) PROVE CacheInv'
    <2>1. UNCHANGED <<clock, accepted, cache>> /\ call'[a].at = "review"
          /\ \A c \in Attempts \ {a} : call'[c] = call[c]
      BY <1>0, <1>6, Zenon DEF Revalidate, Idle
    <2> QED
      BY <1>1, <2>1, Zenon DEF CallBacked
  <1>7. ASSUME NEW a \in Attempts, CacheHit(a) PROVE CacheInv'
    BY <1>0, <1>1, <1>2, <1>7, Zenon DEF CacheHit
  <1>8. ASSUME NEW a \in Attempts, DropExpired(a) PROVE CacheInv'
    <2>1. UNCHANGED <<clock, accepted>> /\ call'[a].at = "reserve"
          /\ \A c \in Attempts \ {a} : call'[c] = call[c]
      BY <1>0, <1>8, Zenon DEF DropExpired, Calls
    <2>2. \A k \in Tokens : cache'[k] \in {None, cache[k]}
      BY <1>0, <1>8, Zenon DEF DropExpired
    <2> QED
      BY <1>1, <2>1, <2>2, Zenon DEF CallBacked
  <1>9. ASSUME NEW a \in Attempts, Reserve(a) PROVE CacheInv'
    <2>1. UNCHANGED <<clock, accepted, cache>> /\ call'[a].at \in {"review", "idle"}
          /\ \A c \in Attempts \ {a} : call'[c] = call[c]
      BY <1>0, <1>9 DEF Reserve, Idle, Calls
    <2> QED
      BY <1>1, <2>1, Zenon DEF CallBacked
  <1>10. ASSUME NEW a \in Attempts, Review(a) PROVE CacheInv'
    <2> DEFINE k == call[a].token
    <2>1. PICK result \in {"error", "rejected", "ok"} :
            /\ call' = [call EXCEPT ![a].at = "finish", ![a].t = clock, ![a].result = result]
            /\ accepted' = [accepted EXCEPT ![k] = IF result = "ok" THEN clock ELSE @]
      BY <1>10, Zenon DEF Review
    <2>2. k \in Tokens /\ UNCHANGED <<clock, cache>>
      BY <1>0, <1>10, Zenon DEF Review, Typed, Clocked, At
    <2>3. /\ call'[a].at = "finish" /\ call'[a].t = clock /\ call'[a].result = result
          /\ call'[a].token = k /\ \A c \in Attempts \ {a} : call'[c] = call[c]
      BY <1>0, <2>1 DEF Calls
    <2> HIDE DEF k
    <2>4. /\ accepted' \in [Tokens -> Nat \cup {None}]
          /\ \A j \in Tokens : accepted'[j] = accepted[j] \/ accepted'[j] = clock
          /\ result = "ok" => accepted'[k] = clock
      BY <1>0, <2>1, <2>2, Zenon
    <2>5. \A j \in Tokens : /\ accepted'[j] # None => accepted'[j] <= clock
                            /\ accepted[j] # None =>
                                 accepted'[j] # None /\ accepted[j] <= accepted'[j]
      BY <1>0, <2>4 DEF CacheInv
    <2>6. /\ \A j \in Tokens : cache[j] # None => EntryBacked(cache[j], j, accepted')
          /\ \A c \in Attempts : CallBacked(call[c], accepted')
      BY <1>0, <2>4, <2>5, ReviewsBack, Zenon
    <2>7. CallBacked(call'[a], accepted')
      BY <1>0, <2>3, <2>4 DEF CallBacked
    <2>8. \A c \in Attempts : CallBacked(call'[c], accepted')
      BY <2>3, <2>6, <2>7, Zenon
    <2> QED
      BY <2>2, <2>5, <2>6, <2>8, Zenon DEF CacheInv
  <1>11. ASSUME NEW a \in Attempts, Finish(a) PROVE CacheInv'
    <2>1. UNCHANGED <<clock, accepted, cache>> /\ \A c \in Attempts \ {a} : call'[c] = call[c]
      BY <1>0, <1>11, Zenon DEF Finish
    <2>2. CASE call[a].result = "ok"
      <3> DEFINE k == call[a].token
      <3>1. /\ call[a].at = "finish" /\ call'[a].at = "store"
            /\ call'[a].t = clock /\ call'[a].token = k
        BY <1>0, <1>11, <2>2, Zenon DEF Finish, At, Calls
      <3>2. k \in Tokens /\ accepted[k] # None /\ call[a].t <= accepted[k]
        BY <1>0, <2>2, <3>1, Zenon DEF CallBacked, CacheInv, Typed, Clocked, At
      <3>3. clock <= call[a].t + MaxDelay /\ call[a].t \in Nat /\ accepted[k] \in Nat
        BY <1>0, <3>1, <3>2, Zenon DEF Fresh, Timed, Calls
      <3> HIDE DEF k
      <3>4. clock <= accepted[k] + MaxDelay
        BY <1>0, <3>2, <3>3
      <3>5. CallBacked(call'[a], accepted)
        BY <3>1, <3>2, <3>4, Zenon DEF CallBacked
      <3> QED
        BY <1>1, <2>1, <3>5, Zenon
    <2>3. CASE call[a].result # "ok"
      <3>1. call'[a] = Idle
        BY <1>0, <1>11, <2>3, Zenon DEF Finish
      <3> QED
        BY <1>1, <1>2, <2>1, <3>1, Zenon
    <2> QED
      BY <2>2, <2>3, Zenon
  <1>12. ASSUME NEW a \in Attempts, Store(a) PROVE CacheInv'
    <2> DEFINE k == call[a].token
               kept == [j \in Tokens |-> IF cache[j] # None /\ clock >= cache[j]
                                         THEN None ELSE cache[j]]
               ttl == cacheLifetime(k, call[a].t)
               e == clock + ttl
    <2>1. /\ UNCHANGED <<clock, accepted>> /\ At(a, "store")
          /\ call' = [call EXCEPT ![a] = Idle]
          /\ cache' = IF ttl <= 0 THEN cache ELSE [kept EXCEPT ![k] = e]
      BY <1>12, Zenon DEF Store
    <2>2. k \in Tokens /\ call[a].t \in Nat /\ clock <= call[a].t + MaxDelay
          /\ accepted[k] # None /\ call[a].t <= accepted[k] + MaxDelay
      BY <1>0, <2>1, Zenon DEF Typed, Clocked, At, Calls, Fresh, Timed, CacheInv, CallBacked
    <2>3. call'[a] = Idle /\ \A c \in Attempts \ {a} : call'[c] = call[c]
      BY <1>0, <2>1, Zenon
    <2> HIDE DEF k
    <2>4. EntryBacked(e, k, accepted)
      <3>1. accepted[k] \in Nat /\ (Expiry[k] # None => Expiry[k] \in Nat)
        BY <1>0, <2>2, Zenon
      <3>2. ttl \in Int /\ ttl <= CacheTTL
            /\ (Expiry[k] # None => ttl <= Expiry[k] - call[a].t - Minute)
        BY <1>0, <2>2, <3>1 DEF cacheLifetime, Lesser
      <3>3. e <= accepted[k] + 2 * MaxDelay + CacheTTL
        BY <1>0, <2>2, <3>1, <3>2
      <3>4. Expiry[k] # None => e + Minute <= Expiry[k] + MaxDelay
        BY <1>0, <2>2, <3>1, <3>2
      <3> QED
        BY <2>2, <3>3, <3>4, Zenon DEF EntryBacked
    <2> HIDE DEF e
    <2>5. \A j \in Tokens : cache'[j] \in {None, cache[j]} \/ (j = k /\ cache'[j] = e)
      BY <1>0, <2>1, <2>2, Zenon
    <2> QED
      BY <1>2, <2>1, <2>3, <2>4, <2>5, Zenon DEF CacheInv
  <1> QED
    BY <1>3, <1>4, <1>5, <1>6, <1>7, <1>8, <1>9, <1>10, <1>11, <1>12, Zenon DEF Next

\* An identity answered from the cache (Authenticate) rests on a recent review
\* that accepted the token, and never outlives the token.
THEOREM HitsBacked == ASSUME Parameters PROVE Spec => []HitBacked
  <1> DEFINE Inv == PermitInv /\ Fresh /\ CacheInv
  <1>1. Init => Inv
    BY PermitInit DEF Init, Fresh, CacheInv, CallBacked, Idle, Timed
  <1>2. Inv /\ [Next]_vars => Inv'
    BY PermitStep, FreshStep, CacheStep, Zenon
  <1>3. Inv => HitBacked
    BY Zenon DEF CacheInv, CallBacked, HitBacked, At
  <1> HIDE DEF Inv
  <1> QED
    BY <1>1, <1>2, <1>3, PTL DEF Spec

=============================================================================
