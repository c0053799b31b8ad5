--------------------------- MODULE OrderBookProofs ---------------------------
(***************************************************************************)
(* The order book proved for every number of prices and orders and every   *)
(* quantity width: what the queue operators return, then that the book is  *)
(* never crossed and its cached best prices are exact, then that every     *)
(* level is in order of arrival, no order is lost or linked twice, and a   *)
(* restart changes no live order; last, that every call is one call of the *)
(* abstract book of BookSpec, with the same orders and the same events.    *)
(***************************************************************************)
EXTENDS OrderBookHistory, FiniteSetTheorems, WellFoundedInduction, TLAPS

-----------------------------------------------------------------------------
(***************************************************************************)
(* What the queue operators return, for every queue.  The recursive        *)
(* functions are handled by minimal counterexample: a set of naturals that *)
(* is not empty has a smallest member (NatMin).                            *)
(***************************************************************************)

(* Every non-empty set of naturals has a smallest element: the induction   *)
(* principle behind the list walks of the order book.                      *)
LEMMA NatMin ==
  ASSUME NEW T \in SUBSET Nat, T # {}
  PROVE  \E m \in T : \A n \in T : m <= n
<1>1. IsWellFoundedOn(OpToRel(<, Nat), Nat)
  BY NatLessThanWellFounded
<1>2. PICK m \in T : \A n \in T : ~(<<n, m>> \in OpToRel(<, Nat))
  BY <1>1, WFMin
<1>3. ASSUME NEW n \in T PROVE m <= n
  <2>1. ~(n < m)
    BY <1>2 DEF OpToRel
  <2> QED BY <2>1
<1> QED BY <1>3

(* Every non-empty bounded set of naturals has a largest element: what the *)
(* downward scan of BestBid finds.                                         *)
LEMMA NatMax ==
  ASSUME NEW b \in Nat, NEW T \in SUBSET (0 .. b), T # {}
  PROVE  \E m \in T : \A n \in T : n <= m
<1> DEFINE U == {b - n : n \in T}
<1>1. U \in SUBSET Nat /\ U # {}
  <2>1. \A n \in T : b - n \in Nat
    OBVIOUS
  <2>2. \E n \in T : b - n \in U
    OBVIOUS
  <2> QED BY <2>1, <2>2
<1>2. PICK u \in U : \A v \in U : u <= v
  <2> HIDE DEF U
  <2> QED BY <1>1, NatMin
<1>3. PICK m \in T : u = b - m
  OBVIOUS
<1>4. ASSUME NEW n \in T PROVE n <= m
  <2>1. b - n \in U
    OBVIOUS
  <2>2. u <= b - n
    BY <1>2, <2>1
  <2> QED BY <1>3, <2>2
<1> QED BY <1>4

(* A function on 0 .. N that starts at v0 and follows the step function st *)
(* exists: the list walks are well defined.                                *)
LEMMA WalkExists ==
  ASSUME NEW V, NEW v0 \in V, NEW N \in Nat, NEW st \in [1 .. N -> [V -> V]]
  PROVE  \E f \in [0 .. N -> V] :
           f[0] = v0 /\ \A n \in 1 .. N : f[n] = st[n][f[n-1]]
<1> DEFINE Ok(m) == \E f \in [0 .. m -> V] :
                      f[0] = v0 /\ \A n \in 1 .. m : f[n] = st[n][f[n-1]]
           T == {m \in 0 .. N : ~Ok(m)}
<1>1. SUFFICES ASSUME T # {} PROVE FALSE
  <2>1. N \in 0 .. N
    OBVIOUS
  <2> QED BY <2>1
<1>2. PICK m \in T : \A n \in T : m <= n
  <2>1. T \in SUBSET Nat
    OBVIOUS
  <2> HIDE DEF T
  <2> QED BY <1>1, <2>1, NatMin
<1>3. m # 0
  <2> DEFINE g == [n \in 0 .. 0 |-> v0]
  <2>1. g \in [0 .. 0 -> V] /\ g[0] = v0 /\ \A n \in 1 .. 0 : g[n] = st[n][g[n-1]]
    OBVIOUS
  <2>2. Ok(0)
    <3> HIDE DEF g
    <3> QED BY <2>1
  <2> QED BY <2>2
<1>4. m - 1 \in 0 .. N /\ m - 1 \notin T
  <2>1. m \in 0 .. N
    OBVIOUS
  <2>2. m - 1 \in 0 .. N /\ ~(m <= m - 1)
    BY <2>1, <1>3
  <2> HIDE DEF T
  <2> QED BY <2>2, <1>2
<1>5. PICK f \in [0 .. m - 1 -> V] :
           f[0] = v0 /\ \A n \in 1 .. m - 1 : f[n] = st[n][f[n-1]]
  BY <1>4
<1> DEFINE g == [n \in 0 .. m |-> IF n = m THEN st[m][f[m-1]] ELSE f[n]]
<1>6. m \in 1 .. N
  BY <1>3
<1>7. g \in [0 .. m -> V]
  <2>1. f[m-1] \in V
    BY <1>6
  <2>2. st[m][f[m-1]] \in V
    BY <1>6, <2>1
  <2> QED BY <2>2
<1>8. g[0] = v0
  BY <1>5, <1>6
<1>9. ASSUME NEW n \in 1 .. m PROVE g[n] = st[n][g[n-1]]
  <2>1. CASE n = m
    BY <2>1, <1>6
  <2>2. CASE n # m
    <3>1. n \in 1 .. m - 1 /\ n - 1 \in 0 .. m - 1
      BY <2>2
    <3>2. g[n] = f[n] /\ g[n-1] = f[n-1]
      BY <3>1, <1>6
    <3> QED BY <3>1, <3>2, <1>5
  <2> QED BY <2>1, <2>2
<1>10. Ok(m)
  <2> HIDE DEF g
  <2> QED BY <1>7, <1>8, <1>9
<1> QED BY <1>10

(* The same for a walk that starts at the number 0.                        *)
LEMMA ZeroWalkExists ==
  ASSUME NEW V, 0 \in V, NEW N \in Nat, NEW st \in [1 .. N -> [V -> V]]
  PROVE  \E f \in [0 .. N -> V] :
           f[0] = 0 /\ \A n \in 1 .. N : f[n] = st[n][f[n-1]]
BY WalkExists

(* Linking an id at the tail of a list adds that id and nothing else.      *)
LEMMA MembersAppend ==
  ASSUME NEW S, NEW q \in Seq(S), NEW x \in S
  PROVE  Members(Append(q, x)) = Members(q) \cup {x}
<1>1. Append(q, x)[Len(q) + 1] = x /\ Len(q) + 1 \in DOMAIN Append(q, x)
  OBVIOUS
<1>2. \A k \in DOMAIN q : Append(q, x)[k] = q[k] /\ k \in DOMAIN Append(q, x)
  OBVIOUS
<1>3. \A k \in DOMAIN Append(q, x) : k \in DOMAIN q \/ k = Len(q) + 1
  OBVIOUS
<1> QED BY <1>1, <1>2, <1>3 DEF Members

(* Unlinking the head of a list takes the head away and nothing else.      *)
LEMMA MembersTail ==
  ASSUME NEW S, NEW q \in Seq(S), q # <<>>
  PROVE  /\ Tail(q) \in Seq(S)
         /\ Members(q) = {Head(q)} \cup Members(Tail(q))
<1>1. /\ Tail(q) \in Seq(S) /\ Len(Tail(q)) = Len(q) - 1
      /\ \A j \in 1 .. Len(Tail(q)) : Tail(q)[j] = q[j + 1]
      /\ Head(q) = q[1] /\ 1 \in 1 .. Len(q)
  OBVIOUS
<1>2. ASSUME NEW x \in Members(q), x # Head(q) PROVE x \in Members(Tail(q))
  <2>1. PICK i \in 1 .. Len(q) : x = q[i]
    BY DEF Members
  <2>2. i - 1 \in 1 .. Len(Tail(q)) /\ (i - 1) + 1 = i
    BY <1>1, <1>2, <2>1
  <2>3. Tail(q)[i - 1] = x
    BY <1>1, <2>1, <2>2
  <2> DEFINE t == Tail(q)
  <2>4. t \in Seq(S) /\ i - 1 \in 1 .. Len(t) /\ t[i - 1] = x
    BY <1>1, <2>2, <2>3
  <2> HIDE DEF t
  <2>5. x \in Members(t)
    BY <2>4 DEF Members
  <2> QED BY <2>5 DEF t
<1>3. ASSUME NEW x \in Members(Tail(q)) PROVE x \in Members(q)
  <2>1. PICK j \in 1 .. Len(Tail(q)) : x = Tail(q)[j]
    BY <1>1 DEF Members
  <2>2. j + 1 \in 1 .. Len(q) /\ x = q[j + 1]
    BY <1>1, <2>1
  <2> QED BY <2>2 DEF Members
<1>4. Head(q) \in Members(q)
  BY <1>1 DEF Members
<1>5. Members(q) = {Head(q)} \cup Members(Tail(q))
  BY <1>2, <1>3, <1>4, Zenon
<1> QED BY <1>1, <1>5

(* The list without its dead prefix (skipInactive): still a queue of the   *)
(* same ids, empty exactly when nothing in it is live, and otherwise       *)
(* headed by a live id.                                                    *)
LEMMA DropUntilProps ==
  ASSUME NEW S, NEW q \in Seq(S), NEW A
  PROVE  /\ DropUntil(q, A) \in Seq(S)
         /\ Members(DropUntil(q, A)) \subseteq Members(q)
         /\ DropUntil(q, A) = <<>> <=> Members(q) \cap A = {}
         /\ DropUntil(q, A) # <<>> => Head(DropUntil(q, A)) \in A
         /\ Members(q) \cap A \subseteq Members(DropUntil(q, A))
<1>1. CASE Live(q, A) = {}
  <2>1. Members(q) \cap A = {}
    BY <1>1 DEF Live, Members
  <2>2. DropUntil(q, A) = <<>>
    BY <1>1 DEF DropUntil
  <2> QED BY <2>1, <2>2 DEF Members
<1>2. CASE Live(q, A) # {}
  <2> DEFINE i == CHOOSE i \in Live(q, A) : \A j \in Live(q, A) : i <= j
  <2>1. Live(q, A) \in SUBSET Nat
    BY DEF Live
  <2>2. \E k \in Live(q, A) : \A j \in Live(q, A) : k <= j
    BY <1>2, <2>1, NatMin
  <2>3. i \in Live(q, A) /\ \A j \in Live(q, A) : i <= j
    BY <2>2
  <2> HIDE DEF i
  <2>4. i \in 1 .. Len(q) /\ q[i] \in A
    BY <2>3 DEF Live
  <2> DEFINE d == SubSeq(q, i, Len(q))
  <2>5. DropUntil(q, A) = d
    BY <1>2 DEF DropUntil, i
  <2>6. d \in Seq(S) /\ Len(d) = Len(q) - i + 1 /\ \A j \in 1 .. Len(d) : d[j] = q[i + j - 1]
    BY <2>4
  <2> HIDE DEF d
  <2>7. d # <<>> /\ Head(d) = q[i]
    BY <2>4, <2>6
  <2>8. Members(d) \subseteq Members(q)
    <3> SUFFICES ASSUME NEW j \in 1 .. Len(d) PROVE d[j] \in Members(q)
      BY <2>6 DEF Members
    <3>1. d[j] = q[i + j - 1] /\ i + j - 1 \in 1 .. Len(q)
      BY <2>4, <2>6
    <3> QED BY <3>1 DEF Members
  <2>9. ASSUME NEW x \in Members(q) \cap A PROVE x \in Members(d)
    <3>1. PICK j \in 1 .. Len(q) : q[j] = x
      BY DEF Members
    <3>2. i <= j
      BY <3>1, <2>3 DEF Live
    <3>3. j - i + 1 \in 1 .. Len(d) /\ i + (j - i + 1) - 1 = j
      BY <3>2, <2>4, <2>6
    <3>4. d[j - i + 1] = q[i + (j - i + 1) - 1]
      BY <3>3, <2>6
    <3>5. d[j - i + 1] = x
      BY <3>1, <3>3, <3>4
    <3> QED BY <3>3, <3>5, <2>6 DEF Members
  <2>10. Members(q) \cap A # {}
    BY <2>4 DEF Members
  <2> QED BY <2>4, <2>5, <2>6, <2>7, <2>8, <2>9, <2>10
<1> QED BY <1>1, <1>2

(* The walk over a level that keeps its live ids (what Snapshot does): it   *)
(* starts empty and takes one list node at a time.                          *)
LEMMA KeepOnlyWalk ==
  ASSUME NEW S, NEW q \in Seq(S), NEW A
  PROVE  \E kept : /\ KeepOnly(q, A) = kept[Len(q)]
                   /\ kept[0] = <<>>
                   /\ \A n \in 1 .. Len(q) :
                        kept[n] = IF q[n] \in A THEN Append(kept[n-1], q[n]) ELSE kept[n-1]
<1> DEFINE N == Len(q)
           body(f) == [n \in 0 .. N |->
                         IF n = 0 THEN <<>>
                         ELSE IF q[n] \in A THEN Append(f[n-1], q[n]) ELSE f[n-1]]
           st == [n \in 1 .. N |-> [v \in Seq(S) |->
                         IF q[n] \in A THEN Append(v, q[n]) ELSE v]]
           kept == CHOOSE f : f = body(f)
<1>0. N \in Nat /\ <<>> \in Seq(S) /\ \A n \in 1 .. N : q[n] \in S
  OBVIOUS
<1>1. st \in [1 .. N -> [Seq(S) -> Seq(S)]]
  BY <1>0
<1>2. PICK f \in [0 .. N -> Seq(S)] :
           f[0] = <<>> /\ \A n \in 1 .. N : f[n] = st[n][f[n-1]]
  <2> DEFINE V == Seq(S)
             v0 == <<>>
  <2>1. N \in Nat
    BY <1>0
  <2>2. v0 \in V
    BY <1>0
  <2>3. st \in [1 .. N -> [V -> V]]
    BY <1>1
  <2>4. \E f \in [0 .. N -> V] : f[0] = v0 /\ \A n \in 1 .. N : f[n] = st[n][f[n-1]]
    <3> HIDE DEF st, N, V, v0
    <3> QED BY <2>1, <2>2, <2>3, WalkExists, SMTT(60)
  <2> QED BY <2>4
<1>3. \A n \in 1 .. N : f[n] = IF q[n] \in A THEN Append(f[n-1], q[n]) ELSE f[n-1]
  <2> TAKE n \in 1 .. N
  <2>1. n - 1 \in 0 .. N
    BY <1>0
  <2>2. f[n-1] \in Seq(S)
    BY <2>1
  <2> QED BY <1>2, <2>2
<1>4. f = body(f)
  <2>1. DOMAIN f = 0 .. N
    OBVIOUS
  <2>2. ASSUME NEW n \in 0 .. N PROVE f[n] = body(f)[n]
    <3>1. CASE n = 0
      BY <3>1, <1>2
    <3>2. CASE n # 0
      <4>1. n \in 1 .. N
        BY <3>2, <1>0
      <4>2. f[n] = IF q[n] \in A THEN Append(f[n-1], q[n]) ELSE f[n-1]
        BY <4>1, <1>3
      <4> QED BY <3>2, <4>2
    <3> QED BY <3>1, <3>2
  <2> QED BY <2>1, <2>2
<1>5. kept = body(kept)
  <2> HIDE DEF body
  <2> QED BY <1>4
<1> HIDE DEF kept
<1>6. kept[0] = <<>>
      /\ \A n \in 1 .. N : kept[n] = IF q[n] \in A THEN Append(kept[n-1], q[n]) ELSE kept[n-1]
  <2>1. \A n \in 0 .. N : kept[n] = body(kept)[n]
    BY <1>5
  <2>2. kept[0] = <<>>
    BY <2>1, <1>0
  <2>3. ASSUME NEW n \in 1 .. N
        PROVE  kept[n] = IF q[n] \in A THEN Append(kept[n-1], q[n]) ELSE kept[n-1]
    <3>1. n \in 0 .. N /\ n # 0
      BY <1>0
    <3>2. kept[n] = body(kept)[n]
      BY <2>1, <3>1
    <3> QED BY <3>1, <3>2
  <2> QED BY <2>2, <2>3
<1>7. KeepOnly(q, A) = kept[N]
  BY DEF KeepOnly, kept
<1> QED BY <1>6, <1>7

(* A list whose ids grow from head to tail: they are handed out in order of *)
(* arrival, so this is time priority.                                       *)
Rising(q) == \A i, j \in 1 .. Len(q) : i < j => q[i] < q[j]

(* The list of the live ids: it holds the ids of the list that are live.    *)
LEMMA KeepOnlyProps ==
  ASSUME NEW S, NEW q \in Seq(S), NEW A
  PROVE  /\ KeepOnly(q, A) \in Seq(S)
         /\ Members(KeepOnly(q, A)) = Members(q) \cap A
<1> DEFINE N == Len(q)
<1>0. N \in Nat /\ <<>> \in Seq(S) /\ \A n \in 1 .. N : q[n] \in S
  OBVIOUS
<1>6. PICK kept : /\ KeepOnly(q, A) = kept[N]
                  /\ kept[0] = <<>>
                  /\ \A n \in 1 .. N :
                       kept[n] = IF q[n] \in A THEN Append(kept[n-1], q[n]) ELSE kept[n-1]
  BY KeepOnlyWalk
<1> DEFINE P(n) == kept[n] \in Seq(S) /\ Members(kept[n]) = {q[i] : i \in 1 .. n} \cap A
           T == {n \in 0 .. N : ~P(n)}
<1>7. T = {}
  <2> SUFFICES ASSUME T # {} PROVE FALSE
    OBVIOUS
  <2>1. PICK m \in T : \A n \in T : m <= n
    <3>1. T \in SUBSET Nat
      OBVIOUS
    <3> HIDE DEF T
    <3> QED BY <3>1, NatMin
  <2>2. m # 0
    <3>1. Members(<<>>) = {} /\ {q[i] : i \in 1 .. 0} = {}
      BY DEF Members
    <3>2. P(0)
      BY <1>0, <1>6, <3>1
    <3> QED BY <3>2
  <2>3. m \in 1 .. N /\ m - 1 \in 0 .. N /\ m - 1 \notin T
    <3>1. m \in 0 .. N
      OBVIOUS
    <3>2. m \in 1 .. N /\ m - 1 \in 0 .. N /\ ~(m <= m - 1)
      BY <3>1, <2>2, <1>0
    <3> HIDE DEF T
    <3> QED BY <3>2, <2>1
  <2> DEFINE k == kept[m-1]
  <2>4. k \in Seq(S) /\ Members(k) = {q[i] : i \in 1 .. m - 1} \cap A
    BY <2>3
  <2>5. kept[m] = IF q[m] \in A THEN Append(k, q[m]) ELSE k
    BY <1>6, <2>3
  <2> HIDE DEF k
  <2>6. {q[i] : i \in 1 .. m} = {q[i] : i \in 1 .. m - 1} \cup {q[m]}
    <3>1. 1 .. m = (1 .. m - 1) \cup {m}
      BY <2>3
    <3> QED BY <3>1
  <2>7. CASE q[m] \in A
    <3>1. q[m] \in S
      BY <1>0, <2>3
    <3>2. Append(k, q[m]) \in Seq(S)
      BY <2>4, <3>1
    <3>3. Members(Append(k, q[m])) = Members(k) \cup {q[m]}
      BY <2>4, <3>1, MembersAppend
    <3>4. P(m)
      BY <2>4, <2>5, <2>6, <2>7, <3>2, <3>3
    <3> QED BY <3>4
  <2>8. CASE q[m] \notin A
    <3>1. kept[m] = k
      BY <2>5, <2>8
    <3>2. P(m)
      BY <2>4, <2>6, <2>8, <3>1
    <3> QED BY <3>2
  <2> QED BY <2>7, <2>8
<1>8. kept[N] \in Seq(S) /\ Members(kept[N]) = {q[i] : i \in 1 .. N} \cap A
  BY <1>7, <1>0
<1>9. Members(q) = {q[i] : i \in 1 .. N}
  BY DEF Members
<1> HIDE DEF N
<1> QED BY <1>6, <1>8, <1>9

(* Linking at the tail an id larger than every linked one keeps the order.  *)
LEMMA AppendRising ==
  ASSUME NEW q \in Seq(Nat), Rising(q), NEW x \in Nat, \A y \in Members(q) : y < x
  PROVE  Rising(Append(q, x))
<1> DEFINE r == Append(q, x)
<1>1. Len(r) = Len(q) + 1 /\ r[Len(q) + 1] = x /\ \A k \in 1 .. Len(q) : r[k] = q[k]
  OBVIOUS
<1>2. Len(q) \in Nat /\ \A k \in 1 .. Len(q) : q[k] < x
  BY DEF Members
<1> HIDE DEF r
<1>3. ASSUME NEW i \in 1 .. Len(r), NEW j \in 1 .. Len(r), i < j PROVE r[i] < r[j]
  <2>1. i \in 1 .. Len(q)
    BY <1>1, <1>2, <1>3
  <2>2. CASE j = Len(q) + 1
    BY <2>1, <2>2, <1>1, <1>2
  <2>3. CASE j # Len(q) + 1
    <3>1. j \in 1 .. Len(q)
      BY <2>3, <1>1, <1>2
    <3> QED BY <2>1, <3>1, <1>1, <1>3 DEF Rising
  <2> QED BY <2>2, <2>3
<1>4. Rising(r)
  BY <1>3 DEF Rising
<1> QED BY <1>4 DEF r

(* So does unlinking the dead prefix of a list.                             *)
LEMMA DropUntilRising ==
  ASSUME NEW q \in Seq(Nat), NEW A, Rising(q)
  PROVE  Rising(DropUntil(q, A))
<1>1. CASE Live(q, A) = {}
  BY <1>1 DEF DropUntil, Rising
<1>2. CASE Live(q, A) # {}
  <2> DEFINE i == CHOOSE i \in Live(q, A) : \A j \in Live(q, A) : i <= j
  <2>1. Live(q, A) \in SUBSET Nat
    BY DEF Live
  <2>2. \E k \in Live(q, A) : \A j \in Live(q, A) : k <= j
    BY <1>2, <2>1, NatMin
  <2>3. i \in 1 .. Len(q)
    BY <2>2 DEF Live
  <2> HIDE DEF i
  <2> DEFINE d == SubSeq(q, i, Len(q))
  <2>4. Len(d) = Len(q) - i + 1 /\ \A j \in 1 .. Len(d) : d[j] = q[i + j - 1]
    BY <2>3
  <2> HIDE DEF d
  <2>5. ASSUME NEW j \in 1 .. Len(d), NEW k \in 1 .. Len(d), j < k PROVE d[j] < d[k]
    <3>1. i + j - 1 \in 1 .. Len(q) /\ i + k - 1 \in 1 .. Len(q) /\ i + j - 1 < i + k - 1
      BY <2>3, <2>4, <2>5
    <3>2. q[i + j - 1] < q[i + k - 1]
      BY <3>1 DEF Rising
    <3> QED BY <2>4, <3>2
  <2>6. DropUntil(q, A) = d
    BY <1>2 DEF DropUntil, d, i
  <2> QED BY <2>5, <2>6 DEF Rising
<1> QED BY <1>1, <1>2

(* So does unlinking the head.                                              *)
LEMMA TailRising ==
  ASSUME NEW q \in Seq(Nat), q # <<>>, Rising(q)
  PROVE  Rising(Tail(q))
<1>1. Len(Tail(q)) = Len(q) - 1 /\ \A j \in 1 .. Len(Tail(q)) : Tail(q)[j] = q[j + 1]
  OBVIOUS
<1>2. ASSUME NEW j \in 1 .. Len(Tail(q)), NEW k \in 1 .. Len(Tail(q)), j < k
      PROVE  Tail(q)[j] < Tail(q)[k]
  <2>1. j + 1 \in 1 .. Len(q) /\ k + 1 \in 1 .. Len(q) /\ j + 1 < k + 1
    BY <1>1, <1>2
  <2>2. q[j + 1] < q[k + 1]
    BY <2>1 DEF Rising
  <2> QED BY <1>1, <2>2
<1> QED BY <1>2 DEF Rising

(* In such a list an id is at one position only, and no later than the id   *)
(* itself says: a list of ids below n has less than n positions.            *)
LEMMA RisingPositions ==
  ASSUME NEW q \in Seq(Nat \ {0}), Rising(q)
  PROVE  /\ \A i, j \in 1 .. Len(q) : q[i] = q[j] => i = j
         /\ \A i \in 1 .. Len(q) : i <= q[i]
<1>1. \A i \in 1 .. Len(q) : q[i] \in Nat /\ q[i] >= 1
  OBVIOUS
<1>2. ASSUME NEW i \in 1 .. Len(q), NEW j \in 1 .. Len(q), q[i] = q[j] PROVE i = j
  <2>1. ~(i < j) /\ ~(j < i)
    BY <1>1, <1>2 DEF Rising
  <2> QED BY <2>1
<1> DEFINE T == {i \in 1 .. Len(q) : ~(i <= q[i])}
<1>3. T = {}
  <2> SUFFICES ASSUME T # {} PROVE FALSE
    OBVIOUS
  <2>1. PICK m \in T : \A n \in T : m <= n
    <3>1. T \in SUBSET Nat
      OBVIOUS
    <3> HIDE DEF T
    <3> QED BY <3>1, NatMin
  <2>2. m \in 1 .. Len(q) /\ ~(m <= q[m])
    OBVIOUS
  <2>3. m # 1 /\ m - 1 \in 1 .. Len(q) /\ ~(m <= m - 1) /\ m - 1 < m
    BY <1>1, <2>2
  <2>4. m - 1 \notin T
    <3> HIDE DEF T
    <3> QED BY <2>1, <2>3
  <2>5. m - 1 <= q[m - 1]
    BY <2>3, <2>4
  <2>6. q[m - 1] < q[m]
    BY <2>2, <2>3 DEF Rising
  <2> HIDE DEF T
  <2> QED BY <1>1, <2>2, <2>3, <2>5, <2>6
<1> QED BY <1>2, <1>3

(* And so does writing out the live ids of a list.                          *)
LEMMA KeepOnlyRising ==
  ASSUME NEW q \in Seq(Nat), NEW A, Rising(q)
  PROVE  Rising(KeepOnly(q, A))
<1> DEFINE N == Len(q)
<1>1. N \in Nat /\ \A n \in 1 .. N : q[n] \in Nat
  OBVIOUS
<1>2. PICK kept : /\ KeepOnly(q, A) = kept[N]
                  /\ kept[0] = <<>>
                  /\ \A n \in 1 .. N :
                       kept[n] = IF q[n] \in A THEN Append(kept[n-1], q[n]) ELSE kept[n-1]
  BY KeepOnlyWalk
<1> DEFINE P(n) == /\ kept[n] \in Seq(Nat)
                   /\ Rising(kept[n])
                   /\ \A y \in Members(kept[n]) : \E i \in 1 .. n : y = q[i]
           T == {n \in 0 .. N : ~P(n)}
<1>3. T = {}
  <2> SUFFICES ASSUME T # {} PROVE FALSE
    OBVIOUS
  <2>1. PICK m \in T : \A n \in T : m <= n
    <3>1. T \in SUBSET Nat
      OBVIOUS
    <3> HIDE DEF T
    <3> QED BY <3>1, NatMin
  <2>2. m # 0
    <3>1. <<>> \in Seq(Nat) /\ Rising(<<>>) /\ Members(<<>>) = {}
      BY DEF Members, Rising
    <3>2. P(0)
      BY <1>2, <3>1
    <3> QED BY <3>2
  <2>3. m \in 1 .. N /\ m - 1 \in 0 .. N /\ m - 1 \notin T
    <3>1. m \in 0 .. N
      OBVIOUS
    <3>2. m \in 1 .. N /\ m - 1 \in 0 .. N /\ ~(m <= m - 1)
      BY <3>1, <2>2, <1>1
    <3> HIDE DEF T
    <3> QED BY <3>2, <2>1
  <2> DEFINE k == kept[m-1]
  <2>4. /\ k \in Seq(Nat)
        /\ Rising(k)
        /\ \A y \in Members(k) : \E i \in 1 .. m - 1 : y = q[i]
    BY <2>3
  <2>5. kept[m] = IF q[m] \in A THEN Append(k, q[m]) ELSE k
    BY <1>2, <2>3
  <2> HIDE DEF k
  <2>6. ASSUME NEW y \in Members(k) PROVE y < q[m] /\ \E i \in 1 .. m : y = q[i]
    <3>1. PICK i \in 1 .. m - 1 : y = q[i]
      BY <2>4
    <3>2. i \in 1 .. N /\ m \in 1 .. N /\ i < m /\ i \in 1 .. m
      BY <2>3, <1>1
    <3> QED BY <3>1, <3>2 DEF Rising
  <2>7. CASE q[m] \in A
    <3>1. q[m] \in Nat
      BY <1>1, <2>3
    <3>2. Append(k, q[m]) \in Seq(Nat)
      BY <2>4, <3>1
    <3>3. Rising(Append(k, q[m]))
      BY <2>4, <2>6, <3>1, AppendRising
    <3>4. Members(Append(k, q[m])) = Members(k) \cup {q[m]}
      BY <2>4, <3>1, MembersAppend
    <3>5. m \in 1 .. m
      BY <2>3
    <3>6. \A y \in Members(Append(k, q[m])) : \E i \in 1 .. m : y = q[i]
      BY <2>6, <3>4, <3>5
    <3>7. P(m)
      BY <2>5, <2>7, <3>2, <3>3, <3>6
    <3> QED BY <3>7
  <2>8. CASE q[m] \notin A
    <3>1. kept[m] = k
      BY <2>5, <2>8
    <3>2. P(m)
      BY <2>4, <2>6, <3>1
    <3> QED BY <3>2
  <2> QED BY <2>7, <2>8
<1>4. Rising(kept[N])
  BY <1>3, <1>1
<1> HIDE DEF N
<1> QED BY <1>2, <1>4

(* The quantity of a level is what its list walk accumulates. *)
Accumulates(sum, q, A, w, m) ==
  /\ sum[0] = 0
  /\ \A n \in 1 .. Len(q) :
       sum[n] = IF q[n] \in A THEN (sum[n-1] + w[q[n]]) % m ELSE sum[n-1]
  /\ SumModulo(q, A, w, m) = sum[Len(q)]

(* The recursive function of SumModulo has the values it says. *)
LEMMA SumModuloWalk ==
  ASSUME NEW S, NEW q \in Seq(S), NEW A, NEW w, \A x \in S : w[x] \in Nat,
         NEW m \in Nat, m >= 1
  PROVE  \E sum : Accumulates(sum, q, A, w, m)
<1> DEFINE N == Len(q)
           V == 0 .. m - 1
           body(f) == [n \in 0 .. N |->
                         IF n = 0 THEN 0
                         ELSE IF q[n] \in A THEN (f[n-1] + w[q[n]]) % m ELSE f[n-1]]
           st == [n \in 1 .. N |-> [v \in V |->
                         IF q[n] \in A THEN (v + w[q[n]]) % m ELSE v]]
           sum == CHOOSE f : f = body(f)
<1>0. N \in Nat /\ 0 \in V /\ \A n \in 1 .. N : w[q[n]] \in Nat
  OBVIOUS
<1>1. \A v \in V, x \in Nat : (v + x) % m \in V
  OBVIOUS
<1>2. st \in [1 .. N -> [V -> V]]
  BY <1>0, <1>1
<1>3. PICK f \in [0 .. N -> V] :
           f[0] = 0 /\ \A n \in 1 .. N : f[n] = st[n][f[n-1]]
  <2>1. N \in Nat
    BY <1>0
  <2>2. 0 \in V
    BY <1>0
  <2> HIDE DEF st, N, V
  <2> QED BY <2>1, <2>2, <1>2, ZeroWalkExists
<1>4. \A n \in 1 .. N : f[n] = IF q[n] \in A THEN (f[n-1] + w[q[n]]) % m ELSE f[n-1]
  <2> TAKE n \in 1 .. N
  <2>0. n - 1 \in 0 .. N
    BY <1>0
  <2>1. f[n-1] \in V
    <3> HIDE DEF N, V
    <3> QED BY <2>0
  <2> QED BY <1>3, <2>1
<1>5. f = body(f)
  <2>1. \A n \in 0 .. N : f[n] = body(f)[n]
    BY <1>3, <1>4
  <2> QED BY <2>1
<1>6. sum = body(sum)
  <2> HIDE DEF body
  <2> QED BY <1>5
<1> HIDE DEF sum
<1>7. sum[0] = 0
      /\ \A n \in 1 .. N : sum[n] = IF q[n] \in A THEN (sum[n-1] + w[q[n]]) % m ELSE sum[n-1]
  <2>1. \A n \in 0 .. N : sum[n] = body(sum)[n]
    BY <1>6
  <2>2. sum[0] = 0
    BY <2>1, <1>0
  <2>3. ASSUME NEW n \in 1 .. N
        PROVE  sum[n] = IF q[n] \in A THEN (sum[n-1] + w[q[n]]) % m ELSE sum[n-1]
    <3>1. n \in 0 .. N /\ n # 0
      BY <1>0
    <3>2. sum[n] = body(sum)[n]
      BY <2>1, <3>1
    <3> QED BY <3>1, <3>2
  <2> QED BY <2>2, <2>3
<1>8. SumModulo(q, A, w, m) = sum[N]
  BY DEF SumModulo, sum
<1>9. Accumulates(sum, q, A, w, m)
  BY <1>7, <1>8 DEF Accumulates
<1> QED BY <1>9

(* The quantity of a level, accumulated modulo m, is below m whatever the  *)
(* sizes add up to.                                                        *)
LEMMA SumModuloType ==
  ASSUME NEW S, NEW q \in Seq(S), NEW A, NEW w, \A x \in S : w[x] \in Nat,
         NEW m \in Nat, m >= 1
  PROVE  SumModulo(q, A, w, m) \in 0 .. m - 1
<1> DEFINE N == Len(q)
           V == 0 .. m - 1
<1>0. N \in Nat /\ 0 \in V /\ \A n \in 1 .. N : w[q[n]] \in Nat
  OBVIOUS
<1>1. \A v \in V, x \in Nat : (v + x) % m \in V
  OBVIOUS
<1>2. PICK sum : Accumulates(sum, q, A, w, m)
  BY SumModuloWalk
<1>3. /\ sum[0] = 0
      /\ \A n \in 1 .. N : sum[n] = IF q[n] \in A THEN (sum[n-1] + w[q[n]]) % m ELSE sum[n-1]
      /\ SumModulo(q, A, w, m) = sum[N]
  BY <1>2 DEF Accumulates
<1> DEFINE T == {n \in 0 .. N : sum[n] \notin V}
<1>4. T = {}
  <2> SUFFICES ASSUME T # {} PROVE FALSE
    OBVIOUS
  <2>1. PICK k \in T : \A n \in T : k <= n
    <3>1. T \in SUBSET Nat
      OBVIOUS
    <3> HIDE DEF T
    <3> QED BY <3>1, NatMin
  <2>2. k # 0
    BY <1>3, <1>0
  <2>3. k \in 1 .. N /\ k - 1 \in 0 .. N /\ k - 1 \notin T
    BY <2>1, <2>2, <1>0
  <2>4. sum[k-1] \in V
    BY <2>3
  <2>5. sum[k] \in V
    <3> HIDE DEF V
    <3> QED BY <2>3, <2>4, <1>3, <1>0, <1>1
  <2> QED BY <2>5
<1>5. sum[N] \in V
  BY <1>4, <1>0
<1> QED BY <1>3, <1>5

-----------------------------------------------------------------------------
(***************************************************************************)
(* The order book is never crossed and its cached best prices are exact,   *)
(* for every number of prices and orders and every quantity width.         *)
(*                                                                         *)
(* The argument.  The two cached prices always satisfy bidMax < askMin,    *)
(* and no live order lies beyond them (CacheOK).  Matching only empties    *)
(* levels and moves a cached price over a level it found dead; an order    *)
(* comes to rest only after the loop has moved the opposite cached price   *)
(* past its own price.  That the new id of an order is in no list, that a  *)
(* listed order is in the list of its own price, and that the two          *)
(* quantities of a slot add up to less than SizeMod (QueueOK, SizeOK,      *)
(* CallOK) is what keeps the types.                                        *)
(***************************************************************************)

QueueOK ==
  \A p \in Price :
    /\ \A id \in Members(buys[p]) :
         id < poolTop /\ (call # Idle => id # call.id) /\ (pool[id].active => pool[id].price = p)
    /\ \A id \in Members(sells[p]) :
         id < poolTop /\ (call # Idle => id # call.id) /\ (pool[id].active => pool[id].price = p)

SizeOK == \A id \in OrderID : pool[id].size + pool[id].qtyFilled < SizeMod

CallOK == call # Idle => call.id < poolTop /\ pool[call.id].price \in Price

CacheOK ==
  /\ bidMax < askMin
  /\ \A p \in Price : LiveBid(p) => p <= bidMax
  /\ \A p \in Price : LiveAsk(p) => p >= askMin

IInv == TypeOK /\ QueueOK /\ SizeOK /\ CallOK /\ CacheOK

USE MaxPriceAssumption, MaxOrdersAssumption, SizeModAssumption, SizesAssumption

-----------------------------------------------------------------------------
(* What the scans return *)

(* BestBid returns a price no live bid up to top is above, or 0. *)
LEMMA BestBidProps ==
  ASSUME NEW s, NEW top \in Nat
  PROVE  /\ BestBid(s, top) \in 0 .. MaxPrice - 1
         /\ BestBid(s, top) <= top
         /\ \A p \in Price : p <= top /\ Members(buys[p]) \cap Active(s) # {}
                             => p <= BestBid(s, top)
<1> DEFINE P == BidPrices(s, top)
<1>1. P \subseteq Price /\ \A p \in P : p <= top
  BY DEF BidPrices
<1>2. CASE P = {}
  <2>1. BestBid(s, top) = 0
    BY <1>2 DEF BestBid
  <2>2. \A p \in Price : ~(p <= top /\ Members(buys[p]) \cap Active(s) # {})
    BY <1>2 DEF BidPrices
  <2> QED BY <2>1, <2>2
<1>3. CASE P # {}
  <2>1. P \in SUBSET (0 .. MaxPrice - 1) /\ MaxPrice - 1 \in Nat
    BY <1>1 DEF Price
  <2>2. \E p \in P : \A q \in P : q <= p
    <3> HIDE DEF P
    <3> QED BY <1>3, <2>1, NatMax
  <2>3. BestBid(s, top) \in P /\ \A q \in P : q <= BestBid(s, top)
    BY <1>3, <2>2 DEF BestBid
  <2>4. \A p \in Price : p <= top /\ Members(buys[p]) \cap Active(s) # {} => p \in P
    BY DEF BidPrices
  <2> HIDE DEF P
  <2> QED BY <1>1, <2>1, <2>3, <2>4
<1> QED BY <1>2, <1>3

(* BestAsk returns 0 when there is no live ask from bottom on, and         *)
(* otherwise a price that no live ask from bottom on is below.             *)
LEMMA BestAskProps ==
  ASSUME NEW s, NEW bottom \in Nat
  PROVE  /\ BestAsk(s, bottom) \in 0 .. MaxPrice - 1
         /\ BestAsk(s, bottom) # 0 => BestAsk(s, bottom) >= bottom
         /\ \A p \in Price : p >= bottom /\ Members(sells[p]) \cap Active(s) # {}
                             => BestAsk(s, bottom) # 0 /\ p >= BestAsk(s, bottom)
<1> DEFINE P == AskPrices(s, bottom)
<1>1. P \subseteq Price /\ \A p \in P : p >= bottom
  BY DEF AskPrices
<1>2. CASE P = {}
  <2>1. BestAsk(s, bottom) = 0
    BY <1>2 DEF BestAsk
  <2>2. \A p \in Price : ~(p >= bottom /\ Members(sells[p]) \cap Active(s) # {})
    BY <1>2 DEF AskPrices
  <2> QED BY <2>1, <2>2
<1>3. CASE P # {}
  <2>1. P \in SUBSET Nat
    BY <1>1 DEF Price
  <2>2. \E p \in P : \A q \in P : p <= q
    <3> HIDE DEF P
    <3> QED BY <1>3, <2>1, NatMin
  <2>3. BestAsk(s, bottom) \in P /\ \A q \in P : BestAsk(s, bottom) <= q
    BY <1>3, <2>2 DEF BestAsk
  <2>4. \A p \in Price : p >= bottom /\ Members(sells[p]) \cap Active(s) # {} => p \in P
    BY DEF AskPrices
  <2> HIDE DEF P
  <2>5. BestAsk(s, bottom) \in Price /\ BestAsk(s, bottom) >= bottom
    BY <1>1, <2>3
  <2> QED BY <2>3, <2>4, <2>5, <2>1 DEF Price
<1> QED BY <1>2, <1>3

(* The best bid and offer the code computes fits its fields, although the  *)
(* quantity of a level is a fixed-width sum.                               *)
LEMMA BBOInType == TypeOK => BBO \in BBOType
<1> SUFFICES ASSUME TypeOK PROVE BBO \in BBOType
  OBVIOUS
<1>1. bidMax \in Nat /\ askMin \in Nat
  BY DEF TypeOK
<1>2. BestBid(pool, bidMax) \in 0 .. MaxPrice - 1
  BY <1>1, BestBidProps
<1>3. BestAsk(pool, askMin) \in 0 .. MaxPrice - 1
  BY <1>1, BestAskProps
<1>4. \A id \in OrderID : SizeOf(pool)[id] \in Nat
  BY DEF TypeOK, SizeOf, Slot, Size
<1>5. \A q \in Seq(OrderID) : SumModulo(q, Active(pool), SizeOf(pool), SizeMod) \in Size
  <2> TAKE q \in Seq(OrderID)
  <2> DEFINE w == SizeOf(pool)
  <2>1. \A id \in OrderID : w[id] \in Nat
    BY <1>4
  <2> HIDE DEF w
  <2>2. SumModulo(q, Active(pool), w, SizeMod) \in 0 .. SizeMod - 1
    BY <2>1, SumModuloType
  <2> QED BY <2>2 DEF Size, w
<1>6. BestBidQty(pool, bidMax) \in Size
  <2>1. CASE BestBid(pool, bidMax) = 0
    BY <2>1 DEF BestBidQty, Size
  <2>2. CASE BestBid(pool, bidMax) # 0
    <3>1. BestBid(pool, bidMax) \in Price
      BY <2>2, <1>2 DEF Price
    <3>2. buys[BestBid(pool, bidMax)] \in Seq(OrderID)
      BY <3>1 DEF TypeOK
    <3> QED BY <2>2, <3>2, <1>5 DEF BestBidQty
  <2> QED BY <2>1, <2>2
<1>7. BestAskQty(pool, askMin) \in Size
  <2>1. CASE BestAsk(pool, askMin) = 0
    BY <2>1 DEF BestAskQty, Size
  <2>2. CASE BestAsk(pool, askMin) # 0
    <3>1. BestAsk(pool, askMin) \in Price
      BY <2>2, <1>3 DEF Price
    <3>2. sells[BestAsk(pool, askMin)] \in Seq(OrderID)
      BY <3>1 DEF TypeOK
    <3> QED BY <2>2, <3>2, <1>5 DEF BestAskQty
  <2> QED BY <2>1, <2>2
<1> QED BY <1>2, <1>3, <1>6, <1>7 DEF BBO, BBOType

-----------------------------------------------------------------------------
(* Steps that only take orders away *)

(* The book shrinks: no list gains a member, no slot becomes active, and   *)
(* the cached prices move apart over levels that hold nothing live.        *)
Shrinks ==
  /\ Active(pool') \subseteq Active(pool)
  /\ \A p \in Price : Members(buys'[p]) \subseteq Members(buys[p])
  /\ \A p \in Price : Members(sells'[p]) \subseteq Members(sells[p])
  /\ bidMax' <= bidMax /\ askMin <= askMin'
  /\ \A p \in Price : p <= bidMax /\ p > bidMax' => ~LiveBid(p)'
  /\ \A p \in Price : p >= askMin /\ p < askMin' => ~LiveAsk(p)'

(* Such a step keeps the cached prices bounds of the live ones. *)
LEMMA ShrinkKeepsCache == TypeOK /\ TypeOK' /\ CacheOK /\ Shrinks => CacheOK'
<1> SUFFICES ASSUME TypeOK, TypeOK', CacheOK, Shrinks PROVE CacheOK'
  OBVIOUS
<1>1. bidMax \in Nat /\ askMin \in Nat /\ bidMax' \in Nat /\ askMin' \in Nat
  BY DEF TypeOK
<1>2. bidMax' < askMin'
  BY <1>1 DEF CacheOK, Shrinks
<1>3. ASSUME NEW p \in Price, LiveBid(p)' PROVE p <= bidMax'
  <2>1. LiveBid(p)
    BY <1>3 DEF LiveBid, Shrinks
  <2>2. p <= bidMax
    BY <2>1 DEF CacheOK
  <2> QED BY <1>1, <1>3, <2>2 DEF Shrinks, Price
<1>4. ASSUME NEW p \in Price, LiveAsk(p)' PROVE p >= askMin'
  <2>1. LiveAsk(p)
    BY <1>4 DEF LiveAsk, Shrinks
  <2>2. p >= askMin
    BY <2>1 DEF CacheOK
  <2> QED BY <1>1, <1>4, <2>2 DEF Shrinks, Price
<1> QED BY <1>2, <1>3, <1>4 DEF CacheOK

(* Trading keeps a slot well formed: the quantity is what both sides have. *)
LEMMA TradedSlot ==
  ASSUME NEW s \in Slot, NEW other \in OrderID, NEW price \in Price, NEW qty \in Size,
         qty <= s.size, s.size + s.qtyFilled < SizeMod
  PROVE  /\ Traded(s, other, price, qty) \in Slot
         /\ Traded(s, other, price, qty).size = s.size - qty
         /\ Traded(s, other, price, qty).qtyFilled = s.qtyFilled + qty
         /\ Traded(s, other, price, qty).price = s.price
         /\ Traded(s, other, price, qty).active = s.active
         /\ Traded(s, other, price, qty).side = s.side
<1> DEFINE t == Traded(s, other, price, qty)
           m == [order |-> other, price |-> price, qty |-> qty]
<1>1. m \in Match
  BY DEF Match
<1>2. s.size - qty \in Size /\ s.qtyFilled + qty \in Size
  BY DEF Slot, Size
<1>3. Append(s.fills, m) \in Seq(Match)
  <2> HIDE DEF m
  <2> QED BY <1>1 DEF Slot
<1>4. t = [s EXCEPT !.size = s.size - qty, !.qtyFilled = s.qtyFilled + qty,
                    !.fills = Append(s.fills, m)]
  BY DEF Traded
<1> HIDE DEF m, t
<1>5. /\ t \in Slot /\ t.size = s.size - qty /\ t.qtyFilled = s.qtyFilled + qty
      /\ t.price = s.price /\ t.active = s.active /\ t.side = s.side
  BY <1>2, <1>3, <1>4 DEF Slot
<1> QED BY <1>5 DEF t

(* A fill against a listed live order r, other than the aggressor: both    *)
(* slots stay well formed, prices and sides stay, and r becomes inactive   *)
(* exactly when nothing is left of it.                                     *)
LEMMA FillProps ==
  ASSUME TypeOK, SizeOK, NEW id \in OrderID, NEW r \in OrderID, id # r,
         pool[r].price \in Price, pool[r].active, Fill(id, r)
  PROVE  /\ pool' \in [OrderID -> Slot]
         /\ SizeOK'
         /\ \A x \in OrderID : pool'[x].price = pool[x].price
         /\ \A x \in OrderID : pool'[x].side = pool[x].side
         /\ \A x \in OrderID : pool'[x].active => pool[x].active
         /\ \A x \in OrderID : x # id /\ x # r => pool'[x] = pool[x]
         /\ pool'[id].active = pool[id].active
         /\ pool'[r].active = (pool'[r].size > 0)
         /\ pool[id].size >= pool[r].size <=> pool'[r].size = 0
<1> DEFINE qty == Smaller(pool[id].size, pool[r].size)
           price == pool[r].price
           rest == Traded(pool[r], id, price, qty)
           agg == Traded(pool[id], r, price, qty)
           rest2 == [rest EXCEPT !.active = (rest.size > 0)]
<1>1. pool[id] \in Slot /\ pool[r] \in Slot
  BY DEF TypeOK
<1>2. /\ qty \in Size /\ qty <= pool[id].size /\ qty <= pool[r].size
      /\ (pool[id].size >= pool[r].size <=> pool[r].size - qty = 0)
  BY <1>1 DEF Smaller, Slot, Size
<1>3. pool' = [pool EXCEPT ![id] = agg, ![r] = rest2]
  BY DEF Fill
<1> HIDE DEF qty
<1>4. /\ agg \in Slot /\ agg.size = pool[id].size - qty
      /\ agg.qtyFilled = pool[id].qtyFilled + qty
      /\ agg.price = pool[id].price /\ agg.active = pool[id].active
      /\ agg.side = pool[id].side
  <2> HIDE DEF price
  <2> QED BY <1>1, <1>2, TradedSlot DEF SizeOK, price
<1>5. /\ rest \in Slot /\ rest.size = pool[r].size - qty
      /\ rest.qtyFilled = pool[r].qtyFilled + qty
      /\ rest.price = pool[r].price /\ rest.side = pool[r].side
  <2> HIDE DEF price
  <2> QED BY <1>1, <1>2, TradedSlot DEF SizeOK, price
<1> HIDE DEF agg, rest
<1>6. /\ rest2 \in Slot /\ rest2.size = pool[r].size - qty
      /\ rest2.qtyFilled = pool[r].qtyFilled + qty /\ rest2.price = pool[r].price
      /\ rest2.side = pool[r].side /\ rest2.active = (rest2.size > 0)
  <2> DEFINE b == (rest.size > 0)
  <2>1. b \in BOOLEAN
    OBVIOUS
  <2>2. rest2 = [rest EXCEPT !.active = b]
    OBVIOUS
  <2> HIDE DEF b, rest2
  <2>3. /\ rest2 \in Slot /\ rest2.size = rest.size /\ rest2.active = b
        /\ rest2.qtyFilled = rest.qtyFilled /\ rest2.price = rest.price
        /\ rest2.side = rest.side
    BY <1>5, <2>1, <2>2 DEF Slot
  <2>4. rest2.active = (rest2.size > 0)
    BY <2>3 DEF b
  <2> QED BY <1>5, <2>3, <2>4
<1> HIDE DEF rest2, price
<1>7. /\ pool'[id] = agg /\ pool'[r] = rest2
      /\ \A x \in OrderID : x # id /\ x # r => pool'[x] = pool[x]
  BY <1>3 DEF TypeOK
<1>8. pool' \in [OrderID -> Slot]
  BY <1>3, <1>4, <1>6 DEF TypeOK
<1>9. ASSUME NEW x \in OrderID PROVE pool'[x].size + pool'[x].qtyFilled < SizeMod
  <2>1. CASE x = id
    BY <2>1, <1>1, <1>2, <1>4, <1>7 DEF SizeOK, Slot, Size
  <2>2. CASE x = r
    BY <2>2, <1>1, <1>2, <1>6, <1>7 DEF SizeOK, Slot, Size
  <2>3. CASE x # id /\ x # r
    BY <2>3, <1>7 DEF SizeOK
  <2> QED BY <2>1, <2>2, <2>3
<1>10. \A x \in OrderID : pool'[x].price = pool[x].price
  BY <1>4, <1>6, <1>7
<1>11. \A x \in OrderID : pool'[x].active => pool[x].active
  BY <1>4, <1>7
<1>12. \A x \in OrderID : pool'[x].side = pool[x].side
  BY <1>4, <1>6, <1>7
<1>13. pool'[id].active = pool[id].active /\ pool'[r].active = (pool'[r].size > 0)
  BY <1>4, <1>6, <1>7
<1>14. pool[id].size >= pool[r].size <=> pool'[r].size = 0
  BY <1>2, <1>6, <1>7
<1> QED BY <1>7, <1>8, <1>9, <1>10, <1>11, <1>12, <1>13, <1>14 DEF SizeOK

-----------------------------------------------------------------------------
(* The inductive invariant *)

(* The empty book satisfies it. *)
LEMMA InitIInv == Init => IInv
<1> SUFFICES ASSUME Init PROVE IInv
  OBVIOUS
<1>1. FreeSlot \in Slot /\ FreeSlot.size + FreeSlot.qtyFilled < SizeMod
  BY DEF FreeSlot, Slot, Size
<1>2. TypeOK
  BY <1>1 DEF Init, TypeOK, Idle
<1>3. \A p \in Price : Members(buys[p]) = {} /\ Members(sells[p]) = {}
  BY DEF Init, Members
<1>4. QueueOK
  BY <1>3 DEF QueueOK
<1>5. SizeOK
  BY <1>1 DEF Init, SizeOK
<1>6. CallOK
  BY DEF Init, CallOK
<1>7. CacheOK
  BY <1>3 DEF CacheOK, LiveBid, LiveAsk, Init
<1> QED BY <1>2, <1>4, <1>5, <1>6, <1>7 DEF IInv

(* A step that changes nothing the invariant reads, except perhaps the     *)
(* events: the rejections.                                                 *)
LEMMA QuietStep ==
  IInv /\ UNCHANGED <<pool, poolTop, buys, sells, bidMax, askMin, call>> => IInv'
BY DEF IInv, TypeOK, QueueOK, SizeOK, CallOK, CacheOK, LiveBid, LiveAsk, Active

(* A new order enters the pool.  Its id is fresh, so it is in no list.     *)
LEMMA LimitStartIInv ==
  ASSUME IInv, NEW side \in {"buy", "sell"}, NEW price \in Price, NEW size \in Sizes,
         LimitStart(side, price, size)
  PROVE  IInv'
<1> DEFINE new == [size |-> size, price |-> price, side |-> side, active |-> TRUE,
                   qtyFilled |-> 0, fills |-> <<>>]
<1>1. /\ call = Idle /\ poolTop < MaxOrders /\ pool' = [pool EXCEPT ![poolTop] = new]
      /\ poolTop' = poolTop + 1 /\ call' = [phase |-> side, id |-> poolTop, prev |-> BBO]
      /\ buys' = buys /\ sells' = sells /\ bidMax' = bidMax /\ askMin' = askMin
  BY DEF LimitStart, Alloc
<1>2. TypeOK /\ QueueOK /\ SizeOK /\ CacheOK
  BY DEF IInv
<1>3. new \in Slot /\ new.size + new.qtyFilled < SizeMod /\ new.price = price
  BY DEF Slot, Size, Price
<1> HIDE DEF new
<1>4. poolTop \in OrderID
  BY <1>1, <1>2 DEF TypeOK, OrderID
<1>5. call'.id = poolTop
  BY <1>1
<1>6. TypeOK'
  <2>1. pool' \in [OrderID -> Slot]
    BY <1>1, <1>2, <1>3 DEF TypeOK
  <2>2. poolTop' \in 1 .. MaxOrders
    BY <1>1, <1>4 DEF OrderID
  <2>3. BBO \in BBOType
    BY <1>2, BBOInType
  <2>4. call' \in [phase : {"buy", "sell"}, id : OrderID, prev : BBOType]
    BY <1>1, <1>4, <2>3
  <2> QED BY <1>1, <1>2, <2>1, <2>2, <2>4 DEF TypeOK
<1>7. \A x \in OrderID : x # poolTop => pool'[x] = pool[x]
  BY <1>1, <1>2 DEF TypeOK
<1>8. \A p \in Price : \A x \in Members(buys[p]) \cup Members(sells[p]) :
         x \in OrderID /\ x < poolTop /\ x # poolTop
  <2> SUFFICES ASSUME NEW p \in Price, NEW x \in Members(buys[p]) \cup Members(sells[p])
               PROVE  x \in OrderID /\ x < poolTop /\ x # poolTop
    OBVIOUS
  <2>1. buys[p] \in Seq(OrderID) /\ sells[p] \in Seq(OrderID)
    BY <1>2 DEF TypeOK
  <2>2. x \in OrderID
    BY <2>1 DEF Members
  <2>3. x < poolTop
    BY <1>2 DEF QueueOK
  <2> QED BY <2>2, <2>3, <1>4 DEF OrderID
<1>9. QueueOK'
  <2> SUFFICES ASSUME NEW p \in Price, NEW x \in Members(buys[p]) \cup Members(sells[p])
               PROVE  x < poolTop' /\ x # call'.id /\ pool'[x] = pool[x]
    BY <1>1, <1>2 DEF QueueOK
  <2> QED BY <1>1, <1>4, <1>5, <1>7, <1>8 DEF OrderID
<1>10. SizeOK'
  BY <1>1, <1>2, <1>3, <1>7 DEF SizeOK, TypeOK
<1>11. CallOK'
  BY <1>1, <1>3, <1>4, <1>5, <1>2 DEF CallOK, OrderID, TypeOK
<1>12. \A p \in Price : (LiveBid(p)' => LiveBid(p)) /\ (LiveAsk(p)' => LiveAsk(p))
  BY <1>1, <1>7, <1>8 DEF LiveBid, LiveAsk, Active
<1>13. CacheOK'
  BY <1>1, <1>2, <1>12 DEF CacheOK
<1> QED BY <1>6, <1>9, <1>10, <1>11, <1>13 DEF IInv

(* While a call runs, its order has a slot, a proper price and an id that  *)
(* is in no list.                                                          *)
LEMMA RunningCall ==
  ASSUME IInv, call # Idle
  PROVE  /\ call \in [phase : {"buy", "sell"}, id : OrderID, prev : BBOType]
         /\ call.id \in OrderID /\ call.id < poolTop
         /\ pool[call.id] \in Slot /\ pool[call.id].price \in Price
BY DEF IInv, TypeOK, CallOK

(* The level under a cached best price within reach of the order. *)
LEMMA BuyReach ==
  ASSUME IInv, MatchBuyCond
  PROVE  call # Idle /\ askMin \in Price /\ sells[askMin] \in Seq(OrderID)
<1>1. call # Idle
  BY DEF MatchBuyCond, Idle
<1>2. pool[call.id].price \in Price
  BY <1>1, RunningCall
<1>3. askMin \in Price
  BY <1>2 DEF MatchBuyCond, IInv, TypeOK, Price
<1> QED BY <1>1, <1>3 DEF IInv, TypeOK

(* The loop steps over a level with nothing live. *)
LEMMA MatchBuyEmptyLevelIInv == IInv /\ MatchBuyEmptyLevel => IInv'
<1> SUFFICES ASSUME IInv, MatchBuyEmptyLevel PROVE IInv'
  OBVIOUS
<1>1. /\ DropUntil(sells[askMin], Active(pool)) = <<>>
      /\ sells' = [sells EXCEPT ![askMin] = <<>>] /\ askMin' = askMin + 1
      /\ UNCHANGED <<pool, poolTop, buys, bidMax, call>>
  BY DEF MatchBuyEmptyLevel
<1>2. TypeOK /\ QueueOK /\ SizeOK /\ CallOK /\ CacheOK
  BY DEF IInv
<1>3. askMin \in Price /\ sells[askMin] \in Seq(OrderID)
  BY BuyReach DEF MatchBuyEmptyLevel
<1>4. TypeOK'
  BY <1>1, <1>2, <1>3 DEF TypeOK, Price
<1>5. sells'[askMin] = <<>> /\ \A p \in Price : p # askMin => sells'[p] = sells[p]
  BY <1>1, <1>2, <1>3 DEF TypeOK
<1>6. Members(sells'[askMin]) = {}
  BY <1>5 DEF Members
<1>7. \A p \in Price : Members(sells'[p]) \subseteq Members(sells[p])
  BY <1>5, <1>6
<1>8. QueueOK'
  BY <1>1, <1>2, <1>7 DEF QueueOK
<1>10. Shrinks
  <2>1. \A p \in Price : p >= askMin /\ p < askMin' => p = askMin
    BY <1>1, <1>3 DEF Price
  <2>2. \A p \in Price : p >= askMin /\ p < askMin' => ~LiveAsk(p)'
    BY <2>1, <1>5, <1>6 DEF LiveAsk
  <2>3. bidMax' <= bidMax /\ askMin <= askMin'
    BY <1>1, <1>2 DEF TypeOK
  <2>4. \A p \in Price : p <= bidMax /\ p > bidMax' => FALSE
    BY <1>1, <1>2 DEF TypeOK, Price
  <2> QED BY <1>1, <1>7, <2>2, <2>3, <2>4 DEF Shrinks
<1>11. CacheOK'
  BY <1>2, <1>4, <1>10, ShrinkKeepsCache
<1>12. SizeOK' /\ CallOK'
  BY <1>1, <1>2 DEF SizeOK, CallOK
<1> QED BY <1>4, <1>8, <1>11, <1>12 DEF IInv

(* Lists that only lose entries, of orders that keep their prices and at   *)
(* most end: what a fill does to the two sides.                            *)
LEMMA QueuesShrink ==
  ASSUME TypeOK, QueueOK, UNCHANGED <<poolTop, call>>,
         \A x \in OrderID : pool'[x].price = pool[x].price,
         \A x \in OrderID : pool'[x].active => pool[x].active,
         \A p \in Price : Members(buys'[p]) \subseteq Members(buys[p]),
         \A p \in Price : Members(sells'[p]) \subseteq Members(sells[p])
  PROVE  QueueOK'
<1>1. ASSUME NEW p \in Price, NEW x \in Members(buys'[p])
      PROVE  /\ x < poolTop' /\ (call' # Idle => x # call'.id)
             /\ pool'[x].active => pool'[x].price = p
  <2>1. x \in Members(buys[p])
    OBVIOUS
  <2>2. x \in OrderID
    BY <2>1 DEF TypeOK, Members
  <2> QED BY <2>1, <2>2 DEF QueueOK
<1>2. ASSUME NEW p \in Price, NEW x \in Members(sells'[p])
      PROVE  /\ x < poolTop' /\ (call' # Idle => x # call'.id)
             /\ pool'[x].active => pool'[x].price = p
  <2>1. x \in Members(sells[p])
    OBVIOUS
  <2>2. x \in OrderID
    BY <2>1 DEF TypeOK, Members
  <2> QED BY <2>1, <2>2 DEF QueueOK
<1> QED BY <1>1, <1>2 DEF QueueOK

(* The loop trades with the oldest live order of the best level. *)
LEMMA MatchBuyFillIInv == IInv /\ MatchBuyFill => IInv'
<1> SUFFICES ASSUME IInv, MatchBuyFill PROVE IInv'
  OBVIOUS
<1> DEFINE q == DropUntil(sells[askMin], Active(pool))
           left == AfterFill(call.id, q)
           r == Head(q)
<1>1. /\ q # <<>> /\ Fill(call.id, r)
      /\ sells' = [sells EXCEPT ![askMin] = left]
      /\ askMin' = IF left = <<>> THEN askMin + 1 ELSE askMin
      /\ UNCHANGED <<poolTop, buys, bidMax, call>>
  BY DEF MatchBuyFill
<1>2. TypeOK /\ QueueOK /\ SizeOK /\ CallOK /\ CacheOK
  BY DEF IInv
<1>3. call # Idle /\ askMin \in Price /\ sells[askMin] \in Seq(OrderID)
  BY BuyReach DEF MatchBuyFill
<1>4. q \in Seq(OrderID) /\ Members(q) \subseteq Members(sells[askMin]) /\ r \in Active(pool)
  BY <1>1, <1>3, DropUntilProps
<1>5. left = q \/ left = Tail(q)
  BY DEF AfterFill
<1> HIDE DEF q, left
<1>6. r \in Members(sells[askMin]) /\ r \in OrderID
  BY <1>1, <1>4 DEF Members
<1> HIDE DEF r
<1>7. pool[r].active /\ pool[r].price = askMin /\ r # call.id
  BY <1>2, <1>3, <1>4, <1>6 DEF QueueOK, Active
<1>8. call.id \in OrderID
  BY <1>3, RunningCall
<1>9. /\ pool' \in [OrderID -> Slot] /\ SizeOK'
      /\ \A x \in OrderID : pool'[x].price = pool[x].price
      /\ \A x \in OrderID : pool'[x].active => pool[x].active
  BY <1>1, <1>2, <1>3, <1>6, <1>7, <1>8, FillProps
<1>10. left \in Seq(OrderID) /\ Members(left) \subseteq Members(sells[askMin])
  <2>1. Tail(q) \in Seq(OrderID) /\ Members(Tail(q)) \subseteq Members(q)
    BY <1>1, <1>4 DEF Members
  <2> QED BY <1>4, <1>5, <2>1
<1>11. sells'[askMin] = left /\ \A p \in Price : p # askMin => sells'[p] = sells[p]
  BY <1>1, <1>2, <1>3 DEF TypeOK
<1>12. \A p \in Price : Members(sells'[p]) \subseteq Members(sells[p])
  BY <1>10, <1>11
<1>13. TypeOK'
  <2>1. sells' \in [Price -> Seq(OrderID)]
    BY <1>1, <1>2, <1>10 DEF TypeOK
  <2>2. askMin' \in 1 .. MaxPrice
    BY <1>1, <1>3 DEF Price
  <2> QED BY <1>1, <1>2, <1>9, <2>1, <2>2 DEF TypeOK
<1>14. QueueOK'
  BY <1>1, <1>2, <1>9, <1>12, QueuesShrink
<1>15. Shrinks
  <2>1. ASSUME NEW p \in Price, p >= askMin, p < askMin' PROVE ~LiveAsk(p)'
    <3>1. left = <<>> /\ p = askMin
      BY <2>1, <1>1, <1>3 DEF Price
    <3>2. Members(sells'[p]) = {}
      BY <3>1, <1>11 DEF Members
    <3> QED BY <3>2 DEF LiveAsk
  <2>2. Active(pool') \subseteq Active(pool)
    BY <1>9 DEF Active
  <2>3. bidMax' <= bidMax /\ askMin <= askMin'
    BY <1>1, <1>2 DEF TypeOK
  <2>4. \A p \in Price : p <= bidMax /\ p > bidMax' => FALSE
    BY <1>1, <1>2 DEF TypeOK, Price
  <2> QED BY <1>1, <1>12, <2>1, <2>2, <2>3, <2>4 DEF Shrinks
<1>16. CacheOK'
  BY <1>2, <1>13, <1>15, ShrinkKeepsCache
<1>17. CallOK'
  BY <1>1, <1>2, <1>8, <1>9 DEF CallOK
<1> QED BY <1>9, <1>13, <1>14, <1>16, <1>17 DEF IInv

(* The same for an incoming sell order. *)
LEMMA SellReach ==
  ASSUME IInv, MatchSellCond
  PROVE  call # Idle /\ bidMax \in Price /\ buys[bidMax] \in Seq(OrderID)
<1>1. call # Idle
  BY DEF MatchSellCond, Idle
<1>2. pool[call.id].price \in Price
  BY <1>1, RunningCall
<1>3. bidMax \in Price
  BY <1>2 DEF MatchSellCond, IInv, TypeOK, Price
<1> QED BY <1>1, <1>3 DEF IInv, TypeOK

(* The loop steps over a level with nothing live. *)
LEMMA MatchSellEmptyLevelIInv == IInv /\ MatchSellEmptyLevel => IInv'
<1> SUFFICES ASSUME IInv, MatchSellEmptyLevel PROVE IInv'
  OBVIOUS
<1>1. /\ DropUntil(buys[bidMax], Active(pool)) = <<>>
      /\ buys' = [buys EXCEPT ![bidMax] = <<>>] /\ bidMax' = bidMax - 1
      /\ UNCHANGED <<pool, poolTop, sells, askMin, call>>
  BY DEF MatchSellEmptyLevel
<1>2. TypeOK /\ QueueOK /\ SizeOK /\ CallOK /\ CacheOK
  BY DEF IInv
<1>3. bidMax \in Price /\ buys[bidMax] \in Seq(OrderID)
  BY SellReach DEF MatchSellEmptyLevel
<1>4. TypeOK'
  BY <1>1, <1>2, <1>3 DEF TypeOK, Price
<1>5. buys'[bidMax] = <<>> /\ \A p \in Price : p # bidMax => buys'[p] = buys[p]
  BY <1>1, <1>2, <1>3 DEF TypeOK
<1>6. Members(buys'[bidMax]) = {}
  BY <1>5 DEF Members
<1>7. \A p \in Price : Members(buys'[p]) \subseteq Members(buys[p])
  BY <1>5, <1>6
<1>8. QueueOK'
  BY <1>1, <1>2, <1>7 DEF QueueOK
<1>10. Shrinks
  <2>1. \A p \in Price : p <= bidMax /\ p > bidMax' => p = bidMax
    BY <1>1, <1>3 DEF Price
  <2>2. \A p \in Price : p <= bidMax /\ p > bidMax' => ~LiveBid(p)'
    BY <2>1, <1>5, <1>6 DEF LiveBid
  <2>3. bidMax' <= bidMax /\ askMin <= askMin'
    BY <1>1, <1>2 DEF TypeOK
  <2>4. \A p \in Price : p >= askMin /\ p < askMin' => FALSE
    BY <1>1, <1>2 DEF TypeOK, Price
  <2> QED BY <1>1, <1>7, <2>2, <2>3, <2>4 DEF Shrinks
<1>11. CacheOK'
  BY <1>2, <1>4, <1>10, ShrinkKeepsCache
<1>12. SizeOK' /\ CallOK'
  BY <1>1, <1>2 DEF SizeOK, CallOK
<1> QED BY <1>4, <1>8, <1>11, <1>12 DEF IInv

(* The loop trades with the oldest live order of the best level. *)
LEMMA MatchSellFillIInv == IInv /\ MatchSellFill => IInv'
<1> SUFFICES ASSUME IInv, MatchSellFill PROVE IInv'
  OBVIOUS
<1> DEFINE q == DropUntil(buys[bidMax], Active(pool))
           left == AfterFill(call.id, q)
           r == Head(q)
<1>1. /\ q # <<>> /\ Fill(call.id, r)
      /\ buys' = [buys EXCEPT ![bidMax] = left]
      /\ bidMax' = IF left = <<>> THEN bidMax - 1 ELSE bidMax
      /\ UNCHANGED <<poolTop, sells, askMin, call>>
  BY DEF MatchSellFill
<1>2. TypeOK /\ QueueOK /\ SizeOK /\ CallOK /\ CacheOK
  BY DEF IInv
<1>3. call # Idle /\ bidMax \in Price /\ buys[bidMax] \in Seq(OrderID)
  BY SellReach DEF MatchSellFill
<1>4. q \in Seq(OrderID) /\ Members(q) \subseteq Members(buys[bidMax]) /\ r \in Active(pool)
  BY <1>1, <1>3, DropUntilProps
<1>5. left = q \/ left = Tail(q)
  BY DEF AfterFill
<1> HIDE DEF q, left
<1>6. r \in Members(buys[bidMax]) /\ r \in OrderID
  BY <1>1, <1>4 DEF Members
<1> HIDE DEF r
<1>7. pool[r].active /\ pool[r].price = bidMax /\ r # call.id
  BY <1>2, <1>3, <1>4, <1>6 DEF QueueOK, Active
<1>8. call.id \in OrderID
  BY <1>3, RunningCall
<1>9. /\ pool' \in [OrderID -> Slot] /\ SizeOK'
      /\ \A x \in OrderID : pool'[x].price = pool[x].price
      /\ \A x \in OrderID : pool'[x].active => pool[x].active
  BY <1>1, <1>2, <1>3, <1>6, <1>7, <1>8, FillProps
<1>10. left \in Seq(OrderID) /\ Members(left) \subseteq Members(buys[bidMax])
  <2>1. Tail(q) \in Seq(OrderID) /\ Members(Tail(q)) \subseteq Members(q)
    BY <1>1, <1>4 DEF Members
  <2> QED BY <1>4, <1>5, <2>1
<1>11. buys'[bidMax] = left /\ \A p \in Price : p # bidMax => buys'[p] = buys[p]
  BY <1>1, <1>2, <1>3 DEF TypeOK
<1>12. \A p \in Price : Members(buys'[p]) \subseteq Members(buys[p])
  BY <1>10, <1>11
<1>13. TypeOK'
  <2>1. buys' \in [Price -> Seq(OrderID)]
    BY <1>1, <1>2, <1>10 DEF TypeOK
  <2>2. bidMax' \in 0 .. MaxPrice - 1
    BY <1>1, <1>3 DEF Price
  <2> QED BY <1>1, <1>2, <1>9, <2>1, <2>2 DEF TypeOK
<1>14. QueueOK'
  BY <1>1, <1>2, <1>9, <1>12, QueuesShrink
<1>15. Shrinks
  <2>1. ASSUME NEW p \in Price, p <= bidMax, p > bidMax' PROVE ~LiveBid(p)'
    <3>1. left = <<>> /\ p = bidMax
      BY <2>1, <1>1, <1>3 DEF Price
    <3>2. Members(buys'[p]) = {}
      BY <3>1, <1>11 DEF Members
    <3> QED BY <3>2 DEF LiveBid
  <2>2. Active(pool') \subseteq Active(pool)
    BY <1>9 DEF Active
  <2>3. bidMax' <= bidMax /\ askMin <= askMin'
    BY <1>1, <1>2 DEF TypeOK
  <2>4. \A p \in Price : p >= askMin /\ p < askMin' => FALSE
    BY <1>1, <1>2 DEF TypeOK, Price
  <2> QED BY <1>1, <1>12, <2>1, <2>2, <2>3, <2>4 DEF Shrinks
<1>16. CacheOK'
  BY <1>2, <1>13, <1>15, ShrinkKeepsCache
<1>17. CallOK'
  BY <1>1, <1>2, <1>8, <1>9 DEF CallOK
<1> QED BY <1>9, <1>13, <1>14, <1>16, <1>17 DEF IInv

(* Clearing a slot, as Cancel does, keeps it well formed. *)
LEMMA ClearedSlot ==
  ASSUME NEW s \in Slot, s.size + s.qtyFilled < SizeMod
  PROVE  LET t == [s EXCEPT !.active = FALSE, !.size = 0]
         IN  /\ t \in Slot /\ t.size + t.qtyFilled < SizeMod
             /\ t.price = s.price /\ ~t.active
<1> DEFINE t == [s EXCEPT !.active = FALSE, !.size = 0]
<1>1. 0 \in Size /\ FALSE \in BOOLEAN /\ s.qtyFilled \in Size /\ s.size \in Size
  BY DEF Size, Slot
<1>2. t \in Slot
  BY <1>1 DEF Slot
<1>3. t.size = 0 /\ t.qtyFilled = s.qtyFilled /\ t.price = s.price /\ t.active = FALSE
  BY DEF Slot
<1>4. t.size + t.qtyFilled < SizeMod
  BY <1>1, <1>3 DEF Size
<1> QED BY <1>2, <1>3, <1>4

(* Between calls, a step that adds nothing to the lists keeps them sound.  *)
LEMMA ShrinkKeepsQueues ==
  ASSUME TypeOK, QueueOK, call' = Idle, poolTop' = poolTop,
         \A p \in Price : Members(buys'[p]) \subseteq Members(buys[p]),
         \A p \in Price : Members(sells'[p]) \subseteq Members(sells[p]),
         \A x \in OrderID : pool'[x].active => pool[x].active /\ pool'[x].price = pool[x].price
  PROVE  QueueOK'
<1>1. ASSUME NEW p \in Price, NEW x \in Members(buys'[p])
      PROVE  x < poolTop' /\ (pool'[x].active => pool'[x].price = p)
  <2>1. x \in Members(buys[p])
    OBVIOUS
  <2>2. x \in OrderID
    BY <2>1 DEF TypeOK, Members
  <2> QED BY <2>1, <2>2 DEF QueueOK
<1>2. ASSUME NEW p \in Price, NEW x \in Members(sells'[p])
      PROVE  x < poolTop' /\ (pool'[x].active => pool'[x].price = p)
  <2>1. x \in Members(sells[p])
    OBVIOUS
  <2>2. x \in OrderID
    BY <2>1 DEF TypeOK, Members
  <2> QED BY <2>1, <2>2 DEF QueueOK
<1> QED BY <1>1, <1>2 DEF QueueOK

-----------------------------------------------------------------------------
(* The ends of a Limit call *)

(* A used-up order only loses its active flag. *)
LEMMA LimitDoneIInv == IInv /\ LimitDone => IInv'
<1> SUFFICES ASSUME IInv, LimitDone PROVE IInv'
  OBVIOUS
<1>1. /\ call # Idle /\ call' = Idle
      /\ pool' = [pool EXCEPT ![call.id].active = FALSE]
      /\ UNCHANGED <<poolTop, buys, sells, bidMax, askMin>>
  BY DEF LimitDone
<1>2. TypeOK /\ QueueOK /\ SizeOK /\ CacheOK
  BY DEF IInv
<1>3. call.id \in OrderID /\ pool[call.id] \in Slot
  BY <1>1, RunningCall
<1>4. pool'[call.id] = [pool[call.id] EXCEPT !.active = FALSE]
      /\ \A x \in OrderID : x # call.id => pool'[x] = pool[x]
  BY <1>1, <1>2, <1>3 DEF TypeOK
<1>5. pool' \in [OrderID -> Slot]
  BY <1>1, <1>2, <1>3 DEF TypeOK, Slot
<1>6. \A x \in OrderID : /\ pool'[x].size = pool[x].size /\ pool'[x].qtyFilled = pool[x].qtyFilled
                          /\ pool'[x].price = pool[x].price
                          /\ (pool'[x].active => pool[x].active)
  BY <1>3, <1>4 DEF Slot
<1>7. TypeOK'
  BY <1>1, <1>2, <1>5 DEF TypeOK
<1>8. QueueOK'
  BY <1>1, <1>2, <1>6, ShrinkKeepsQueues
<1>9. SizeOK' /\ CallOK'
  BY <1>1, <1>2, <1>6 DEF SizeOK, CallOK
<1>10. Active(pool') \subseteq Active(pool)
  BY <1>6 DEF Active
<1>11. CacheOK'
  <2>1. \A p \in Price : (LiveBid(p)' => LiveBid(p)) /\ (LiveAsk(p)' => LiveAsk(p))
    BY <1>1, <1>10 DEF LiveBid, LiveAsk
  <2> QED BY <1>1, <1>2, <2>1 DEF CacheOK
<1> QED BY <1>7, <1>8, <1>9, <1>11 DEF IInv

(* What is left of a buy order rests below the cached best ask: the loop   *)
(* ended because nothing in reach was live.                                *)
LEMMA RestBuyIInv == IInv /\ RestBuy => IInv'
<1> SUFFICES ASSUME IInv, RestBuy PROVE IInv'
  OBVIOUS
<1> DEFINE price == pool[call.id].price
<1>1. /\ call.phase = "buy" /\ askMin > price /\ call' = Idle
      /\ buys' = [buys EXCEPT ![price] = Append(buys[price], call.id)]
      /\ bidMax' = IF price > bidMax THEN price ELSE bidMax
      /\ UNCHANGED <<pool, poolTop, sells, askMin>>
  BY DEF RestBuy
<1>2. TypeOK /\ QueueOK /\ SizeOK /\ CacheOK
  BY DEF IInv
<1>3. call # Idle
  BY <1>1 DEF Idle
<1>4. call.id \in OrderID /\ call.id < poolTop /\ price \in Price
  BY <1>3, RunningCall
<1> HIDE DEF price
<1>5. /\ buys'[price] = Append(buys[price], call.id)
      /\ \A p \in Price : p # price => buys'[p] = buys[p]
  BY <1>1, <1>2, <1>4 DEF TypeOK
<1>6. buys[price] \in Seq(OrderID)
  BY <1>2, <1>4 DEF TypeOK
<1>7. Members(buys'[price]) = Members(buys[price]) \cup {call.id}
  BY <1>4, <1>5, <1>6, MembersAppend
<1>8. TypeOK'
  <2>1. buys' \in [Price -> Seq(OrderID)]
    <3>1. Append(buys[price], call.id) \in Seq(OrderID)
      BY <1>4, <1>6
    <3> QED BY <1>1, <1>2, <3>1 DEF TypeOK
  <2>2. bidMax' \in 0 .. MaxPrice - 1
    BY <1>1, <1>2, <1>4 DEF TypeOK, Price
  <2> QED BY <1>1, <1>2, <2>1, <2>2 DEF TypeOK
<1>9. QueueOK'
  <2>1. ASSUME NEW p \in Price, NEW x \in Members(buys'[p])
        PROVE  x < poolTop /\ (pool[x].active => pool[x].price = p)
    <3>1. CASE x \in Members(buys[p])
      BY <3>1, <1>2 DEF QueueOK
    <3>2. CASE x \notin Members(buys[p])
      <4>1. p = price /\ x = call.id
        BY <3>2, <2>1, <1>5, <1>7
      <4> QED BY <4>1, <1>4 DEF price
    <3> QED BY <3>1, <3>2
  <2> QED BY <2>1, <1>1, <1>2 DEF QueueOK
<1>10. SizeOK' /\ CallOK'
  BY <1>1, <1>2 DEF SizeOK, CallOK
<1>11. CacheOK'
  <2>1. bidMax \in Nat /\ askMin \in Nat /\ price \in Nat /\ bidMax < askMin
    BY <1>2, <1>4 DEF TypeOK, CacheOK, Price
  <2>2. bidMax' < askMin' /\ bidMax <= bidMax' /\ price <= bidMax'
    BY <1>1, <2>1
  <2>3. ASSUME NEW p \in Price, LiveBid(p)' PROVE p <= bidMax'
    <3>1. CASE p = price
      BY <3>1, <2>2
    <3>2. CASE p # price
      <4>1. LiveBid(p)
        BY <2>3, <3>2, <1>1, <1>5 DEF LiveBid
      <4>2. p <= bidMax
        BY <4>1, <1>2 DEF CacheOK
      <4> QED BY <4>2, <2>1, <2>2, <1>8 DEF Price, TypeOK
    <3> QED BY <3>1, <3>2
  <2>4. \A p \in Price : LiveAsk(p)' => p >= askMin'
    BY <1>1, <1>2 DEF LiveAsk, CacheOK
  <2> QED BY <2>2, <2>3, <2>4 DEF CacheOK
<1> QED BY <1>8, <1>9, <1>10, <1>11 DEF IInv

(* What is left of a sell order rests above the cached best bid.           *)
LEMMA RestSellIInv == IInv /\ RestSell => IInv'
<1> SUFFICES ASSUME IInv, RestSell PROVE IInv'
  OBVIOUS
<1> DEFINE price == pool[call.id].price
<1>1. /\ call.phase = "sell" /\ ~(bidMax >= price /\ bidMax > 0) /\ call' = Idle
      /\ sells' = [sells EXCEPT ![price] = Append(sells[price], call.id)]
      /\ askMin' = IF price < askMin THEN price ELSE askMin
      /\ UNCHANGED <<pool, poolTop, buys, bidMax>>
  BY DEF RestSell
<1>2. TypeOK /\ QueueOK /\ SizeOK /\ CacheOK
  BY DEF IInv
<1>3. call # Idle
  BY <1>1 DEF Idle
<1>4. call.id \in OrderID /\ call.id < poolTop /\ price \in Price
  BY <1>3, RunningCall
<1> HIDE DEF price
<1>5. /\ sells'[price] = Append(sells[price], call.id)
      /\ \A p \in Price : p # price => sells'[p] = sells[p]
  BY <1>1, <1>2, <1>4 DEF TypeOK
<1>6. sells[price] \in Seq(OrderID)
  BY <1>2, <1>4 DEF TypeOK
<1>7. Members(sells'[price]) = Members(sells[price]) \cup {call.id}
  BY <1>4, <1>5, <1>6, MembersAppend
<1>8. TypeOK'
  <2>1. sells' \in [Price -> Seq(OrderID)]
    <3>1. Append(sells[price], call.id) \in Seq(OrderID)
      BY <1>4, <1>6
    <3> QED BY <1>1, <1>2, <3>1 DEF TypeOK
  <2>2. askMin' \in 1 .. MaxPrice
    BY <1>1, <1>2, <1>4 DEF TypeOK, Price
  <2> QED BY <1>1, <1>2, <2>1, <2>2 DEF TypeOK
<1>9. QueueOK'
  <2>1. ASSUME NEW p \in Price, NEW x \in Members(sells'[p])
        PROVE  x < poolTop /\ (pool[x].active => pool[x].price = p)
    <3>1. CASE x \in Members(sells[p])
      BY <3>1, <1>2 DEF QueueOK
    <3>2. CASE x \notin Members(sells[p])
      <4>1. p = price /\ x = call.id
        BY <3>2, <2>1, <1>5, <1>7
      <4> QED BY <4>1, <1>4 DEF price
    <3> QED BY <3>1, <3>2
  <2> QED BY <2>1, <1>1, <1>2 DEF QueueOK
<1>10. SizeOK' /\ CallOK'
  BY <1>1, <1>2 DEF SizeOK, CallOK
<1>11. CacheOK'
  <2>1. bidMax \in Nat /\ askMin \in Nat /\ price \in Nat /\ price >= 1 /\ bidMax < askMin
    BY <1>2, <1>4 DEF TypeOK, CacheOK, Price
  <2>2. bidMax' < askMin' /\ askMin' <= askMin /\ askMin' <= price
    BY <1>1, <2>1
  <2>3. ASSUME NEW p \in Price, LiveAsk(p)' PROVE p >= askMin'
    <3>1. CASE p = price
      BY <3>1, <2>2, <2>1, <1>8 DEF TypeOK
    <3>2. CASE p # price
      <4>1. LiveAsk(p)
        BY <2>3, <3>2, <1>1, <1>5 DEF LiveAsk
      <4>2. p >= askMin
        BY <4>1, <1>2 DEF CacheOK
      <4> QED BY <4>2, <2>1, <2>2, <1>8 DEF Price, TypeOK
    <3> QED BY <3>1, <3>2
  <2>4. \A p \in Price : LiveBid(p)' => p <= bidMax'
    BY <1>1, <1>2 DEF LiveBid, CacheOK
  <2> QED BY <2>2, <2>3, <2>4 DEF CacheOK
<1> QED BY <1>8, <1>9, <1>10, <1>11 DEF IInv

-----------------------------------------------------------------------------
(* Cancel and Restore *)

(* A cancelled order stays linked; the cached price of its side moves to   *)
(* the best price that is still live, or to the empty mark.                *)
LEMMA CancelRestingIInv ==
  ASSUME IInv, NEW id \in OrderID, CancelResting(id)
  PROVE  IInv'
<1> DEFINE ba == BestAsk(pool', askMin)
           bb == BestBid(pool', bidMax)
<1>1. /\ call = Idle /\ pool' = [pool EXCEPT ![id].active = FALSE, ![id].size = 0]
      /\ bidMax' = IF pool[id].side = "buy" /\ pool[id].price = bidMax THEN bb ELSE bidMax
      /\ askMin' = IF pool[id].side = "sell" THEN (IF ba = 0 THEN MaxPrice ELSE ba) ELSE askMin
      /\ UNCHANGED <<poolTop, buys, sells, call>>
  BY DEF CancelResting
<1>2. TypeOK /\ QueueOK /\ SizeOK /\ CallOK /\ CacheOK
  BY DEF IInv
<1>3. pool[id] \in Slot /\ bidMax \in Nat /\ askMin \in Nat
      /\ pool[id].size + pool[id].qtyFilled < SizeMod
  BY <1>2 DEF TypeOK, SizeOK
<1>4. pool'[id] = [pool[id] EXCEPT !.active = FALSE, !.size = 0]
      /\ \A x \in OrderID : x # id => pool'[x] = pool[x]
  BY <1>1, <1>2 DEF TypeOK
<1>5. /\ pool'[id] \in Slot /\ pool'[id].size + pool'[id].qtyFilled < SizeMod
      /\ pool'[id].price = pool[id].price /\ ~pool'[id].active
  BY <1>3, <1>4, ClearedSlot
<1>6. /\ pool' \in [OrderID -> Slot]
      /\ \A x \in OrderID : /\ pool'[x].size + pool'[x].qtyFilled < SizeMod
                             /\ pool'[x].price = pool[x].price
                             /\ (pool'[x].active => pool[x].active)
  <2>1. pool' = [x \in OrderID |-> IF x = id THEN pool'[id] ELSE pool[x]]
    BY <1>1, <1>4, <1>2 DEF TypeOK
  <2>2. pool' \in [OrderID -> Slot]
    BY <2>1, <1>5, <1>2 DEF TypeOK
  <2> QED BY <2>2, <1>2, <1>4, <1>5 DEF SizeOK
<1>7. /\ bb \in 0 .. MaxPrice - 1 /\ bb <= bidMax
      /\ \A p \in Price : p <= bidMax /\ Members(buys[p]) \cap Active(pool') # {} => p <= bb
  BY <1>3, BestBidProps
<1>8. /\ ba \in 0 .. MaxPrice - 1 /\ (ba # 0 => ba >= askMin)
      /\ \A p \in Price : p >= askMin /\ Members(sells[p]) \cap Active(pool') # {}
                          => ba # 0 /\ p >= ba
  BY <1>3, BestAskProps
<1> HIDE DEF ba, bb
<1>9. TypeOK'
  <2>1. bidMax' \in 0 .. MaxPrice - 1
    BY <1>1, <1>2, <1>7 DEF TypeOK
  <2>2. askMin' \in 1 .. MaxPrice
    BY <1>1, <1>2, <1>8 DEF TypeOK
  <2> QED BY <1>1, <1>2, <1>6, <2>1, <2>2 DEF TypeOK
<1>10. QueueOK'
  BY <1>1, <1>2, <1>6, ShrinkKeepsQueues
<1>11. SizeOK' /\ CallOK'
  BY <1>1, <1>6 DEF SizeOK, CallOK
<1>12. Shrinks
  <2>1. Active(pool') \subseteq Active(pool)
    BY <1>6 DEF Active
  <2>2. bidMax' <= bidMax /\ askMin <= askMin'
    BY <1>1, <1>2, <1>3, <1>7, <1>8 DEF TypeOK
  <2>3. ASSUME NEW p \in Price, p <= bidMax, p > bidMax', LiveBid(p)' PROVE FALSE
    <3>1. p <= bb
      BY <2>3, <1>1, <1>7 DEF LiveBid
    <3>2. bidMax' = bb \/ bidMax' = bidMax
      BY <1>1
    <3> QED BY <2>3, <3>1, <3>2, <1>3, <1>7 DEF Price
  <2>4. ASSUME NEW p \in Price, p >= askMin, p < askMin', LiveAsk(p)' PROVE FALSE
    <3>1. ba # 0 /\ p >= ba
      BY <2>4, <1>1, <1>8 DEF LiveAsk
    <3>2. askMin' = ba \/ askMin' = askMin
      BY <1>1, <3>1
    <3> QED BY <2>4, <3>1, <3>2, <1>3, <1>8 DEF Price
  <2> QED BY <1>1, <2>1, <2>2, <2>3, <2>4 DEF Shrinks
<1>13. CacheOK'
  BY <1>2, <1>9, <1>12, ShrinkKeepsCache
<1> QED BY <1>9, <1>10, <1>11, <1>13 DEF IInv

(* The lists of a snapshot hold live orders of the lists they come from.   *)
LEMMA SnapshotProps ==
  ASSUME TypeOK
  PROVE  /\ SnapshotBuys \in [Price -> Seq(OrderID)] /\ SnapshotSells \in [Price -> Seq(OrderID)]
         /\ \A p \in Price : Members(SnapshotBuys[p]) \subseteq Members(buys[p]) \cap Active(pool)
         /\ \A p \in Price : Members(SnapshotSells[p]) \subseteq Members(sells[p]) \cap Active(pool)
<1>1. <<>> \in Seq(OrderID) /\ Members(<<>>) = {}
  BY DEF Members
<1>2. ASSUME NEW p \in Price
      PROVE  SnapshotBuys[p] \in Seq(OrderID)
             /\ Members(SnapshotBuys[p]) \subseteq Members(buys[p]) \cap Active(pool)
  <2>1. SnapshotBuys[p] = KeepOnly(buys[p], Active(pool)) \/ SnapshotBuys[p] = <<>>
    BY DEF SnapshotBuys
  <2>2. buys[p] \in Seq(OrderID)
    BY DEF TypeOK
  <2>3. CASE SnapshotBuys[p] = KeepOnly(buys[p], Active(pool))
    <3>1. KeepOnly(buys[p], Active(pool)) \in Seq(OrderID)
          /\ Members(KeepOnly(buys[p], Active(pool))) \subseteq Members(buys[p]) \cap Active(pool)
      BY <2>2, KeepOnlyProps
    <3> QED BY <2>3, <3>1
  <2>4. CASE SnapshotBuys[p] = <<>>
    BY <2>4, <1>1
  <2> QED BY <2>1, <2>3, <2>4
<1>3. ASSUME NEW p \in Price
      PROVE  SnapshotSells[p] \in Seq(OrderID)
             /\ Members(SnapshotSells[p]) \subseteq Members(sells[p]) \cap Active(pool)
  <2>1. SnapshotSells[p] = KeepOnly(sells[p], Active(pool)) \/ SnapshotSells[p] = <<>>
    BY DEF SnapshotSells
  <2>2. sells[p] \in Seq(OrderID)
    BY DEF TypeOK
  <2>3. CASE SnapshotSells[p] = KeepOnly(sells[p], Active(pool))
    <3>1. KeepOnly(sells[p], Active(pool)) \in Seq(OrderID)
          /\ Members(KeepOnly(sells[p], Active(pool))) \subseteq Members(sells[p]) \cap Active(pool)
      BY <2>2, KeepOnlyProps
    <3> QED BY <2>3, <3>1
  <2>4. CASE SnapshotSells[p] = <<>>
    BY <2>4, <1>1
  <2> QED BY <2>1, <2>3, <2>4
<1>4. SnapshotBuys \in [Price -> Seq(OrderID)] /\ SnapshotSells \in [Price -> Seq(OrderID)]
  <2>1. SnapshotBuys = [p \in Price |-> SnapshotBuys[p]]
    BY DEF SnapshotBuys
  <2>2. SnapshotSells = [p \in Price |-> SnapshotSells[p]]
    BY DEF SnapshotSells
  <2> QED BY <2>1, <2>2, <1>2, <1>3
<1> QED BY <1>2, <1>3, <1>4

(* An order comes back from the file with the side it was listed under and *)
(* is otherwise what it was.                                               *)
LEMMA ReloadedSlot ==
  ASSUME NEW slot \in Slot, NEW side \in {"buy", "sell"}
  PROVE  Reloaded(slot, side) = [slot EXCEPT !.side = side]
<1>1. DOMAIN slot = {"side", "price", "size", "qtyFilled", "fills", "active"}
  BY DEF Slot
<1> DEFINE e == [slot EXCEPT !.side = side]
           o == marshalBookState(e)
<1>2. e.side = side /\ DOMAIN e = DOMAIN slot
  BY <1>1
<1>3. o = [e EXCEPT !.side = IF side = "sell" THEN "S" ELSE "B"]
  BY <1>2 DEF marshalBookState
<1>4. o.side = (IF side = "sell" THEN "S" ELSE "B")
  BY <1>1, <1>2, <1>3
<1>5. unmarshalBookState(o) = [o EXCEPT !.side = side]
  BY <1>4 DEF unmarshalBookState
<1>6. [o EXCEPT !.side = side] = e
  BY <1>2, <1>3
<1> QED BY <1>5, <1>6 DEF Reloaded

(* A restored book has the live orders of the old one and its best prices. *)
LEMMA SnapshotRestoreIInv == IInv /\ SnapshotRestore => IInv'
<1> SUFFICES ASSUME IInv, SnapshotRestore PROVE IInv'
  OBVIOUS
<1> DEFINE ba == BestAsk(pool, askMin)
           bb == BestBid(pool, bidMax)
<1>1. /\ call = Idle /\ buys' = SnapshotBuys /\ sells' = SnapshotSells
      /\ bidMax' = bb /\ askMin' = (IF ba = 0 THEN MaxPrice ELSE ba)
      /\ poolTop' = (IF poolTop < 1 THEN 1 ELSE poolTop) /\ call' = call
  BY DEF SnapshotRestore
<1>2. TypeOK /\ QueueOK /\ SizeOK /\ CallOK /\ CacheOK
  BY DEF IInv
<1>3. poolTop' = poolTop /\ bidMax \in Nat /\ askMin \in Nat
  BY <1>1, <1>2 DEF TypeOK
<1>4. /\ SnapshotBuys \in [Price -> Seq(OrderID)] /\ SnapshotSells \in [Price -> Seq(OrderID)]
      /\ \A p \in Price : Members(buys'[p]) \subseteq Members(buys[p])
      /\ \A p \in Price : Members(sells'[p]) \subseteq Members(sells[p])
  BY <1>1, <1>2, SnapshotProps
<1>5. FreeSlot \in Slot /\ FreeSlot.size + FreeSlot.qtyFilled < SizeMod /\ ~FreeSlot.active
  BY DEF FreeSlot, Slot, Size
<1>6. pool' = [x \in OrderID |-> pool'[x]]
  BY DEF SnapshotRestore
<1>7. ASSUME NEW x \in OrderID
      PROVE  /\ pool'[x] \in Slot /\ pool'[x].size + pool'[x].qtyFilled < SizeMod
             /\ (pool'[x].active => pool[x].active /\ pool'[x].price = pool[x].price)
  <2>2. pool[x] \in Slot /\ pool[x].size + pool[x].qtyFilled < SizeMod
    BY <1>2 DEF TypeOK, SizeOK
  <2>0. \/ pool'[x] = Reloaded(pool[x], "buy")
        \/ pool'[x] = Reloaded(pool[x], "sell")
        \/ pool'[x] = FreeSlot
    BY DEF SnapshotRestore
  <2>1. \/ pool'[x] = [pool[x] EXCEPT !.side = "buy"]
        \/ pool'[x] = [pool[x] EXCEPT !.side = "sell"]
        \/ pool'[x] = FreeSlot
    BY <2>2, <2>0, ReloadedSlot
  <2>3. CASE pool'[x] = [pool[x] EXCEPT !.side = "buy"]
    BY <2>2, <2>3 DEF Slot
  <2>4. CASE pool'[x] = [pool[x] EXCEPT !.side = "sell"]
    BY <2>2, <2>4 DEF Slot
  <2>5. CASE pool'[x] = FreeSlot
    BY <1>5, <2>5
  <2> QED BY <2>1, <2>3, <2>4, <2>5
<1>8. /\ bb \in 0 .. MaxPrice - 1 /\ bb <= bidMax
      /\ \A p \in Price : p <= bidMax /\ LiveBid(p) => p <= bb
  BY <1>3, BestBidProps DEF LiveBid
<1>9. /\ ba \in 0 .. MaxPrice - 1 /\ (ba # 0 => ba >= askMin)
      /\ \A p \in Price : p >= askMin /\ LiveAsk(p) => ba # 0 /\ p >= ba
  BY <1>3, BestAskProps DEF LiveAsk
<1> HIDE DEF ba, bb
<1>10. TypeOK'
  <2>1. pool' \in [OrderID -> Slot]
    BY <1>6, <1>7
  <2>2. askMin' \in 1 .. MaxPrice
    BY <1>1, <1>2, <1>9 DEF TypeOK
  <2> QED BY <1>1, <1>2, <1>3, <1>4, <1>8, <2>1, <2>2 DEF TypeOK
<1>11. QueueOK'
  BY <1>1, <1>2, <1>3, <1>4, <1>7, ShrinkKeepsQueues
<1>12. SizeOK' /\ CallOK'
  BY <1>1, <1>7 DEF SizeOK, CallOK
<1>13. Active(pool') \subseteq Active(pool)
  BY <1>7 DEF Active
<1>14. \A p \in Price : (LiveBid(p)' => LiveBid(p)) /\ (LiveAsk(p)' => LiveAsk(p))
  BY <1>4, <1>13 DEF LiveBid, LiveAsk
<1>15. Shrinks
  <2>1. bidMax' <= bidMax /\ askMin <= askMin'
    BY <1>1, <1>2, <1>3, <1>8, <1>9 DEF TypeOK
  <2>2. ASSUME NEW p \in Price, p <= bidMax, p > bidMax' PROVE ~LiveBid(p)'
    BY <2>2, <1>1, <1>8, <1>10, <1>14 DEF TypeOK, Price
  <2>3. ASSUME NEW p \in Price, p >= askMin, p < askMin' PROVE ~LiveAsk(p)'
    BY <2>3, <1>1, <1>9, <1>10, <1>14 DEF TypeOK, Price
  <2> QED BY <1>4, <1>13, <2>1, <2>2, <2>3 DEF Shrinks
<1>16. CacheOK'
  BY <1>2, <1>10, <1>15, ShrinkKeepsCache
<1> QED BY <1>10, <1>11, <1>12, <1>16 DEF IInv

-----------------------------------------------------------------------------
(* The theorems *)

(* Every step of the book keeps the inductive invariant. *)
LEMMA NextIInv == IInv /\ [Next]_vars => IInv'
<1> SUFFICES ASSUME IInv, [Next]_vars PROVE IInv'
  OBVIOUS
<1>1. CASE LimitBadPrice
  BY <1>1, QuietStep DEF LimitBadPrice
<1>2. CASE LimitPoolExhausted
  BY <1>2, QuietStep DEF LimitPoolExhausted
<1>3. CASE \E side \in {"buy", "sell"}, price \in Price, size \in Sizes :
             LimitStart(side, price, size)
  BY <1>3, LimitStartIInv
<1>4. CASE Step
  BY <1>4, MatchBuyEmptyLevelIInv, MatchBuyFillIInv, MatchSellEmptyLevelIInv,
     MatchSellFillIInv, LimitDoneIInv, RestBuyIInv, RestSellIInv DEF Step
<1>5. CASE \E id \in {none, poolTop} : CancelUnknown(id)
  BY <1>5, QuietStep DEF CancelUnknown
<1>6. CASE \E id \in OrderID : CancelInactive(id)
  BY <1>6, QuietStep DEF CancelInactive
<1>7. CASE \E id \in OrderID : CancelResting(id)
  BY <1>7, CancelRestingIInv
<1>8. CASE SnapshotRestore
  BY <1>8, SnapshotRestoreIInv
<1>9. CASE UNCHANGED vars
  BY <1>9, QuietStep DEF vars
<1> QED BY <1>1, <1>2, <1>3, <1>4, <1>5, <1>6, <1>7, <1>8, <1>9 DEF Next

(* The inductive invariant holds of every behaviour of the book. *)
THEOREM BookInvariant == Spec => []IInv
<1>1. Init => IInv
  BY InitIInv
<1>2. IInv /\ [Next]_vars => IInv'
  BY NextIInv
<1> QED BY <1>1, <1>2, PTL DEF Spec

(* Type correctness.  In particular the cached prices stay inside the      *)
(* level arrays and no uint32 quantity of a slot wraps around.             *)
THEOREM TypeCorrect == Spec => []TypeOK
<1>1. IInv => TypeOK
  BY DEF IInv
<1> QED BY <1>1, BookInvariant, PTL

(* The book is never crossed, whatever calls and restarts came before.     *)
THEOREM NeverCrossed == Spec => []NotCrossed
<1>1. IInv => NotCrossed
  <2> SUFFICES ASSUME IInv, NEW p \in Price, NEW q \in Price, LiveBid(p), LiveAsk(q)
               PROVE  p < q
    BY DEF NotCrossed
  <2>1. p <= bidMax /\ bidMax < askMin /\ q >= askMin
    BY DEF IInv, CacheOK
  <2> QED BY <2>1 DEF IInv, TypeOK, Price
<1> QED BY <1>1, BookInvariant, PTL

(* The scans that start at the cached prices find the best live prices.    *)
THEOREM BestPricesCorrect == Spec => []BestPricesExact
<1>1. IInv => BestPricesExact
  <2> SUFFICES ASSUME IInv PROVE BestPricesExact
    OBVIOUS
  <2>1. \A p \in Price : (LiveBid(p) => p <= bidMax) /\ (LiveAsk(p) => p >= askMin)
    BY DEF IInv, CacheOK
  <2>2. \A p \in Price : p <= MaxPrice /\ p >= 0
    BY DEF Price
  <2>3. BidPrices(pool, bidMax) = BidPrices(pool, MaxPrice)
    BY <2>1, <2>2 DEF BidPrices, LiveBid
  <2>4. AskPrices(pool, askMin) = AskPrices(pool, 0)
    BY <2>1, <2>2 DEF AskPrices, LiveAsk
  <2> QED BY <2>3, <2>4 DEF BestPricesExact, BestBid, BestAsk
<1> QED BY <1>1, BookInvariant, PTL

-----------------------------------------------------------------------------
(***************************************************************************)
(* The lists of the order book: every level is in order of arrival, no     *)
(* order is lost or linked twice, and a restart changes no live order, for *)
(* every number of prices and orders.                                      *)
(*                                                                         *)
(* The argument.  A step makes of a level one of six lists (Becomes), and  *)
(* each of them keeps the ids growing, because the order that is linked    *)
(* belongs to the running call and has the newest id (Newest).  Between    *)
(* calls every slot agrees with the lists (Linked): a fill unlinks the     *)
(* head of a level only when nothing is left of it, a level is given up    *)
(* only when nothing live is in it, and the walk of a snapshot, which      *)
(* starts at the best price, misses no live order because no live order is *)
(* beyond the cached prices (CacheOK of OrderBookProofs).                  *)
(***************************************************************************)

-----------------------------------------------------------------------------
(* Time priority *)

(* The order of the running call is the newest one. *)
Newest == call # Idle => call.id = poolTop - 1

(* What a step can make of the list q of a level. *)
Becomes(q, r) ==
  LET d == DropUntil(q, Active(pool))
  IN  \/ r = q
      \/ r = <<>>
      \/ r = d
      \/ d # <<>> /\ r = Tail(d)
      \/ call # Idle /\ r = Append(q, call.id)
      \/ r = KeepOnly(q, Active(pool))

(* Every step does one of these things to every level. *)
LEMMA LevelSteps ==
  ASSUME IInv, [Next]_vars, NEW p \in Price
  PROVE  Becomes(buys[p], buys'[p]) /\ Becomes(sells[p], sells'[p])
<1>1. TypeOK
  BY DEF IInv
<1>2. CASE buys' = buys /\ sells' = sells
  BY <1>2 DEF Becomes
<1>3. CASE MatchBuyEmptyLevel
  <2>1. buys' = buys /\ sells' = [sells EXCEPT ![askMin] = <<>>]
    BY <1>3 DEF MatchBuyEmptyLevel
  <2>2. sells'[p] = sells[p] \/ sells'[p] = <<>>
    BY <2>1, <1>1 DEF TypeOK
  <2> QED BY <2>1, <2>2 DEF Becomes
<1>4. CASE MatchSellEmptyLevel
  <2>1. sells' = sells /\ buys' = [buys EXCEPT ![bidMax] = <<>>]
    BY <1>4 DEF MatchSellEmptyLevel
  <2>2. buys'[p] = buys[p] \/ buys'[p] = <<>>
    BY <2>1, <1>1 DEF TypeOK
  <2> QED BY <2>1, <2>2 DEF Becomes
<1>5. CASE MatchBuyFill
  <2> DEFINE d == DropUntil(sells[askMin], Active(pool))
  <2>1. d # <<>> /\ buys' = buys /\ sells' = [sells EXCEPT ![askMin] = AfterFill(call.id, d)]
    BY <1>5 DEF MatchBuyFill
  <2>2. AfterFill(call.id, d) = d \/ AfterFill(call.id, d) = Tail(d)
    BY DEF AfterFill
  <2>3. sells'[p] = sells[p] \/ (p = askMin /\ sells'[p] = AfterFill(call.id, d))
    BY <2>1, <1>1 DEF TypeOK
  <2> QED BY <2>1, <2>2, <2>3 DEF Becomes
<1>6. CASE MatchSellFill
  <2> DEFINE d == DropUntil(buys[bidMax], Active(pool))
  <2>1. d # <<>> /\ sells' = sells /\ buys' = [buys EXCEPT ![bidMax] = AfterFill(call.id, d)]
    BY <1>6 DEF MatchSellFill
  <2>2. AfterFill(call.id, d) = d \/ AfterFill(call.id, d) = Tail(d)
    BY DEF AfterFill
  <2>3. buys'[p] = buys[p] \/ (p = bidMax /\ buys'[p] = AfterFill(call.id, d))
    BY <2>1, <1>1 DEF TypeOK
  <2> QED BY <2>1, <2>2, <2>3 DEF Becomes
<1>7. CASE RestBuy
  <2> DEFINE price == pool[call.id].price
  <2>1. /\ call # Idle /\ sells' = sells
        /\ buys' = [buys EXCEPT ![price] = Append(buys[price], call.id)]
    BY <1>7 DEF RestBuy, Idle
  <2>2. buys'[p] = buys[p] \/ (p = price /\ buys'[p] = Append(buys[p], call.id))
    BY <2>1, <1>1 DEF TypeOK
  <2> QED BY <2>1, <2>2 DEF Becomes
<1>8. CASE RestSell
  <2> DEFINE price == pool[call.id].price
  <2>1. /\ call # Idle /\ buys' = buys
        /\ sells' = [sells EXCEPT ![price] = Append(sells[price], call.id)]
    BY <1>8 DEF RestSell, Idle
  <2>2. sells'[p] = sells[p] \/ (p = price /\ sells'[p] = Append(sells[p], call.id))
    BY <2>1, <1>1 DEF TypeOK
  <2> QED BY <2>1, <2>2 DEF Becomes
<1>9. CASE SnapshotRestore
  BY <1>9 DEF SnapshotRestore, SnapshotBuys, SnapshotSells, Becomes
<1>10. \/ buys' = buys /\ sells' = sells
       \/ MatchBuyEmptyLevel \/ MatchSellEmptyLevel \/ MatchBuyFill \/ MatchSellFill
       \/ RestBuy \/ RestSell \/ SnapshotRestore
  BY DEF Next, Step, vars, LimitBadPrice, LimitPoolExhausted, LimitStart, LimitDone,
         CancelUnknown, CancelInactive, CancelResting
<1> QED BY <1>2, <1>3, <1>4, <1>5, <1>6, <1>7, <1>8, <1>9, <1>10

(* Each of them keeps a list of older orders in order of arrival. *)
LEMMA BecomesRising ==
  ASSUME TypeOK, NEW q \in Seq(OrderID), Rising(q), NEW r, Becomes(q, r),
         call # Idle => \A x \in Members(q) : x < call.id
  PROVE  Rising(r)
<1>1. q \in Seq(Nat)
  BY DEF OrderID
<1> DEFINE d == DropUntil(q, Active(pool))
<1>2. d \in Seq(Nat) /\ Rising(d)
  BY <1>1, DropUntilProps, DropUntilRising
<1>3. Rising(KeepOnly(q, Active(pool)))
  BY <1>1, KeepOnlyRising
<1>4. ASSUME call # Idle PROVE Rising(Append(q, call.id))
  <2>1. call.id \in Nat
    BY <1>4 DEF TypeOK, OrderID
  <2> QED BY <1>1, <1>4, <2>1, AppendRising
<1>5. Rising(<<>>)
  BY DEF Rising
<1> HIDE DEF d
<1>6. d # <<>> => Rising(Tail(d))
  BY <1>2, TailRising
<1> QED BY <1>2, <1>3, <1>4, <1>5, <1>6 DEF Becomes, d

(* The newest order stays the newest until its call returns. *)
LEMMA NewestKept == IInv /\ Newest /\ [Next]_vars => Newest'
<1> SUFFICES ASSUME IInv, Newest, [Next]_vars PROVE Newest'
  OBVIOUS
<1>1. poolTop \in Nat
  BY DEF IInv, TypeOK
<1>2. CASE \E side \in {"buy", "sell"}, price \in Price, size \in Sizes :
             LimitStart(side, price, size)
  BY <1>1, <1>2 DEF LimitStart, Newest
<1>3. CASE call' = Idle
  BY <1>3 DEF Newest
<1>4. CASE UNCHANGED <<call, poolTop>>
  BY <1>4 DEF Newest
<1>5. \/ \E side \in {"buy", "sell"}, price \in Price, size \in Sizes :
             LimitStart(side, price, size)
      \/ call' = Idle
      \/ UNCHANGED <<call, poolTop>>
  BY DEF Next, Step, vars, LimitBadPrice, LimitPoolExhausted, LimitDone, RestBuy, RestSell,
         MatchBuyEmptyLevel, MatchBuyFill, MatchSellEmptyLevel, MatchSellFill,
         CancelUnknown, CancelInactive, CancelResting, SnapshotRestore
<1> QED BY <1>2, <1>3, <1>4, <1>5

(* Time priority is kept by every step. *)
LEMMA NextTimePriority == IInv /\ Newest /\ TimePriority /\ [Next]_vars => TimePriority'
<1> SUFFICES ASSUME IInv, Newest, TimePriority, [Next]_vars, NEW p \in Price
             PROVE  Rising(buys'[p]) /\ Rising(sells'[p])
  BY DEF TimePriority, Rising
<1>1. TypeOK /\ QueueOK
  BY DEF IInv
<1>2. buys[p] \in Seq(OrderID) /\ sells[p] \in Seq(OrderID)
  BY <1>1 DEF TypeOK
<1>3. Rising(buys[p]) /\ Rising(sells[p])
  BY DEF TimePriority, Rising
<1>4. ASSUME call # Idle, NEW x \in Members(buys[p]) \cup Members(sells[p])
      PROVE  x < call.id
  <2>1. x \in OrderID
    BY <1>2 DEF Members
  <2>2. x < poolTop /\ x # call.id
    BY <1>1, <1>4 DEF QueueOK
  <2>3. call.id = poolTop - 1 /\ poolTop \in Nat
    BY <1>1, <1>4 DEF Newest, TypeOK
  <2> QED BY <2>1, <2>2, <2>3 DEF OrderID
<1>5. Becomes(buys[p], buys'[p]) /\ Becomes(sells[p], sells'[p])
  BY LevelSteps
<1>6. Rising(buys'[p])
  BY <1>1, <1>2, <1>3, <1>4, <1>5, BecomesRising
<1>7. Rising(sells'[p])
  BY <1>1, <1>2, <1>3, <1>4, <1>5, BecomesRising
<1> QED BY <1>6, <1>7

(* Every level is in order of arrival, after any sequence of fills, lazy    *)
(* deletions and restarts: an older order at a price trades first.          *)
THEOREM TimePriorityKept == Spec => []TimePriority
<1>1. Init => Newest /\ TimePriority
  BY DEF Init, Newest, TimePriority
<1>2. IInv /\ Newest /\ TimePriority /\ [Next]_vars => Newest' /\ TimePriority'
  BY NewestKept, NextTimePriority
<1> QED BY <1>1, <1>2, BookInvariant, PTL DEF Spec

-----------------------------------------------------------------------------
(* No order is lost *)

(* A live order is in lists of its own side only. *)
SidesOK ==
  \A p \in Price :
    /\ \A x \in Members(buys[p]) : pool[x].active => pool[x].side = "buy"
    /\ \A x \in Members(sells[p]) : pool[x].active => pool[x].side = "sell"

(* The slot of x and the lists agree: it is active while something is left *)
(* of it, and then it is linked under its side and price.                  *)
Kept(x) ==
  /\ pool[x].active <=> pool[x].size > 0
  /\ pool[x].active => pool[x].price \in Price
  /\ pool[x].active => \/ pool[x].side = "buy" /\ x \in Members(buys[pool[x].price])
                       \/ pool[x].side = "sell" /\ x \in Members(sells[pool[x].price])

(* That holds of every order but the one of the running call, which is not *)
(* linked yet.                                                             *)
Linked ==
  /\ SidesOK
  /\ \A x \in OrderID : (call # Idle => x # call.id) => Kept(x)
  /\ call # Idle => pool[call.id].side = call.phase /\ pool[call.id].active

(* A rejection, a bad cancel or a stuttering step. *)
LEMMA QuietLinked == Linked /\ UNCHANGED <<pool, buys, sells, call>> => Linked'
BY DEF Linked, SidesOK, Kept

(* The new order is the running call's and in no list. *)
LEMMA LimitStartLinked ==
  ASSUME IInv, Linked, NEW side \in {"buy", "sell"}, NEW price \in Price, NEW size \in Sizes,
         LimitStart(side, price, size)
  PROVE  Linked'
<1>1. /\ call = Idle /\ poolTop < MaxOrders
      /\ pool' = [pool EXCEPT ![poolTop] = Alloc(side, price, size)]
      /\ call'.id = poolTop /\ call'.phase = side
      /\ buys' = buys /\ sells' = sells
  BY DEF LimitStart
<1>2. TypeOK /\ QueueOK
  BY DEF IInv
<1>3. poolTop \in OrderID
  BY <1>1, <1>2 DEF TypeOK, OrderID
<1>4. pool'[poolTop].side = side /\ pool'[poolTop].active
  BY <1>1, <1>2, <1>3 DEF TypeOK, Alloc
<1>5. \A x \in OrderID : x # poolTop => pool'[x] = pool[x]
  BY <1>1, <1>2 DEF TypeOK
<1>6. ASSUME NEW p \in Price, NEW x \in Members(buys[p]) \cup Members(sells[p])
      PROVE  pool'[x] = pool[x]
  <2>1. x \in OrderID
    BY <1>2 DEF TypeOK, Members
  <2>2. x < poolTop
    BY <1>2 DEF QueueOK
  <2> QED BY <2>1, <2>2, <1>3, <1>5 DEF OrderID
<1>7. SidesOK'
  BY <1>1, <1>6 DEF Linked, SidesOK
<1>8. ASSUME NEW x \in OrderID, x # poolTop PROVE Kept(x)'
  BY <1>1, <1>5, <1>8 DEF Linked, Kept
<1>9. call' # Idle
  BY DEF LimitStart, Idle
<1> QED BY <1>1, <1>4, <1>7, <1>8, <1>9 DEF Linked

(* The loop leaves an empty level behind: nothing live was linked there. *)
LEMMA MatchBuyEmptyLevelLinked == IInv /\ Linked /\ MatchBuyEmptyLevel => Linked'
<1> SUFFICES ASSUME IInv, Linked, MatchBuyEmptyLevel PROVE Linked'
  OBVIOUS
<1>1. /\ DropUntil(sells[askMin], Active(pool)) = <<>>
      /\ sells' = [sells EXCEPT ![askMin] = <<>>]
      /\ UNCHANGED <<pool, buys, call>>
  BY DEF MatchBuyEmptyLevel
<1>2. TypeOK
  BY DEF IInv
<1>3. askMin \in Price /\ sells[askMin] \in Seq(OrderID)
  BY BuyReach DEF MatchBuyEmptyLevel
<1>4. Members(sells[askMin]) \cap Active(pool) = {}
  BY <1>1, <1>3, DropUntilProps
<1>5. sells'[askMin] = <<>> /\ \A p \in Price : p # askMin => sells'[p] = sells[p]
  BY <1>1, <1>2, <1>3 DEF TypeOK
<1>6. \A p \in Price : Members(sells'[p]) \subseteq Members(sells[p])
  BY <1>5 DEF Members
<1>7. SidesOK'
  BY <1>1, <1>6 DEF Linked, SidesOK
<1>8. ASSUME NEW x \in OrderID, Kept(x) PROVE Kept(x)'
  <2>1. pool[x].active /\ x \in Members(sells[pool[x].price]) => pool[x].price # askMin
    BY <1>4 DEF Active
  <2> QED BY <1>1, <1>5, <1>8, <2>1 DEF Kept
<1>9. \A x \in OrderID : (call' # Idle => x # call'.id) => Kept(x)'
  BY <1>1, <1>8 DEF Linked
<1> QED BY <1>1, <1>7, <1>9 DEF Linked

(* A fill unlinks the head of the level only when nothing is left of it.   *)
LEMMA MatchBuyFillLinked == IInv /\ Linked /\ MatchBuyFill => Linked'
<1> SUFFICES ASSUME IInv, Linked, MatchBuyFill PROVE Linked'
  OBVIOUS
<1> DEFINE q == DropUntil(sells[askMin], Active(pool))
           left == AfterFill(call.id, q)
           r == Head(q)
<1>1. /\ q # <<>> /\ Fill(call.id, r) /\ sells' = [sells EXCEPT ![askMin] = left]
      /\ UNCHANGED <<buys, call>>
  BY DEF MatchBuyFill
<1>2. TypeOK /\ QueueOK /\ SizeOK
  BY DEF IInv
<1>3. call # Idle /\ askMin \in Price /\ sells[askMin] \in Seq(OrderID)
  BY BuyReach DEF MatchBuyFill
<1>4. /\ q \in Seq(OrderID) /\ Members(q) \subseteq Members(sells[askMin])
      /\ r \in Active(pool) /\ Members(sells[askMin]) \cap Active(pool) \subseteq Members(q)
  BY <1>1, <1>3, DropUntilProps
<1>5. left = IF pool[call.id].size >= pool[r].size THEN Tail(q) ELSE q
  BY DEF AfterFill
<1> HIDE DEF q, left
<1>6. Members(q) = {r} \cup Members(Tail(q))
  BY <1>1, <1>4, MembersTail
<1> HIDE DEF r
<1>7. r \in Members(sells[askMin]) /\ r \in OrderID
  BY <1>4, <1>6 DEF Active
<1>8. pool[r].active /\ pool[r].price = askMin /\ r # call.id
  BY <1>2, <1>3, <1>4, <1>7 DEF QueueOK, Active
<1>9. call.id \in OrderID
  BY <1>3, RunningCall
<1>10. /\ \A x \in OrderID : pool'[x].price = pool[x].price
       /\ \A x \in OrderID : pool'[x].side = pool[x].side
       /\ \A x \in OrderID : pool'[x].active => pool[x].active
       /\ \A x \in OrderID : x # call.id /\ x # r => pool'[x] = pool[x]
       /\ pool'[call.id].active = pool[call.id].active
       /\ pool'[r].active = (pool'[r].size > 0)
       /\ pool[call.id].size >= pool[r].size <=> pool'[r].size = 0
  BY <1>1, <1>2, <1>3, <1>7, <1>8, <1>9, FillProps
<1>11. sells'[askMin] = left /\ \A p \in Price : p # askMin => sells'[p] = sells[p]
  BY <1>1, <1>2, <1>3 DEF TypeOK
<1>12. /\ Members(left) \subseteq Members(sells[askMin])
       /\ pool'[r].active => left = q
       /\ \A x \in Members(q) : x # r => x \in Members(left)
  <2>1. ASSUME pool'[r].active PROVE ~(pool[call.id].size >= pool[r].size)
    <3>1. pool'[r].size > 0
      BY <1>10, <2>1
    <3>2. pool'[r].size # 0
      BY <3>1
    <3> QED BY <1>10, <3>2
  <2>2. Members(left) \subseteq Members(q)
    BY <1>5, <1>6
  <2> QED BY <1>4, <1>5, <1>6, <2>1, <2>2
<1>13. \A p \in Price : Members(sells'[p]) \subseteq Members(sells[p])
  BY <1>11, <1>12
<1>14. \A p \in Price : Members(buys[p]) \subseteq OrderID /\ Members(sells[p]) \subseteq OrderID
  BY <1>2 DEF TypeOK, Members
<1>15. SidesOK'
  BY <1>1, <1>10, <1>13, <1>14 DEF Linked, SidesOK
<1>16. ASSUME NEW x \in OrderID, x # call.id, Kept(x) PROVE Kept(x)'
  <2>1. CASE x = r
    <3>1. r \in Members(q)
      BY <1>6
    <3>2. pool'[r].active => r \in Members(sells'[askMin])
      BY <1>11, <1>12, <3>1
    <3>3. pool[r].side = "sell"
      BY <1>3, <1>7, <1>8 DEF Linked, SidesOK
    <3> QED BY <2>1, <3>2, <3>3, <1>3, <1>8, <1>10 DEF Kept
  <2>2. CASE x # r
    <3>1. pool'[x] = pool[x]
      BY <1>10, <1>16, <2>2
    <3>2. ASSUME pool[x].active, pool[x].price = askMin, x \in Members(sells[askMin])
          PROVE  x \in Members(sells'[askMin])
      BY <3>2, <2>2, <1>4, <1>11, <1>12 DEF Active
    <3>3. \A p \in Price : pool[x].active /\ pool[x].price = p /\ x \in Members(sells[p])
                           => x \in Members(sells'[p])
      BY <3>2, <1>11
    <3> QED BY <1>1, <1>16, <3>1, <3>3 DEF Kept
  <2> QED BY <2>1, <2>2
<1>17. \A x \in OrderID : (call' # Idle => x # call'.id) => Kept(x)'
  BY <1>1, <1>3, <1>16 DEF Linked
<1>18. pool'[call.id].side = call.phase /\ pool'[call.id].active
  BY <1>3, <1>9, <1>10 DEF Linked
<1> QED BY <1>1, <1>15, <1>17, <1>18 DEF Linked

(* The loop leaves an empty level behind: nothing live was linked there. *)
LEMMA MatchSellEmptyLevelLinked == IInv /\ Linked /\ MatchSellEmptyLevel => Linked'
<1> SUFFICES ASSUME IInv, Linked, MatchSellEmptyLevel PROVE Linked'
  OBVIOUS
<1>1. /\ DropUntil(buys[bidMax], Active(pool)) = <<>>
      /\ buys' = [buys EXCEPT ![bidMax] = <<>>]
      /\ UNCHANGED <<pool, sells, call>>
  BY DEF MatchSellEmptyLevel
<1>2. TypeOK
  BY DEF IInv
<1>3. bidMax \in Price /\ buys[bidMax] \in Seq(OrderID)
  BY SellReach DEF MatchSellEmptyLevel
<1>4. Members(buys[bidMax]) \cap Active(pool) = {}
  BY <1>1, <1>3, DropUntilProps
<1>5. buys'[bidMax] = <<>> /\ \A p \in Price : p # bidMax => buys'[p] = buys[p]
  BY <1>1, <1>2, <1>3 DEF TypeOK
<1>6. \A p \in Price : Members(buys'[p]) \subseteq Members(buys[p])
  BY <1>5 DEF Members
<1>7. SidesOK'
  BY <1>1, <1>6 DEF Linked, SidesOK
<1>8. ASSUME NEW x \in OrderID, Kept(x) PROVE Kept(x)'
  <2>1. pool[x].active /\ x \in Members(buys[pool[x].price]) => pool[x].price # bidMax
    BY <1>4 DEF Active
  <2> QED BY <1>1, <1>5, <1>8, <2>1 DEF Kept
<1>9. \A x \in OrderID : (call' # Idle => x # call'.id) => Kept(x)'
  BY <1>1, <1>8 DEF Linked
<1> QED BY <1>1, <1>7, <1>9 DEF Linked

(* A fill unlinks the head of the level only when nothing is left of it.   *)
LEMMA MatchSellFillLinked == IInv /\ Linked /\ MatchSellFill => Linked'
<1> SUFFICES ASSUME IInv, Linked, MatchSellFill PROVE Linked'
  OBVIOUS
<1> DEFINE q == DropUntil(buys[bidMax], Active(pool))
           left == AfterFill(call.id, q)
           r == Head(q)
<1>1. /\ q # <<>> /\ Fill(call.id, r) /\ buys' = [buys EXCEPT ![bidMax] = left]
      /\ UNCHANGED <<sells, call>>
  BY DEF MatchSellFill
<1>2. TypeOK /\ QueueOK /\ SizeOK
  BY DEF IInv
<1>3. call # Idle /\ bidMax \in Price /\ buys[bidMax] \in Seq(OrderID)
  BY SellReach DEF MatchSellFill
<1>4. /\ q \in Seq(OrderID) /\ Members(q) \subseteq Members(buys[bidMax])
      /\ r \in Active(pool) /\ Members(buys[bidMax]) \cap Active(pool) \subseteq Members(q)
  BY <1>1, <1>3, DropUntilProps
<1>5. left = IF pool[call.id].size >= pool[r].size THEN Tail(q) ELSE q
  BY DEF AfterFill
<1> HIDE DEF q, left
<1>6. Members(q) = {r} \cup Members(Tail(q))
  BY <1>1, <1>4, MembersTail
<1> HIDE DEF r
<1>7. r \in Members(buys[bidMax]) /\ r \in OrderID
  BY <1>4, <1>6 DEF Active
<1>8. pool[r].active /\ pool[r].price = bidMax /\ r # call.id
  BY <1>2, <1>3, <1>4, <1>7 DEF QueueOK, Active
<1>9. call.id \in OrderID
  BY <1>3, RunningCall
<1>10. /\ \A x \in OrderID : pool'[x].price = pool[x].price
       /\ \A x \in OrderID : pool'[x].side = pool[x].side
       /\ \A x \in OrderID : pool'[x].active => pool[x].active
       /\ \A x \in OrderID : x # call.id /\ x # r => pool'[x] = pool[x]
       /\ pool'[call.id].active = pool[call.id].active
       /\ pool'[r].active = (pool'[r].size > 0)
       /\ pool[call.id].size >= pool[r].size <=> pool'[r].size = 0
  BY <1>1, <1>2, <1>3, <1>7, <1>8, <1>9, FillProps
<1>11. buys'[bidMax] = left /\ \A p \in Price : p # bidMax => buys'[p] = buys[p]
  BY <1>1, <1>2, <1>3 DEF TypeOK
<1>12. /\ Members(left) \subseteq Members(buys[bidMax])
       /\ pool'[r].active => left = q
       /\ \A x \in Members(q) : x # r => x \in Members(left)
  <2>1. ASSUME pool'[r].active PROVE ~(pool[call.id].size >= pool[r].size)
    <3>1. pool'[r].size > 0
      BY <1>10, <2>1
    <3>2. pool'[r].size # 0
      BY <3>1
    <3> QED BY <1>10, <3>2
  <2>2. Members(left) \subseteq Members(q)
    BY <1>5, <1>6
  <2> QED BY <1>4, <1>5, <1>6, <2>1, <2>2
<1>13. \A p \in Price : Members(buys'[p]) \subseteq Members(buys[p])
  BY <1>11, <1>12
<1>14. \A p \in Price : Members(buys[p]) \subseteq OrderID /\ Members(sells[p]) \subseteq OrderID
  BY <1>2 DEF TypeOK, Members
<1>15. SidesOK'
  BY <1>1, <1>10, <1>13, <1>14 DEF Linked, SidesOK
<1>16. ASSUME NEW x \in OrderID, x # call.id, Kept(x) PROVE Kept(x)'
  <2>1. CASE x = r
    <3>1. r \in Members(q)
      BY <1>6
    <3>2. pool'[r].active => r \in Members(buys'[bidMax])
      BY <1>11, <1>12, <3>1
    <3>3. pool[r].side = "buy"
      BY <1>3, <1>7, <1>8 DEF Linked, SidesOK
    <3> QED BY <2>1, <3>2, <3>3, <1>3, <1>8, <1>10 DEF Kept
  <2>2. CASE x # r
    <3>1. pool'[x] = pool[x]
      BY <1>10, <1>16, <2>2
    <3>2. ASSUME pool[x].active, pool[x].price = bidMax, x \in Members(buys[bidMax])
          PROVE  x \in Members(buys'[bidMax])
      BY <3>2, <2>2, <1>4, <1>11, <1>12 DEF Active
    <3>3. \A p \in Price : pool[x].active /\ pool[x].price = p /\ x \in Members(buys[p])
                           => x \in Members(buys'[p])
      BY <3>2, <1>11
    <3> QED BY <1>1, <1>16, <3>1, <3>3 DEF Kept
  <2> QED BY <2>1, <2>2
<1>17. \A x \in OrderID : (call' # Idle => x # call'.id) => Kept(x)'
  BY <1>1, <1>3, <1>16 DEF Linked
<1>18. pool'[call.id].side = call.phase /\ pool'[call.id].active
  BY <1>3, <1>9, <1>10 DEF Linked
<1> QED BY <1>1, <1>15, <1>17, <1>18 DEF Linked

(* What is left of the order is linked under its own side and price.       *)
LEMMA RestBuyLinked == IInv /\ Linked /\ RestBuy => Linked'
<1> SUFFICES ASSUME IInv, Linked, RestBuy PROVE Linked'
  OBVIOUS
<1> DEFINE price == pool[call.id].price
<1>1. /\ call.phase = "buy" /\ pool[call.id].size > 0
      /\ buys' = [buys EXCEPT ![price] = Append(buys[price], call.id)]
      /\ UNCHANGED <<pool, sells>> /\ call' = Idle
  BY DEF RestBuy
<1>2. TypeOK
  BY DEF IInv
<1>3. call # Idle
  BY <1>1 DEF Idle
<1>4. call.id \in OrderID /\ price \in Price
  BY <1>3, RunningCall
<1>5. pool[call.id].side = "buy" /\ pool[call.id].active
  BY <1>1, <1>3 DEF Linked
<1> HIDE DEF price
<1>6. /\ buys'[price] = Append(buys[price], call.id)
      /\ \A p \in Price : p # price => buys'[p] = buys[p]
  BY <1>1, <1>2, <1>4 DEF TypeOK
<1>7. buys[price] \in Seq(OrderID)
  BY <1>2, <1>4 DEF TypeOK
<1>8. Members(buys'[price]) = Members(buys[price]) \cup {call.id}
  BY <1>4, <1>6, <1>7, MembersAppend
<1>9. SidesOK'
  <2>1. ASSUME NEW p \in Price, NEW x \in Members(buys'[p]), pool[x].active
        PROVE  pool[x].side = "buy"
    <3>1. x \in Members(buys[p]) \/ x = call.id
      BY <1>6, <1>8
    <3> QED BY <2>1, <3>1, <1>5 DEF Linked, SidesOK
  <2> QED BY <2>1, <1>1 DEF Linked, SidesOK
<1>10. ASSUME NEW x \in OrderID, x = call.id PROVE Kept(x)'
  BY <1>1, <1>4, <1>5, <1>8, <1>10 DEF Kept, price
<1>11. ASSUME NEW x \in OrderID, Kept(x) PROVE Kept(x)'
  <2>1. \A p \in Price : x \in Members(buys[p]) => x \in Members(buys'[p])
    BY <1>6, <1>8
  <2> QED BY <1>1, <1>11, <2>1 DEF Kept
<1>12. \A x \in OrderID : Kept(x)'
  BY <1>10, <1>11 DEF Linked
<1> QED BY <1>1, <1>9, <1>12 DEF Linked

(* What is left of the order is linked under its own side and price.       *)
LEMMA RestSellLinked == IInv /\ Linked /\ RestSell => Linked'
<1> SUFFICES ASSUME IInv, Linked, RestSell PROVE Linked'
  OBVIOUS
<1> DEFINE price == pool[call.id].price
<1>1. /\ call.phase = "sell" /\ pool[call.id].size > 0
      /\ sells' = [sells EXCEPT ![price] = Append(sells[price], call.id)]
      /\ UNCHANGED <<pool, buys>> /\ call' = Idle
  BY DEF RestSell
<1>2. TypeOK
  BY DEF IInv
<1>3. call # Idle
  BY <1>1 DEF Idle
<1>4. call.id \in OrderID /\ price \in Price
  BY <1>3, RunningCall
<1>5. pool[call.id].side = "sell" /\ pool[call.id].active
  BY <1>1, <1>3 DEF Linked
<1> HIDE DEF price
<1>6. /\ sells'[price] = Append(sells[price], call.id)
      /\ \A p \in Price : p # price => sells'[p] = sells[p]
  BY <1>1, <1>2, <1>4 DEF TypeOK
<1>7. sells[price] \in Seq(OrderID)
  BY <1>2, <1>4 DEF TypeOK
<1>8. Members(sells'[price]) = Members(sells[price]) \cup {call.id}
  BY <1>4, <1>6, <1>7, MembersAppend
<1>9. SidesOK'
  <2>1. ASSUME NEW p \in Price, NEW x \in Members(sells'[p]), pool[x].active
        PROVE  pool[x].side = "sell"
    <3>1. x \in Members(sells[p]) \/ x = call.id
      BY <1>6, <1>8
    <3> QED BY <2>1, <3>1, <1>5 DEF Linked, SidesOK
  <2> QED BY <2>1, <1>1 DEF Linked, SidesOK
<1>10. ASSUME NEW x \in OrderID, x = call.id PROVE Kept(x)'
  BY <1>1, <1>4, <1>5, <1>8, <1>10 DEF Kept, price
<1>11. ASSUME NEW x \in OrderID, Kept(x) PROVE Kept(x)'
  <2>1. \A p \in Price : x \in Members(sells[p]) => x \in Members(sells'[p])
    BY <1>6, <1>8
  <2> QED BY <1>1, <1>11, <2>1 DEF Kept
<1>12. \A x \in OrderID : Kept(x)'
  BY <1>10, <1>11 DEF Linked
<1> QED BY <1>1, <1>9, <1>12 DEF Linked

(* An order that ends, used up by its own call or cancelled, keeps its      *)
(* place in a list and has nothing left.                                    *)
LEMMA EndedLinked ==
  ASSUME TypeOK, Linked, NEW id \in OrderID, UNCHANGED <<buys, sells>>, call' = Idle,
         call # Idle => id = call.id,
         \A x \in OrderID : x # id => pool'[x] = pool[x],
         pool'[id].size = 0, ~pool'[id].active
  PROVE  Linked'
<1>1. \A p \in Price : Members(buys[p]) \subseteq OrderID /\ Members(sells[p]) \subseteq OrderID
  BY DEF TypeOK, Members
<1>2. SidesOK'
  BY <1>1 DEF Linked, SidesOK
<1>3. Kept(id)'
  BY DEF Kept
<1>4. ASSUME NEW x \in OrderID, x # id PROVE Kept(x)'
  BY <1>4 DEF Linked, Kept
<1> QED BY <1>2, <1>3, <1>4 DEF Linked

(* The order was used up: its slot is closed when the call returns. *)
LEMMA LimitDoneLinked == IInv /\ Linked /\ LimitDone => Linked'
<1> SUFFICES ASSUME IInv, Linked, LimitDone PROVE Linked'
  OBVIOUS
<1>1. TypeOK /\ call # Idle /\ call' = Idle /\ UNCHANGED <<buys, sells>>
      /\ pool[call.id].size = 0 /\ pool' = [pool EXCEPT ![call.id].active = FALSE]
  BY DEF IInv, LimitDone
<1>2. call.id \in OrderID
  BY <1>1, RunningCall
<1>3. \A x \in OrderID : x # call.id => pool'[x] = pool[x]
  BY <1>1 DEF TypeOK
<1>4. pool'[call.id] = [pool[call.id] EXCEPT !.active = FALSE] /\ pool[call.id] \in Slot
  BY <1>1, <1>2 DEF TypeOK
<1>5. pool'[call.id].size = 0 /\ ~pool'[call.id].active
  BY <1>1, <1>4 DEF Slot
<1> QED BY <1>1, <1>2, <1>3, <1>5, EndedLinked

(* The order was cancelled. *)
LEMMA CancelRestingLinked ==
  ASSUME IInv, Linked, NEW id \in OrderID, CancelResting(id)
  PROVE  Linked'
<1>1. /\ TypeOK /\ call = Idle /\ call' = Idle /\ UNCHANGED <<buys, sells>>
      /\ pool' = [pool EXCEPT ![id].active = FALSE, ![id].size = 0]
  BY DEF IInv, CancelResting
<1>2. \A x \in OrderID : x # id => pool'[x] = pool[x]
  BY <1>1 DEF TypeOK
<1>3. pool'[id] = [pool[id] EXCEPT !.active = FALSE, !.size = 0] /\ pool[id] \in Slot
  BY <1>1 DEF TypeOK
<1>4. pool'[id].size = 0 /\ ~pool'[id].active
  BY <1>3 DEF Slot
<1> QED BY <1>1, <1>2, <1>4, EndedLinked

(* A restart brings every live order back to the slot it had: its list is  *)
(* no worse than the best price, so the snapshot's walk reaches it.        *)
LEMMA RestoredSlots ==
  ASSUME IInv, Linked, SnapshotRestore, NEW x \in OrderID
  PROVE  IF pool[x].active
         THEN /\ pool'[x] = pool[x]
              /\ \/ pool[x].side = "buy" /\ x \in Members(buys'[pool[x].price])
                 \/ pool[x].side = "sell" /\ x \in Members(sells'[pool[x].price])
         ELSE pool'[x] = FreeSlot
<1> DEFINE inBuys == \E p \in Price : x \in Members(SnapshotBuys[p])
           inSells == \E p \in Price : x \in Members(SnapshotSells[p])
<1>1. /\ call = Idle /\ buys' = SnapshotBuys /\ sells' = SnapshotSells
      /\ pool'[x] = IF inBuys THEN Reloaded(pool[x], "buy")
                    ELSE IF inSells THEN Reloaded(pool[x], "sell") ELSE FreeSlot
  BY DEF SnapshotRestore
<1>2. TypeOK /\ CacheOK
  BY DEF IInv
<1>3. /\ \A p \in Price : Members(SnapshotBuys[p]) \subseteq Members(buys[p]) \cap Active(pool)
      /\ \A p \in Price : Members(SnapshotSells[p]) \subseteq Members(sells[p]) \cap Active(pool)
  BY <1>2, SnapshotProps
<1>4. pool[x] \in Slot
  BY <1>2 DEF TypeOK
<1>5. CASE ~pool[x].active
  <2>1. ~inBuys /\ ~inSells
    BY <1>3, <1>5 DEF Active
  <2> HIDE DEF inBuys, inSells
  <2> QED BY <2>1, <1>1, <1>5
<1>6. CASE pool[x].active
  <2> DEFINE p == pool[x].price
  <2>1. Kept(x)
    BY <1>1 DEF Linked
  <2>2. p \in Price
    BY <1>6, <2>1 DEF Kept
  <2>3. x \in Active(pool)
    BY <1>6 DEF Active
  <2>4. buys[p] \in Seq(OrderID) /\ sells[p] \in Seq(OrderID) /\ bidMax \in Nat /\ askMin \in Nat
    BY <1>2, <2>2 DEF TypeOK
  <2>5. CASE pool[x].side = "buy"
    <3>1. x \in Members(buys[p])
      BY <1>6, <2>1, <2>5 DEF Kept
    <3>2. LiveBid(p)
      BY <2>3, <3>1 DEF LiveBid
    <3>3. p <= bidMax
      BY <2>2, <3>2, <1>2 DEF CacheOK
    <3>4. p <= BestBid(pool, bidMax)
      BY <2>2, <2>4, <3>2, <3>3, BestBidProps DEF LiveBid
    <3>5. SnapshotBuys[p] = KeepOnly(buys[p], Active(pool))
      BY <2>2, <3>4 DEF SnapshotBuys
    <3>6. x \in Members(SnapshotBuys[p])
      BY <2>3, <2>4, <3>1, <3>5, KeepOnlyProps
    <3>7. inBuys
      BY <2>2, <3>6
    <3>8. pool'[x] = [pool[x] EXCEPT !.side = "buy"]
      BY <1>1, <1>4, <3>7, ReloadedSlot
    <3>9. pool'[x] = pool[x]
      BY <1>4, <2>5, <3>8 DEF Slot
    <3> QED BY <1>1, <1>6, <2>5, <3>6, <3>9
  <2>6. CASE pool[x].side = "sell"
    <3>1. x \in Members(sells[p])
      BY <1>6, <2>1, <2>6 DEF Kept
    <3>2. LiveAsk(p)
      BY <2>3, <3>1 DEF LiveAsk
    <3>3. p >= askMin
      BY <2>2, <3>2, <1>2 DEF CacheOK
    <3>4. BestAsk(pool, askMin) # 0 /\ p >= BestAsk(pool, askMin)
      BY <2>2, <2>4, <3>2, <3>3, BestAskProps DEF LiveAsk
    <3>5. SnapshotSells[p] = KeepOnly(sells[p], Active(pool))
      BY <2>2, <3>4 DEF SnapshotSells
    <3>6. x \in Members(SnapshotSells[p])
      BY <2>3, <2>4, <3>1, <3>5, KeepOnlyProps
    <3>7. inSells
      BY <2>2, <3>6
    <3>8. ~inBuys
      <4>1. ASSUME NEW b \in Price, x \in Members(SnapshotBuys[b]) PROVE FALSE
        <5>1. x \in Members(buys[b])
          BY <4>1, <1>3
        <5> QED BY <5>1, <1>6, <2>6 DEF Linked, SidesOK
      <4> QED BY <4>1
    <3>9. pool'[x] = [pool[x] EXCEPT !.side = "sell"]
      BY <1>1, <1>4, <3>7, <3>8, ReloadedSlot
    <3>10. pool'[x] = pool[x]
      BY <1>4, <2>6, <3>9 DEF Slot
    <3> QED BY <1>1, <1>6, <2>6, <3>6, <3>10
  <2> QED BY <1>6, <2>1, <2>5, <2>6 DEF Kept
<1> QED BY <1>5, <1>6

(* So the restored lists and slots agree. *)
LEMMA SnapshotRestoreLinked == IInv /\ Linked /\ SnapshotRestore => Linked'
<1> SUFFICES ASSUME IInv, Linked, SnapshotRestore PROVE Linked'
  OBVIOUS
<1>1. call = Idle /\ call' = Idle /\ buys' = SnapshotBuys /\ sells' = SnapshotSells /\ TypeOK
  BY DEF SnapshotRestore, IInv
<1>2. /\ \A p \in Price : Members(buys'[p]) \subseteq Members(buys[p]) \cap Active(pool)
      /\ \A p \in Price : Members(sells'[p]) \subseteq Members(sells[p]) \cap Active(pool)
  BY <1>1, SnapshotProps
<1>3. \A x \in Active(pool) : pool'[x] = pool[x]
  BY RestoredSlots DEF Active
<1>4. SidesOK'
  BY <1>2, <1>3 DEF Linked, SidesOK
<1>5. ~FreeSlot.active /\ FreeSlot.size = 0
  BY DEF FreeSlot
<1>6. ASSUME NEW x \in OrderID PROVE Kept(x)'
  <2>1. CASE pool[x].active
    <3>1. Kept(x)
      BY <1>1 DEF Linked
    <3>2. pool'[x] = pool[x]
      BY <2>1, RestoredSlots
    <3>3. \/ pool[x].side = "buy" /\ x \in Members(buys'[pool[x].price])
          \/ pool[x].side = "sell" /\ x \in Members(sells'[pool[x].price])
      BY <2>1, RestoredSlots
    <3> QED BY <2>1, <3>1, <3>2, <3>3 DEF Kept
  <2>2. CASE ~pool[x].active
    <3>1. pool'[x] = FreeSlot
      BY <2>2, RestoredSlots
    <3> QED BY <1>5, <3>1 DEF Kept
  <2> QED BY <2>1, <2>2
<1> QED BY <1>1, <1>4, <1>6 DEF Linked

(* Every step keeps slots and lists in agreement. *)
LEMMA NextLinked == IInv /\ Linked /\ [Next]_vars => Linked'
<1> SUFFICES ASSUME IInv, Linked, [Next]_vars PROVE Linked'
  OBVIOUS
<1>1. CASE UNCHANGED <<pool, buys, sells, call>>
  BY <1>1, QuietLinked
<1>2. CASE \E side \in {"buy", "sell"}, price \in Price, size \in Sizes :
             LimitStart(side, price, size)
  BY <1>2, LimitStartLinked
<1>3. CASE Step
  BY <1>3, MatchBuyEmptyLevelLinked, MatchBuyFillLinked, MatchSellEmptyLevelLinked,
     MatchSellFillLinked, LimitDoneLinked, RestBuyLinked, RestSellLinked DEF Step
<1>4. CASE \E id \in OrderID : CancelResting(id)
  BY <1>4, CancelRestingLinked
<1>5. CASE SnapshotRestore
  BY <1>5, SnapshotRestoreLinked
<1>6. \/ UNCHANGED <<pool, buys, sells, call>>
      \/ \E side \in {"buy", "sell"}, price \in Price, size \in Sizes :
             LimitStart(side, price, size)
      \/ Step
      \/ \E id \in OrderID : CancelResting(id)
      \/ SnapshotRestore
  BY DEF Next, vars, LimitBadPrice, LimitPoolExhausted, CancelUnknown, CancelInactive
<1> QED BY <1>1, <1>2, <1>3, <1>4, <1>5, <1>6

(* Slots and lists agree in every behaviour of the book. *)
LEMMA BookLinked == Spec => []Linked
<1>1. Init => Linked
  <2> SUFFICES ASSUME Init PROVE Linked
    OBVIOUS
  <2>1. call = Idle /\ \A p \in Price : Members(buys[p]) = {} /\ Members(sells[p]) = {}
    BY DEF Init, Members
  <2>2. \A x \in OrderID : ~pool[x].active /\ pool[x].size = 0
    BY DEF Init, FreeSlot
  <2> QED BY <2>1, <2>2 DEF Linked, SidesOK, Kept
<1>2. IInv /\ Linked /\ [Next]_vars => Linked'
  BY NextLinked
<1> QED BY <1>1, <1>2, BookInvariant, PTL DEF Spec

(* A restart changes no live order: what the snapshot wrote and Restore     *)
(* read back are the same orders, and no other slot is live.                *)
THEOREM RestoreKeepsOrders ==
  Spec => [][SnapshotRestore =>
               /\ Active(pool') = Active(pool)
               /\ \A x \in Active(pool) : pool'[x] = pool[x]]_vars
<1>1. ASSUME IInv, Linked, SnapshotRestore
      PROVE  /\ Active(pool') = Active(pool)
             /\ \A x \in Active(pool) : pool'[x] = pool[x]
  <2>1. \A x \in OrderID : pool[x].active => pool'[x] = pool[x]
    BY <1>1, RestoredSlots
  <2>2. \A x \in OrderID : ~pool[x].active => ~pool'[x].active
    BY <1>1, RestoredSlots DEF FreeSlot
  <2> QED BY <2>1, <2>2 DEF Active
<1> QED BY <1>1, BookInvariant, BookLinked, PTL DEF Spec

(* No order is lost or linked twice.  That a linked order occurs once in    *)
(* its list is time priority; that it is in one list only is the price and  *)
(* the side of its slot.                                                    *)
THEOREM NoOrderEverLost == Spec => []NoOrderLost
<1>1. ASSUME IInv, TimePriority, Linked PROVE NoOrderLost
  <2> SUFFICES ASSUME call = Idle, NEW id \in OrderID
               PROVE  /\ pool[id].active <=> pool[id].size > 0
                      /\ pool[id].active => \E i \in 1 .. MaxOrders :
                           Places(id) = {<<pool[id].side, pool[id].price, i>>}
    BY DEF NoOrderLost
  <2>1. TypeOK /\ QueueOK /\ SidesOK /\ Kept(id)
    BY <1>1 DEF IInv, Linked
  <2>2. pool[id].active <=> pool[id].size > 0
    BY <2>1 DEF Kept
  <2>3. ASSUME pool[id].active
        PROVE  \E i \in 1 .. MaxOrders : Places(id) = {<<pool[id].side, pool[id].price, i>>}
    <3> DEFINE side == pool[id].side
               price == pool[id].price
               List(at) == IF at[1] = "buy" THEN buys[at[2]] ELSE sells[at[2]]
               q == IF side = "buy" THEN buys[price] ELSE sells[price]
    <3>1. price \in Price /\ side \in {"buy", "sell"} /\ id \in Members(q)
      BY <2>1, <2>3 DEF Kept
    <3>2. q \in Seq(OrderID) /\ Rising(q)
      BY <2>1, <3>1, <1>1 DEF TypeOK, TimePriority, Rising
    <3>3. PICK i \in 1 .. Len(q) : q[i] = id
      BY <3>1, <3>2 DEF Members
    <3>4. q \in Seq(Nat \ {0})
      BY <3>2 DEF OrderID
    <3> HIDE DEF q
    <3>5. i <= id /\ \A j \in 1 .. Len(q) : q[j] = id => j = i
      BY <3>2, <3>3, <3>4, RisingPositions
    <3>6. i \in 1 .. MaxOrders /\ i <= Len(q)
      BY <3>2, <3>3, <3>5 DEF OrderID
    <3>7. ASSUME NEW s \in {"buy", "sell"}, NEW p \in Price, NEW j \in 1 .. MaxOrders,
                 j <= Len(IF s = "buy" THEN buys[p] ELSE sells[p]),
                 (IF s = "buy" THEN buys[p] ELSE sells[p])[j] = id
          PROVE  s = side /\ p = price /\ j = i
      <4>1. buys[p] \in Seq(OrderID) /\ sells[p] \in Seq(OrderID)
        BY <2>1 DEF TypeOK
      <4>2. CASE s = "buy"
        <5>1. j \in 1 .. Len(buys[p]) /\ buys[p][j] = id
          BY <3>7, <4>1, <4>2
        <5>2. id \in Members(buys[p])
          BY <4>1, <5>1 DEF Members
        <5>3. side = "buy" /\ price = p
          BY <5>2, <2>1, <2>3 DEF SidesOK, QueueOK
        <5>4. q = buys[p]
          BY <5>3 DEF q
        <5> QED BY <4>2, <5>1, <5>3, <5>4, <3>5
      <4>3. CASE s = "sell"
        <5>1. j \in 1 .. Len(sells[p]) /\ sells[p][j] = id
          BY <3>7, <4>1, <4>3
        <5>2. id \in Members(sells[p])
          BY <4>1, <5>1 DEF Members
        <5>3. side = "sell" /\ price = p
          BY <5>2, <2>1, <2>3 DEF SidesOK, QueueOK
        <5>4. q = sells[p]
          BY <5>3 DEF q
        <5> QED BY <4>3, <5>1, <5>3, <5>4, <3>5
      <4> QED BY <4>2, <4>3
    <3>8. Places(id) = {<<side, price, i>>}
      <4>1. ASSUME NEW at \in Places(id) PROVE at = <<side, price, i>>
        <5>1. /\ at \in {"buy", "sell"} \X Price \X (1 .. MaxOrders)
              /\ at[3] <= Len(IF at[1] = "buy" THEN buys[at[2]] ELSE sells[at[2]])
              /\ (IF at[1] = "buy" THEN buys[at[2]] ELSE sells[at[2]])[at[3]] = id
          BY DEF Places
        <5>2. /\ at[1] \in {"buy", "sell"} /\ at[2] \in Price /\ at[3] \in 1 .. MaxOrders
              /\ at = <<at[1], at[2], at[3]>>
          BY <5>1
        <5>3. at[1] = side /\ at[2] = price /\ at[3] = i
          BY <5>1, <5>2, <3>7
        <5> QED BY <5>2, <5>3
      <4>2. <<side, price, i>> \in Places(id)
        BY <3>1, <3>3, <3>6 DEF Places, q
      <4> QED BY <4>1, <4>2
    <3> QED BY <3>6, <3>8
  <2> QED BY <2>2, <2>3
<1> QED BY <1>1, BookInvariant, BookLinked, TimePriorityKept, PTL

-----------------------------------------------------------------------------
(***************************************************************************)
(* The abstract book.                                                      *)
(***************************************************************************)

(* Division with remainder. *)
LEMMA DivMod ==
  ASSUME NEW a \in Int, NEW m \in Nat, m > 0
  PROVE  a = m * (a \div m) + (a % m) /\ a % m \in 0 .. m - 1 /\ a \div m \in Int
OBVIOUS

(* A multiple of m that lies strictly between -m and m is zero. *)
LEMMA NoMultiple ==
  ASSUME NEW m \in Nat, NEW d \in Int, m > 0, m * d < m, m * d > -m
  PROVE  d = 0
<1>1. CASE d >= 1
  <2>1. m * d >= m
    BY <1>1
  <2> QED BY <2>1
<1>2. CASE d <= -1
  <2>1. m * d <= -m
    BY <1>2
  <2> QED BY <2>1
<1> QED BY <1>1, <1>2

(* A counter that moves by less than its modulus shows every move: why     *)
(* comparing two quantities modulo 2^32 is as good as comparing them.      *)
LEMMA ModuloTells ==
  ASSUME NEW a \in Int, NEW b \in Int, NEW m \in Nat, m > 0,
         a % m = (b % m), a - b < m, b - a < m
  PROVE  a = b
<1> DEFINE p == a \div m
           q == b \div m
<1>1. a = m * p + (a % m) /\ p \in Int /\ a % m \in Int
  BY DivMod
<1>2. b = m * q + (b % m) /\ q \in Int /\ b % m \in Int
  BY DivMod
<1> HIDE DEF p, q
<1>3. a - b = m * (p - q)
  BY <1>1, <1>2
<1>4. p - q = 0
  BY <1>3, <1>1, <1>2, NoMultiple
<1> QED BY <1>3, <1>4, <1>1, <1>2

(* A number below m that differs from a by a multiple of m is the          *)
(* remainder of a.                                                         *)
LEMMA ModuloUnique ==
  ASSUME NEW a \in Int, NEW m \in Nat, m > 0, NEW p \in Int, NEW r \in 0 .. m - 1, a = m * p + r
  PROVE  a % m = r
<1> DEFINE q == a \div m
           s == a % m
<1>1. a = m * q + s /\ s \in 0 .. m - 1 /\ q \in Int
  BY DivMod
<1> HIDE DEF q, s
<1> DEFINE d == q - p
<1>2. d \in Int /\ m * d = r - s
  BY <1>1
<1> HIDE DEF d
<1>3. d = 0
  BY <1>1, <1>2, NoMultiple
<1>4. r = s
  BY <1>1, <1>2, <1>3
<1> QED BY <1>4 DEF s

(* A sum that is reduced at every addition is the sum reduced once. *)
LEMMA ModuloPlus ==
  ASSUME NEW a \in Int, NEW b \in Int, NEW m \in Nat, m > 0
  PROVE  ((a % m) + b) % m = (a + b) % m
<1> DEFINE c == (a % m) + b
           p == a \div m
           q == c \div m
           r == c % m
<1>1. a = m * p + (a % m) /\ p \in Int /\ a % m \in Int
  BY DivMod
<1>2. c \in Int
  BY <1>1
<1>3. c = m * q + r /\ q \in Int /\ r \in 0 .. m - 1
  BY <1>2, DivMod
<1>4. a + b = m * p + c
  BY <1>1
<1> HIDE DEF c, p, q, r
<1>5. a + b = m * (p + q) + r /\ p + q \in Int /\ a + b \in Int
  BY <1>1, <1>3, <1>4
<1>6. (a + b) % m = r
  BY <1>5, <1>3, ModuloUnique
<1> QED BY <1>6 DEF c, r

-----------------------------------------------------------------------------
(* Sums over the order ids *)

(* g are the partial sums of the weights w. *)
Sums(g, w) ==
  /\ g \in [0 .. MaxOrders - 1 -> Int]
  /\ g[0] = 0
  /\ \A r \in OrderID : g[r] = g[r - 1] + w[r]

(* Partial sums of integers exist: the walk from 0 that adds one weight at *)
(* a time.                                                                 *)
LEMMA IntWalkExists ==
  \A N \in Nat : \A st \in [1 .. N -> [Int -> Int]] :
    \E f \in [0 .. N -> Int] : f[0] = 0 /\ \A n \in 1 .. N : f[n] = st[n][f[n-1]]
<1> DEFINE P(V) == 0 \in V => \A N \in Nat : \A st \in [1 .. N -> [V -> V]] :
                     \E f \in [0 .. N -> V] : f[0] = 0 /\ \A n \in 1 .. N : f[n] = st[n][f[n-1]]
<1>1. \A V : P(V)
  BY ZeroWalkExists
<1> HIDE DEF P
<1>2. P(Int)
  BY <1>1
<1>3. 0 \in Int
  OBVIOUS
<1> QED BY <1>2, <1>3, Zenon DEF P

(* Every weighting of the ids has partial sums. *)
LEMMA SumsExist ==
  ASSUME NEW w \in [OrderID -> Int]
  PROVE  \E g : Sums(g, w)
<1> DEFINE N == MaxOrders - 1
           st == [n \in 1 .. N |-> [v \in Int |-> v + w[n]]]
<1>1. N \in Nat /\ OrderID = 1 .. N
  BY MaxOrdersAssumption DEF OrderID
<1>2. st \in [1 .. N -> [Int -> Int]]
  BY <1>1
<1>3. PICK f \in [0 .. N -> Int] : f[0] = 0 /\ \A n \in 1 .. N : f[n] = st[n][f[n-1]]
  <2>1. N \in Nat
    BY <1>1
  <2> HIDE DEF st, N
  <2> QED BY <2>1, <1>2, IntWalkExists
<1>4. \A n \in 1 .. N : f[n] = f[n-1] + w[n]
  <2> TAKE n \in 1 .. N
  <2>1. n - 1 \in 0 .. N
    BY <1>1
  <2>2. f[n-1] \in Int
    <3> HIDE DEF N
    <3> QED BY <2>1
  <2> QED BY <1>3, <2>2
<1> QED BY <1>1, <1>3, <1>4 DEF Sums

(* The weights w and v differ at most at r. *)
DifferAt(r, w, v) ==
  /\ r \in OrderID /\ w \in [OrderID -> Int] /\ v \in [OrderID -> Int]
  /\ \A x \in OrderID : x # r => w[x] = v[x]

(* Then their sums differ by as much. *)
LEMMA SumsDiffer ==
  ASSUME NEW w, NEW v, NEW g, NEW h, NEW r, Sums(g, w), Sums(h, v), DifferAt(r, w, v)
  PROVE  g[MaxOrders - 1] - h[MaxOrders - 1] = w[r] - v[r]
<1> DEFINE N == MaxOrders - 1
           Diff(n) == IF n < r THEN 0 ELSE w[r] - v[r]
           T == {n \in 0 .. N : g[n] - h[n] # Diff(n)}
<1>0. /\ r \in OrderID /\ w \in [OrderID -> Int] /\ v \in [OrderID -> Int]
      /\ \A x \in OrderID : x # r => w[x] = v[x]
  BY DEF DifferAt
<1>1. N \in Nat /\ OrderID = 1 .. N
  BY MaxOrdersAssumption DEF OrderID
<1>2. /\ g \in [0 .. N -> Int] /\ h \in [0 .. N -> Int] /\ g[0] = 0 /\ h[0] = 0
      /\ \A x \in 1 .. N : g[x] = g[x-1] + w[x] /\ h[x] = h[x-1] + v[x]
  BY <1>1 DEF Sums
<1>3. T = {}
  <2> SUFFICES ASSUME T # {} PROVE FALSE
    OBVIOUS
  <2>1. PICK k \in T : \A n \in T : k <= n
    <3>1. T \in SUBSET Nat
      OBVIOUS
    <3> HIDE DEF T
    <3> QED BY <3>1, NatMin
  <2>2. k # 0
    BY <2>1, <1>0, <1>1, <1>2
  <2>3. k \in 1 .. N /\ k - 1 \in 0 .. N /\ k - 1 \notin T
    BY <2>1, <2>2, <1>1
  <2>4. g[k-1] - h[k-1] = Diff(k-1)
    BY <2>3
  <2>5. g[k] - h[k] = Diff(k-1) + (w[k] - v[k])
    <3>1. g[k-1] \in Int /\ h[k-1] \in Int /\ w[k] \in Int /\ v[k] \in Int
      BY <1>0, <1>1, <1>2, <2>3
    <3>2. g[k] = g[k-1] + w[k] /\ h[k] = h[k-1] + v[k]
      BY <1>2, <2>3
    <3> HIDE DEF Diff
    <3> QED BY <3>1, <3>2, <2>4
  <2>6. w[k] \in Int /\ v[k] \in Int /\ w[r] \in Int /\ v[r] \in Int
    BY <1>0, <1>1, <2>3
  <2>7. g[k] - h[k] = Diff(k)
    <3>1. CASE k = r
      BY <3>1, <2>5, <2>6, <1>0, <1>1
    <3>2. CASE k # r
      <4>1. w[k] - v[k] = 0
        BY <3>2, <2>3, <2>6, <1>0, <1>1
      <4>2. k < r <=> k - 1 < r
        BY <3>2, <2>3, <1>0, <1>1
      <4> QED BY <4>1, <4>2, <2>5, <2>6
    <3> QED BY <3>1, <3>2
  <2> QED BY <2>1, <2>7
<1>4. N \in 0 .. N /\ ~(N < r)
  BY <1>0, <1>1
<1>5. g[N] - h[N] = Diff(N)
  BY <1>3, <1>4
<1> QED BY <1>4, <1>5

(* Equal weights have equal sums. *)
LEMMA SumsEqual ==
  ASSUME NEW w \in [OrderID -> Int], NEW g, NEW h, Sums(g, w), Sums(h, w)
  PROVE  g[MaxOrders - 1] = h[MaxOrders - 1]
<1>1. CASE OrderID = {}
  <2>1. MaxOrders - 1 = 0
    BY <1>1, MaxOrdersAssumption DEF OrderID
  <2> QED BY <2>1 DEF Sums
<1>2. CASE OrderID # {}
  <2>1. PICK r \in OrderID : TRUE
    BY <1>2
  <2>2. g[MaxOrders - 1] - h[MaxOrders - 1] = w[r] - w[r]
    <3>1. DifferAt(r, w, w)
      BY <2>1 DEF DifferAt
    <3> QED BY <3>1, SumsDiffer
  <2>3. g[MaxOrders - 1] \in Int /\ h[MaxOrders - 1] \in Int /\ w[r] \in Int
    BY MaxOrdersAssumption DEF Sums
  <2> QED BY <2>2, <2>3
<1> QED BY <1>1, <1>2

(* Nothing adds up to nothing. *)
LEMMA SumsZero ==
  ASSUME NEW w \in [OrderID -> Int], \A x \in OrderID : w[x] = 0, NEW g, Sums(g, w)
  PROVE  g[MaxOrders - 1] = 0
<1> DEFINE z == [n \in 0 .. MaxOrders - 1 |-> 0]
<1>1. Sums(z, w)
  BY MaxOrdersAssumption DEF Sums, OrderID
<1>2. z[MaxOrders - 1] = 0
  BY MaxOrdersAssumption
<1> HIDE DEF z
<1> QED BY <1>1, <1>2, SumsEqual

(* Sums of natural numbers are natural. *)
LEMMA SumsNat ==
  ASSUME NEW w \in [OrderID -> Nat], NEW g, Sums(g, w)
  PROVE  g[MaxOrders - 1] \in Nat
<1> DEFINE N == MaxOrders - 1
           T == {n \in 0 .. N : g[n] \notin Nat}
<1>1. N \in Nat /\ OrderID = 1 .. N
  BY MaxOrdersAssumption DEF OrderID
<1>2. /\ g \in [0 .. N -> Int] /\ g[0] = 0
      /\ \A x \in 1 .. N : g[x] = g[x-1] + w[x]
  BY <1>1 DEF Sums
<1>3. T = {}
  <2> SUFFICES ASSUME T # {} PROVE FALSE
    OBVIOUS
  <2>1. PICK k \in T : \A n \in T : k <= n
    <3>1. T \in SUBSET Nat
      OBVIOUS
    <3> HIDE DEF T
    <3> QED BY <3>1, NatMin
  <2>2. k # 0
    BY <2>1, <1>1, <1>2
  <2>3. k \in 1 .. N /\ k - 1 \in 0 .. N /\ k - 1 \notin T
    BY <2>1, <2>2, <1>1
  <2>4. g[k-1] \in Nat /\ w[k] \in Nat /\ g[k] = g[k-1] + w[k]
    BY <2>3, <1>1, <1>2
  <2> QED BY <2>1, <2>4
<1> QED BY <1>1, <1>3

-----------------------------------------------------------------------------
(* Books and their levels *)

(* What a book may hold. *)
OrderType == [side : {"buy", "sell"}, price : Price, size : 1 .. SizeMod - 1,
              qtyFilled : Size, fills : Seq(Match)]

BookOK(book) == DOMAIN book \subseteq OrderID /\ book \in [DOMAIN book -> OrderType]

(* What every id adds to the quantity of a side at price p. *)
Weights(book, side, p) ==
  [r \in OrderID |-> IF r \in Book!On(book, side) /\ book[r].price = p THEN book[r].size ELSE 0]

(* Sizes of a well-formed book are natural numbers. *)
LEMMA WeightsType ==
  ASSUME NEW book, BookOK(book), NEW side, NEW p
  PROVE  Weights(book, side, p) \in [OrderID -> Nat]
<1>1. ASSUME NEW r \in OrderID, r \in Book!On(book, side) PROVE book[r].size \in Nat
  <2>1. r \in DOMAIN book
    BY <1>1 DEF Book!On
  <2>2. book[r] \in OrderType
    BY <2>1 DEF BookOK
  <2> QED BY <2>2, SizeModAssumption DEF OrderType
<1> QED BY <1>1 DEF Weights

(* The quantity of a level is the last partial sum of its weights. *)
LEMMA LevelIsSum ==
  ASSUME NEW book, BookOK(book), NEW side, NEW p
  PROVE  \E g : Sums(g, Weights(book, side, p)) /\ Book!Level(book, side, p) = g[MaxOrders - 1]
<1> DEFINE N == MaxOrders - 1
           w == Weights(book, side, p)
           size(r) == IF r \in Book!On(book, side) /\ book[r].price = p THEN book[r].size ELSE 0
           body(f) == [r \in 0 .. N |-> IF r = 0 THEN 0 ELSE f[r - 1] + size(r)]
           sum == CHOOSE f : f = body(f)
<1>1. N \in Nat /\ OrderID = 1 .. N
  BY MaxOrdersAssumption DEF OrderID
<1>2. w \in [OrderID -> Nat] /\ w \in [OrderID -> Int]
  BY WeightsType
<1>3. \A r \in 1 .. N : w[r] = size(r)
  BY <1>1 DEF Weights
<1> HIDE DEF w, size
<1>4. PICK f : Sums(f, w)
  BY <1>2, SumsExist
<1>5. /\ f \in [0 .. N -> Int] /\ f[0] = 0
      /\ \A r \in 1 .. N : f[r] = f[r - 1] + w[r]
  BY <1>1, <1>4 DEF Sums
<1>6. f = body(f)
  <2>1. \A r \in 0 .. N : f[r] = body(f)[r]
    BY <1>1, <1>3, <1>5
  <2> QED BY <2>1, <1>5
<1>7. sum = body(sum)
  <2> HIDE DEF body
  <2> QED BY <1>6
<1>8. Book!Level(book, side, p) = sum[N]
  BY DEF Book!Level, size, sum
<1> HIDE DEF sum
<1>9. sum[0] = 0 /\ \A r \in 1 .. N : sum[r] = sum[r - 1] + w[r]
  <2>1. \A r \in 0 .. N : sum[r] = body(sum)[r]
    BY <1>7
  <2>2. sum[0] = 0
    BY <2>1, <1>1
  <2>3. ASSUME NEW r \in 1 .. N PROVE sum[r] = sum[r - 1] + w[r]
    <3>1. r \in 0 .. N /\ r # 0
      BY <1>1
    <3>2. sum[r] = body(sum)[r]
      BY <2>1, <3>1
    <3> QED BY <3>1, <3>2, <1>3
  <2> QED BY <2>2, <2>3
<1> DEFINE T == {n \in 0 .. N : sum[n] # f[n]}
<1>10. T = {}
  <2> SUFFICES ASSUME T # {} PROVE FALSE
    OBVIOUS
  <2>1. PICK k \in T : \A n \in T : k <= n
    <3>1. T \in SUBSET Nat
      OBVIOUS
    <3> HIDE DEF T
    <3> QED BY <3>1, NatMin
  <2>2. k # 0
    BY <2>1, <1>5, <1>9
  <2>3. k \in 1 .. N /\ k - 1 \in 0 .. N /\ k - 1 \notin T
    BY <2>1, <2>2, <1>1
  <2>4. sum[k-1] = f[k-1]
    BY <2>3
  <2>5. sum[k] = sum[k-1] + w[k] /\ f[k] = f[k-1] + w[k]
    BY <2>3, <1>5, <1>9
  <2> QED BY <2>1, <2>4, <2>5
<1>11. sum[N] = f[N]
  BY <1>1, <1>10
<1> QED BY <1>4, <1>8, <1>11 DEF w

(* The quantity the code accumulates along a list in order of arrival is   *)
(* the sum over the live ids of the list, reduced once.                    *)
LEMMA SumModuloIsSum ==
  ASSUME NEW q \in Seq(OrderID), Rising(q), NEW A, NEW w \in [OrderID -> Nat], NEW m \in Nat, m >= 1,
         NEW v \in [OrderID -> Nat],
         \A x \in OrderID : v[x] = IF x \in Members(q) \cap A THEN w[x] ELSE 0,
         NEW g, Sums(g, v)
  PROVE  SumModulo(q, A, w, m) = g[MaxOrders - 1] % m
<1> DEFINE N == Len(q)
           E == MaxOrders - 1
           part(n) == [x \in OrderID |-> IF x \in {q[i] : i \in 1 .. n} \cap A THEN w[x] ELSE 0]
           Good(n, s) == \A h : Sums(h, part(n)) => s = h[E] % m
<1>1. N \in Nat /\ \A n \in 1 .. N : q[n] \in OrderID
  OBVIOUS
<1>2. PICK sum : Accumulates(sum, q, A, w, m)
  BY SumModuloWalk
<1>3. /\ sum[0] = 0
      /\ \A n \in 1 .. N : sum[n] = IF q[n] \in A THEN (sum[n-1] + w[q[n]]) % m ELSE sum[n-1]
      /\ SumModulo(q, A, w, m) = sum[N]
  BY <1>2 DEF Accumulates
<1>4. ASSUME NEW n \in 0 .. N PROVE part(n) \in [OrderID -> Nat] /\ part(n) \in [OrderID -> Int]
  OBVIOUS
<1>5. Good(0, sum[0])
  <2> SUFFICES ASSUME NEW h, Sums(h, part(0)) PROVE 0 = h[E] % m
    BY <1>3
  <2>1. \A x \in OrderID : part(0)[x] = 0
    OBVIOUS
  <2>2. part(0) \in [OrderID -> Int]
    BY <1>1, <1>4
  <2> HIDE DEF part
  <2>3. h[E] = 0
    BY <2>1, <2>2, SumsZero
  <2> QED BY <2>3
<1>6. ASSUME NEW n \in 1 .. N, Good(n - 1, sum[n-1]) PROVE Good(n, sum[n])
  <2> SUFFICES ASSUME NEW h, Sums(h, part(n)) PROVE sum[n] = h[E] % m
    OBVIOUS
  <2>0. n - 1 \in 0 .. N /\ n \in 0 .. N
    BY <1>1
  <2>1. part(n) \in [OrderID -> Int] /\ part(n - 1) \in [OrderID -> Int]
    BY <1>4, <2>0
  <2>2. PICK k : Sums(k, part(n - 1))
    <3> HIDE DEF part
    <3> QED BY <2>1, SumsExist
  <2>3. sum[n-1] = k[E] % m
    BY <1>6, <2>2
  <2>4. q[n] \in OrderID /\ w[q[n]] \in Nat
    BY <1>1
  <2>5. \A i \in 1 .. n - 1 : q[i] # q[n]
    <3> TAKE i \in 1 .. n - 1
    <3>1. i \in 1 .. N /\ i < n
      BY <1>1
    <3>2. q[i] < q[n] /\ q[i] \in OrderID
      BY <3>1, <1>1 DEF Rising
    <3>3. \A a, b \in OrderID : a < b => a # b
      BY DEF OrderID
    <3> QED BY <3>2, <3>3, <2>4
  <2>6. {q[i] : i \in 1 .. n} = {q[i] : i \in 1 .. n - 1} \cup {q[n]}
    <3>1. \A i : i \in 1 .. n <=> i \in 1 .. n - 1 \/ i = n
      BY <1>1
    <3> QED BY <3>1
  <2>7. \A x \in OrderID : x # q[n] => part(n)[x] = part(n - 1)[x]
    BY <2>6
  <2>8. /\ part(n - 1)[q[n]] = 0
        /\ part(n)[q[n]] = IF q[n] \in A THEN w[q[n]] ELSE 0
    BY <2>4, <2>5, <2>6
  <2>9. h[E] - k[E] = part(n)[q[n]] - part(n - 1)[q[n]]
    <3> DEFINE a == part(n)
               b == part(n - 1)
               r == q[n]
    <3>1. DifferAt(r, a, b) /\ Sums(h, a) /\ Sums(k, b)
      <4> HIDE DEF part
      <4> QED BY <2>1, <2>2, <2>4, <2>7 DEF DifferAt
    <3> HIDE DEF a, b, r
    <3>2. h[E] - k[E] = a[r] - b[r]
      BY <3>1, SumsDiffer
    <3> QED BY <3>2 DEF a, b, r
  <2>10. h[E] \in Int /\ k[E] \in Int
    <3> HIDE DEF part
    <3> QED BY <2>2, MaxOrdersAssumption DEF Sums
  <2> HIDE DEF part
  <2>11. CASE q[n] \in A
    <3>1. h[E] = k[E] + w[q[n]]
      BY <2>4, <2>8, <2>9, <2>10, <2>11
    <3>2. sum[n] = (sum[n-1] + w[q[n]]) % m
      BY <1>3, <2>11
    <3>3. ((k[E] % m) + w[q[n]]) % m = (k[E] + w[q[n]]) % m
      <4> DEFINE a == k[E]
                 b == w[q[n]]
      <4>1. a \in Int /\ b \in Int /\ m > 0
        BY <2>4, <2>10
      <4> HIDE DEF a, b
      <4>2. ((a % m) + b) % m = (a + b) % m
        BY <4>1, ModuloPlus
      <4> QED BY <4>2 DEF a, b
    <3> QED BY <3>1, <3>2, <3>3, <2>3
  <2>12. CASE q[n] \notin A
    <3>1. h[E] = k[E]
      BY <2>8, <2>9, <2>10, <2>12
    <3> QED BY <3>1, <2>3, <2>12, <1>3
  <2> QED BY <2>11, <2>12
<1> HIDE DEF Good
<1> DEFINE T == {n \in 0 .. N : ~Good(n, sum[n])}
<1>7. T = {}
  <2> SUFFICES ASSUME T # {} PROVE FALSE
    OBVIOUS
  <2>1. PICK k \in T : \A n \in T : k <= n
    <3>1. T \in SUBSET Nat
      OBVIOUS
    <3> HIDE DEF T
    <3> QED BY <3>1, NatMin
  <2>2. k # 0
    BY <2>1, <1>5
  <2>3. k \in 1 .. N /\ k - 1 \in 0 .. N /\ k - 1 \notin T
    BY <2>1, <2>2, <1>1
  <2> QED BY <2>1, <2>3, <1>6
<1>8. Good(N, sum[N])
  BY <1>1, <1>7
<1>9. part(N) = v
  <2>1. DOMAIN q = 1 .. N
    OBVIOUS
  <2>2. {q[i] : i \in 1 .. N} = Members(q)
    BY <2>1 DEF Members
  <2> QED BY <2>2
<1>10. sum[N] = g[E] % m
  <2> HIDE DEF part
  <2> QED BY <1>8, <1>9 DEF Good
<1> QED BY <1>3, <1>10

(* The quantity of a level is a natural number. *)
LEMMA LevelNat ==
  ASSUME NEW book, BookOK(book), NEW side, NEW p
  PROVE  Book!Level(book, side, p) \in Nat
<1>1. PICK g : Sums(g, Weights(book, side, p)) /\ Book!Level(book, side, p) = g[MaxOrders - 1]
  BY LevelIsSum
<1>2. Weights(book, side, p) \in [OrderID -> Nat]
  BY WeightsType
<1> QED BY <1>1, <1>2, SumsNat

(* Nobody offers anything at a price at which no order rests. *)
LEMMA LevelEmpty ==
  ASSUME NEW book, BookOK(book), NEW side, NEW p,
         \A r \in Book!On(book, side) : book[r].price # p
  PROVE  Book!Level(book, side, p) = 0
<1> DEFINE w == Weights(book, side, p)
<1>1. PICK g : Sums(g, w) /\ Book!Level(book, side, p) = g[MaxOrders - 1]
  BY LevelIsSum
<1>2. w \in [OrderID -> Int] /\ \A x \in OrderID : w[x] = 0
  <2>1. w \in [OrderID -> Nat]
    BY WeightsType
  <2> QED BY <2>1 DEF Weights
<1> HIDE DEF w
<1> QED BY <1>1, <1>2, SumsZero

(* Two books that differ at most in order r. *)
SameBut(r, old, new) ==
  /\ BookOK(old) /\ BookOK(new) /\ r \in OrderID
  /\ \A x \in OrderID : x # r => /\ x \in DOMAIN old <=> x \in DOMAIN new
                                 /\ x \in DOMAIN old => old[x] = new[x]

(* When one order changes, a level moves by what that order adds to it. *)
LEMMA LevelMoves ==
  ASSUME NEW old, NEW new, NEW r, SameBut(r, old, new), NEW side, NEW p
  PROVE  Book!Level(old, side, p) - Book!Level(new, side, p)
           = Weights(old, side, p)[r] - Weights(new, side, p)[r]
<1> DEFINE w == Weights(old, side, p)
           v == Weights(new, side, p)
<1>1. w \in [OrderID -> Nat] /\ v \in [OrderID -> Nat]
  BY WeightsType DEF SameBut
<1>2. PICK g : Sums(g, w) /\ Book!Level(old, side, p) = g[MaxOrders - 1]
  BY LevelIsSum DEF SameBut
<1>3. PICK h : Sums(h, v) /\ Book!Level(new, side, p) = h[MaxOrders - 1]
  BY LevelIsSum DEF SameBut
<1>4. DifferAt(r, w, v)
  <2>1. ASSUME NEW x \in OrderID, x # r PROVE w[x] = v[x]
    <3>1. x \in DOMAIN old <=> x \in DOMAIN new
      BY <2>1 DEF SameBut
    <3>2. x \in DOMAIN old => old[x] = new[x]
      BY <2>1 DEF SameBut
    <3> QED BY <3>1, <3>2 DEF Weights, Book!On
  <2>2. r \in OrderID
    BY DEF SameBut
  <2> HIDE DEF w, v
  <2> QED BY <2>1, <2>2, <1>1 DEF DifferAt
<1> HIDE DEF w, v
<1>5. g[MaxOrders - 1] - h[MaxOrders - 1] = w[r] - v[r]
  BY <1>2, <1>3, <1>4, SumsDiffer
<1> QED BY <1>2, <1>3, <1>5 DEF w, v

(* The best price is that of a resting order, and none beats it. *)
LEMMA BestProps ==
  ASSUME NEW book, BookOK(book), NEW side \in {"buy", "sell"}
  PROVE  IF Book!On(book, side) = {} THEN Book!Best(book, side) = 0
         ELSE /\ \E r \in Book!On(book, side) : Book!Best(book, side) = book[r].price
              /\ \A r \in Book!On(book, side) : ~Book!Beats(side, book[r].price, Book!Best(book, side))
<1> DEFINE S == Book!On(book, side)
           P == {book[r].price : r \in S}
<1>1. CASE S = {}
  <2>1. P = {}
    BY <1>1
  <2> QED BY <1>1, <2>1 DEF Book!Best
<1>2. CASE S # {}
  <2>1. P # {}
    BY <1>2
  <2>2. P \in SUBSET Price
    <3>1. \A r \in S : book[r].price \in Price
      BY DEF Book!On, BookOK, OrderType
    <3> QED BY <3>1
  <2>3. \E p \in P : \A q \in P : ~Book!Beats(side, q, p)
    <3> HIDE DEF P
    <3>1. P \in SUBSET Nat /\ P \in SUBSET (0 .. MaxPrice) /\ MaxPrice \in Nat
      BY <2>2 DEF Price
    <3>2. CASE side = "buy"
      <4>1. PICK p \in P : \A q \in P : q <= p
        BY <2>1, <3>1, NatMax
      <4>2. \A q \in P : ~(q > p)
        BY <4>1, <3>1
      <4> QED BY <3>2, <4>1, <4>2 DEF Book!Beats
    <3>3. CASE side = "sell"
      <4>1. PICK p \in P : \A q \in P : p <= q
        BY <2>1, <3>1, NatMin
      <4>2. \A q \in P : ~(q < p)
        BY <4>1, <3>1
      <4> QED BY <3>3, <4>1, <4>2 DEF Book!Beats
    <3> QED BY <3>2, <3>3
  <2>4. Book!Best(book, side) = CHOOSE p \in P : \A q \in P : ~Book!Beats(side, q, p)
    BY <2>1 DEF Book!Best
  <2>5. Book!Best(book, side) \in P /\ \A q \in P : ~Book!Beats(side, q, Book!Best(book, side))
    <3> HIDE DEF P
    <3> QED BY <2>3, <2>4
  <2> QED BY <1>2, <2>5
<1> QED BY <1>1, <1>2

-----------------------------------------------------------------------------
(* What the code computes from its lists is what the abstract book shows *)

(* Between calls the live orders are a well-formed book. *)
LEMMA VisibleOK ==
  ASSUME IInv, Linked, call = Idle
  PROVE  /\ BookOK(Visible)
         /\ DOMAIN Visible = Active(pool)
         /\ \A x \in Active(pool) : /\ Visible[x] = Order(pool[x])
                                    /\ Visible[x].price = pool[x].price
                                    /\ Visible[x].side = pool[x].side
                                    /\ Visible[x].size = pool[x].size
<1>1. \A x \in OrderID : Kept(x)
  BY DEF Linked
<1>2. \A x \in OrderID : pool[x] \in Slot
  BY DEF IInv, TypeOK
<1>3. ASSUME NEW x \in Active(pool) PROVE Order(pool[x]) \in OrderType
  <2>1. x \in OrderID /\ pool[x].active
    BY DEF Active
  <2>2. pool[x].size > 0 /\ pool[x].price \in Price /\ pool[x].side \in {"buy", "sell"}
    BY <2>1, <1>1 DEF Kept
  <2>3. pool[x].size \in Size /\ pool[x].qtyFilled \in Size /\ pool[x].fills \in Seq(Match)
    BY <2>1, <1>2 DEF Slot
  <2>4. pool[x].size \in 1 .. SizeMod - 1
    BY <2>2, <2>3 DEF Size
  <2> QED BY <2>2, <2>3, <2>4 DEF Order, OrderType
<1>4. DOMAIN Visible = Active(pool) /\ \A x \in Active(pool) : Visible[x] = Order(pool[x])
  BY DEF Visible
<1>5. BookOK(Visible)
  <2>1. Active(pool) \subseteq OrderID
    BY DEF Active
  <2>2. Visible \in [Active(pool) -> OrderType]
    BY <1>3 DEF Visible
  <2> QED BY <2>1, <2>2, <1>4 DEF BookOK
<1> QED BY <1>4, <1>5 DEF Order

(* The live orders linked at a price are the visible ones of that price. *)
LEMMA LinkedAreVisible ==
  ASSUME IInv, Linked, call = Idle, NEW p \in Price
  PROVE  /\ Members(buys[p]) \cap Active(pool)
              = {r \in Book!On(Visible, "buy") : Visible[r].price = p}
         /\ Members(sells[p]) \cap Active(pool)
              = {r \in Book!On(Visible, "sell") : Visible[r].price = p}
<1>1. /\ DOMAIN Visible = Active(pool)
      /\ \A x \in Active(pool) : Visible[x].price = pool[x].price /\ Visible[x].side = pool[x].side
  BY VisibleOK
<1>2. QueueOK /\ SidesOK /\ \A x \in OrderID : Kept(x)
  BY DEF IInv, Linked
<1>3. \A x \in Active(pool) : x \in OrderID /\ pool[x].active
  BY DEF Active
<1>4. ASSUME NEW x \in Active(pool)
      PROVE  x \in Members(buys[p]) <=> Visible[x].side = "buy" /\ Visible[x].price = p
  <2>1. x \in Members(buys[p]) => pool[x].side = "buy" /\ pool[x].price = p
    BY <1>2, <1>3 DEF QueueOK, SidesOK
  <2>2. pool[x].side = "buy" /\ pool[x].price = p => x \in Members(buys[p])
    BY <1>2, <1>3 DEF Kept
  <2> QED BY <2>1, <2>2, <1>1
<1>5. ASSUME NEW x \in Active(pool)
      PROVE  x \in Members(sells[p]) <=> Visible[x].side = "sell" /\ Visible[x].price = p
  <2>1. x \in Members(sells[p]) => pool[x].side = "sell" /\ pool[x].price = p
    BY <1>2, <1>3 DEF QueueOK, SidesOK
  <2>2. pool[x].side = "sell" /\ pool[x].price = p => x \in Members(sells[p])
    BY <1>2, <1>3 DEF Kept
  <2> QED BY <2>1, <2>2, <1>1
<1> QED BY <1>1, <1>4, <1>5 DEF Book!On

(* The quantity of a level, of either side. *)
LEMMA LevelQuantity ==
  ASSUME IInv, Linked, call = Idle, NEW p \in Price, NEW side \in {"buy", "sell"},
         NEW q \in Seq(OrderID), Rising(q),
         Members(q) \cap Active(pool) = {r \in Book!On(Visible, side) : Visible[r].price = p}
  PROVE  SumModulo(q, Active(pool), SizeOf(pool), SizeMod) = Book!Level(Visible, side, p) % SizeMod
<1> DEFINE w == SizeOf(pool)
           v == Weights(Visible, side, p)
           A == Active(pool)
<1>1. BookOK(Visible) /\ DOMAIN Visible = A /\ \A x \in A : Visible[x].size = pool[x].size
  BY VisibleOK
<1>2. PICK g : Sums(g, v) /\ Book!Level(Visible, side, p) = g[MaxOrders - 1]
  BY <1>1, LevelIsSum
<1>3. v \in [OrderID -> Nat]
  BY <1>1, WeightsType
<1>4. w \in [OrderID -> Nat]
  BY DEF SizeOf, IInv, TypeOK, Slot, Size
<1>5. \A x \in OrderID : v[x] = IF x \in Members(q) \cap A THEN w[x] ELSE 0
  <2> TAKE x \in OrderID
  <2>1. v[x] = IF x \in Book!On(Visible, side) /\ Visible[x].price = p THEN Visible[x].size ELSE 0
    BY DEF Weights
  <2>2. x \in Members(q) \cap A <=> x \in Book!On(Visible, side) /\ Visible[x].price = p
    OBVIOUS
  <2>3. x \in Members(q) \cap A => Visible[x].size = w[x]
    BY <1>1 DEF SizeOf
  <2> HIDE DEF v, w
  <2> QED BY <2>1, <2>2, <2>3
<1> HIDE DEF v, w, A
<1>6. SumModulo(q, A, w, SizeMod) = g[MaxOrders - 1] % SizeMod
  BY <1>2, <1>3, <1>4, <1>5, SumModuloIsSum
<1> QED BY <1>2, <1>6 DEF w, A

(* The scans from the cached prices find the best prices of the book. *)
LEMMA BestPricesVisible ==
  ASSUME IInv, Linked, call = Idle
  PROVE  /\ BestBid(pool, bidMax) = Book!Best(Visible, "buy")
         /\ BestAsk(pool, askMin) = Book!Best(Visible, "sell")
<1>1. BookOK(Visible)
  BY VisibleOK
<1>2. CacheOK /\ bidMax \in Nat /\ askMin \in Nat
  BY DEF IInv, TypeOK
<1>3. \A side : \A r \in Book!On(Visible, side) : Visible[r].price \in Price
  BY <1>1 DEF BookOK, Book!On, OrderType
<1>4. BestBid(pool, bidMax) = Book!Best(Visible, "buy")
  <2> DEFINE S == Book!On(Visible, "buy")
             P == BidPrices(pool, bidMax)
             best == Book!Best(Visible, "buy")
  <2>1. ASSUME NEW p \in Price PROVE p \in P <=> \E r \in S : Visible[r].price = p
    <3>1. Members(buys[p]) \cap Active(pool) = {r \in S : Visible[r].price = p}
      BY LinkedAreVisible
    <3>2. Members(buys[p]) \cap Active(pool) # {} => p <= bidMax
      BY <1>2 DEF CacheOK, LiveBid
    <3> QED BY <3>1, <3>2 DEF BidPrices
  <2>2. P \subseteq Price
    BY DEF BidPrices
  <2>3. IF S = {} THEN best = 0
        ELSE (\E r \in S : best = Visible[r].price) /\ \A r \in S : ~(Visible[r].price > best)
    <3>1. "buy" \in {"buy", "sell"}
      OBVIOUS
    <3> QED BY <1>1, <3>1, BestProps DEF Book!Beats
  <2> HIDE DEF S, best
  <2>4. CASE S = {}
    <3>1. P = {}
      BY <2>1, <2>2, <2>4
    <3> QED BY <3>1, <2>3, <2>4 DEF BestBid, best
  <2>5. CASE S # {}
    <3>1. best \in P /\ \A q \in P : q <= best
      <4>1. best \in Price
        BY <2>3, <2>5, <1>3 DEF S
      <4>2. best \in P
        BY <4>1, <2>1, <2>3, <2>5
      <4>3. ASSUME NEW q \in P PROVE q <= best
        <5>1. q \in Price
          BY <2>2
        <5>2. ~(q > best)
          BY <5>1, <2>1, <2>3, <2>5
        <5> QED BY <5>1, <5>2, <4>1 DEF Price
      <4> QED BY <4>2, <4>3
    <3>2. BestBid(pool, bidMax) = CHOOSE p \in P : \A q \in P : q <= p
      BY <3>1 DEF BestBid
    <3> HIDE DEF P
    <3>3. BestBid(pool, bidMax) \in P /\ \A q \in P : q <= BestBid(pool, bidMax)
      BY <3>1, <3>2
    <3>4. BestBid(pool, bidMax) = best
      <4> DEFINE b == BestBid(pool, bidMax)
      <4>1. b \in P /\ \A q \in P : q <= b
        BY <3>3
      <4> HIDE DEF b
      <4>2. b \in Int /\ best \in Int
        BY <3>1, <4>1, <2>2 DEF Price
      <4>3. b <= best /\ best <= b
        BY <3>1, <4>1
      <4>4. b = best
        BY <4>2, <4>3
      <4> QED BY <4>4 DEF b
    <3> QED BY <3>4 DEF best
  <2> QED BY <2>4, <2>5
<1>5. BestAsk(pool, askMin) = Book!Best(Visible, "sell")
  <2> DEFINE S == Book!On(Visible, "sell")
             P == AskPrices(pool, askMin)
             best == Book!Best(Visible, "sell")
  <2>1. ASSUME NEW p \in Price PROVE p \in P <=> \E r \in S : Visible[r].price = p
    <3>1. Members(sells[p]) \cap Active(pool) = {r \in S : Visible[r].price = p}
      BY LinkedAreVisible
    <3>2. Members(sells[p]) \cap Active(pool) # {} => p >= askMin
      BY <1>2 DEF CacheOK, LiveAsk
    <3> QED BY <3>1, <3>2 DEF AskPrices
  <2>2. P \subseteq Price
    BY DEF AskPrices
  <2>3. IF S = {} THEN best = 0
        ELSE (\E r \in S : best = Visible[r].price) /\ \A r \in S : ~(Visible[r].price < best)
    <3>1. "sell" \in {"buy", "sell"} /\ "sell" # "buy"
      OBVIOUS
    <3> QED BY <1>1, <3>1, BestProps DEF Book!Beats
  <2> HIDE DEF S, best
  <2>4. CASE S = {}
    <3>1. P = {}
      BY <2>1, <2>2, <2>4
    <3> QED BY <3>1, <2>3, <2>4 DEF BestAsk, best
  <2>5. CASE S # {}
    <3>1. best \in P /\ \A q \in P : best <= q
      <4>1. best \in Price
        BY <2>3, <2>5, <1>3 DEF S
      <4>2. best \in P
        BY <4>1, <2>1, <2>3, <2>5
      <4>3. ASSUME NEW q \in P PROVE best <= q
        <5>1. q \in Price
          BY <2>2
        <5>2. ~(q < best)
          BY <5>1, <2>1, <2>3, <2>5
        <5> QED BY <5>1, <5>2, <4>1 DEF Price
      <4> QED BY <4>2, <4>3
    <3>2. BestAsk(pool, askMin) = CHOOSE p \in P : \A q \in P : p <= q
      BY <3>1 DEF BestAsk
    <3> HIDE DEF P
    <3>3. BestAsk(pool, askMin) \in P /\ \A q \in P : BestAsk(pool, askMin) <= q
      BY <3>1, <3>2
    <3>4. BestAsk(pool, askMin) = best
      <4> DEFINE b == BestAsk(pool, askMin)
      <4>1. b \in P /\ \A q \in P : b <= q
        BY <3>3
      <4> HIDE DEF b
      <4>2. b \in Int /\ best \in Int
        BY <3>1, <4>1, <2>2 DEF Price
      <4>3. b <= best /\ best <= b
        BY <3>1, <4>1
      <4>4. b = best
        BY <4>2, <4>3
      <4> QED BY <4>4 DEF b
    <3> QED BY <3>4 DEF best
  <2> QED BY <2>4, <2>5
<1> QED BY <1>4, <1>5

(* Between calls the best bid and offer of the code is that of the         *)
(* abstract book.                                                          *)
LEMMA QuoteIsBBO ==
  ASSUME IInv, Linked, TimePriority, call = Idle
  PROVE  BBO = Book!Quote(Visible)
<1> DEFINE bid == Book!Best(Visible, "buy")
           ask == Book!Best(Visible, "sell")
<1>1. BestBid(pool, bidMax) = bid /\ BestAsk(pool, askMin) = ask
  BY BestPricesVisible
<1>2. BookOK(Visible)
  BY VisibleOK
<1>3. bid \in 0 .. MaxPrice - 1 /\ ask \in 0 .. MaxPrice - 1
  <2>1. bidMax \in Nat /\ askMin \in Nat
    BY DEF IInv, TypeOK
  <2> HIDE DEF bid, ask
  <2> QED BY <1>1, <2>1, BestBidProps, BestAskProps
<1>4. \A side : \A r \in Book!On(Visible, side) : Visible[r].price # 0
  BY <1>2 DEF BookOK, Book!On, OrderType, Price
<1>5. BestBidQty(pool, bidMax) = Book!Level(Visible, "buy", bid) % SizeMod
  <2> HIDE DEF bid
  <2>1. CASE bid = 0
    <3>1. Book!Level(Visible, "buy", 0) = 0
      BY <1>2, <1>4, LevelEmpty
    <3>2. BestBidQty(pool, bidMax) = 0
      BY <1>1, <2>1 DEF BestBidQty
    <3> QED BY <2>1, <3>1, <3>2
  <2>2. CASE bid # 0
    <3>1. bid \in Price
      BY <2>2, <1>3 DEF Price
    <3>2. buys[bid] \in Seq(OrderID) /\ Rising(buys[bid])
      BY <3>1 DEF IInv, TypeOK, TimePriority, Rising
    <3>3. Members(buys[bid]) \cap Active(pool)
            = {r \in Book!On(Visible, "buy") : Visible[r].price = bid}
      BY <3>1, LinkedAreVisible
    <3>4. SumModulo(buys[bid], Active(pool), SizeOf(pool), SizeMod)
            = Book!Level(Visible, "buy", bid) % SizeMod
      BY <3>1, <3>2, <3>3, LevelQuantity
    <3> QED BY <1>1, <2>2, <3>4 DEF BestBidQty
  <2> QED BY <2>1, <2>2
<1>6. BestAskQty(pool, askMin) = Book!Level(Visible, "sell", ask) % SizeMod
  <2> HIDE DEF ask
  <2>1. CASE ask = 0
    <3>1. Book!Level(Visible, "sell", 0) = 0
      BY <1>2, <1>4, LevelEmpty
    <3>2. BestAskQty(pool, askMin) = 0
      BY <1>1, <2>1 DEF BestAskQty
    <3> QED BY <2>1, <3>1, <3>2
  <2>2. CASE ask # 0
    <3>1. ask \in Price
      BY <2>2, <1>3 DEF Price
    <3>2. sells[ask] \in Seq(OrderID) /\ Rising(sells[ask])
      BY <3>1 DEF IInv, TypeOK, TimePriority, Rising
    <3>3. Members(sells[ask]) \cap Active(pool)
            = {r \in Book!On(Visible, "sell") : Visible[r].price = ask}
      BY <3>1, LinkedAreVisible
    <3>4. SumModulo(sells[ask], Active(pool), SizeOf(pool), SizeMod)
            = Book!Level(Visible, "sell", ask) % SizeMod
      BY <3>1, <3>2, <3>3, LevelQuantity
    <3> QED BY <1>1, <2>2, <3>4 DEF BestAskQty
  <2> QED BY <2>1, <2>2
<1> QED BY <1>1, <1>5, <1>6 DEF BBO, Book!Quote, Book!Top

(* Quantities that move by less than SizeMod: the code, which compares     *)
(* them modulo SizeMod, announces exactly the real changes.                *)
MovesLittle(old, new) ==
  \A side \in {"buy", "sell"}, p \in 0 .. MaxPrice :
    LET a == Book!Level(old, side, p)
        b == Book!Level(new, side, p)
    IN  a - b < SizeMod /\ b - a < SizeMod

(* The best price of a side is a price, or 0. *)
LEMMA BestType ==
  ASSUME NEW book, BookOK(book), NEW side \in {"buy", "sell"}
  PROVE  Book!Best(book, side) \in 0 .. MaxPrice
<1>1. \A r \in Book!On(book, side) : book[r].price \in 0 .. MaxPrice
  BY DEF BookOK, Book!On, OrderType, Price
<1> QED BY <1>1, BestProps

(* When no level moves by SizeMod or more, comparing the quotes that the   *)
(* code compares, with quantities reduced, decides like comparing the real *)
(* ones.                                                                   *)
LEMMA AnnouncedAlike ==
  ASSUME NEW old, NEW new, BookOK(old), BookOK(new), MovesLittle(old, new)
  PROVE  Book!Announce(old, new) = BBOIfChanged(Book!Quote(old), Book!Quote(new))
<1> DEFINE B == {"buy", "sell"}
           qty(book, side) == Book!Level(book, side, Book!Best(book, side))
           Same == \A side \in B : Book!Top(old, side) = Book!Top(new, side)
<1>1. ASSUME NEW side \in B, Book!Best(old, side) = Book!Best(new, side),
             qty(old, side) % SizeMod = (qty(new, side) % SizeMod)
      PROVE  Book!Top(old, side) = Book!Top(new, side)
  <2> DEFINE p == Book!Best(old, side)
             a == Book!Level(old, side, p)
             b == Book!Level(new, side, p)
  <2>1. p \in 0 .. MaxPrice
    BY BestType
  <2>2. a \in Int /\ b \in Int
    BY LevelNat
  <2>3. a - b < SizeMod /\ b - a < SizeMod
    <3> HIDE DEF p
    <3> QED BY <2>1 DEF MovesLittle
  <2>4. a % SizeMod = (b % SizeMod)
    BY <1>1
  <2> HIDE DEF a, b
  <2>5. a = b
    BY <2>2, <2>3, <2>4, ModuloTells
  <2> QED BY <1>1, <2>5 DEF Book!Top, a, b
<1>2. Same <=> Book!Quote(old) = Book!Quote(new)
  <2>1. Same => Book!Quote(old) = Book!Quote(new)
    BY DEF Book!Quote, Book!Top
  <2>2. ASSUME Book!Quote(old) = Book!Quote(new) PROVE Same
    <3>1. /\ Book!Best(old, "buy") = Book!Best(new, "buy")
          /\ Book!Best(old, "sell") = Book!Best(new, "sell")
          /\ qty(old, "buy") % SizeMod = (qty(new, "buy") % SizeMod)
          /\ qty(old, "sell") % SizeMod = (qty(new, "sell") % SizeMod)
      BY <2>2 DEF Book!Quote, Book!Top
    <3>2. Book!Top(old, "buy") = Book!Top(new, "buy") /\ Book!Top(old, "sell") = Book!Top(new, "sell")
      <4> HIDE DEF qty
      <4> QED BY <3>1, <1>1
    <3> QED BY <3>2
  <2> QED BY <2>1, <2>2
<1> HIDE DEF Same
<1> QED BY <1>2 DEF Book!Announce, BBOIfChanged, Same

-----------------------------------------------------------------------------
(* Matches *)

(* The trades of hits2 and left2 begin with the n of hits and left. *)
Longer(n, hits, left, hits2, left2) ==
  /\ \A k \in 1 .. n : hits2[k] = hits[k]
  /\ \A k \in 0 .. n : left2[k] = left[k]

(* One more trade changes nothing about the trades before it. *)
LEMMA LongerKeeps ==
  ASSUME NEW n \in Nat, NEW hits, NEW left, NEW hits2, NEW left2,
         Longer(n, hits, left, hits2, left2), NEW id, NEW side, NEW price
  PROVE  /\ \A k \in 0 .. n : Book!After(side, price, hits2, left2, k)
                                = Book!After(side, price, hits, left, k)
         /\ \A k \in 1 .. n : Book!Hit(id, hits2, left2, k) = Book!Hit(id, hits, left, k)
<1>1. ASSUME NEW k \in 1 .. n
      PROVE  hits2[k] = hits[k] /\ Book!Taken(left2, k) = Book!Taken(left, k)
  <2>1. k \in 0 .. n /\ k - 1 \in 0 .. n
    OBVIOUS
  <2> QED BY <2>1 DEF Longer, Book!Taken
<1>2. ASSUME NEW k \in 0 .. n
      PROVE  Book!After(side, price, hits2, left2, k) = Book!After(side, price, hits, left, k)
  <2>1. left2[k] = left[k] /\ left2[0] = left[0]
    BY DEF Longer
  <2>2. \A i \in 1 .. k : i \in 1 .. n
    OBVIOUS
  <2>3. [i \in 1 .. k |-> [order |-> hits2[i], price |-> before.resting[hits2[i]].price,
                           qty |-> Book!Taken(left2, i)]]
          = [i \in 1 .. k |-> [order |-> hits[i], price |-> before.resting[hits[i]].price,
                               qty |-> Book!Taken(left, i)]]
    BY <1>1, <2>2
  <2> QED BY <2>1, <2>3 DEF Book!After
<1>3. ASSUME NEW k \in 1 .. n PROVE Book!Hit(id, hits2, left2, k) = Book!Hit(id, hits, left, k)
  BY <1>1 DEF Book!Hit
<1> QED BY <1>2, <1>3

(* t is s and then a and b. *)
Continues(t, s, a, b) ==
  /\ t = [i \in 1 .. Len(s) + 2 |-> t[i]]
  /\ \A i \in 1 .. Len(s) : t[i] = s[i]
  /\ t[Len(s) + 1] = a
  /\ t[Len(s) + 2] = b

(* A sequence that continues s with two elements is s followed by them. *)
LEMMA TwoMore ==
  ASSUME NEW S, NEW s \in Seq(S), NEW a \in S, NEW b \in S, NEW t, Continues(t, s, a, b)
  PROVE  t = s \o <<a, b>>
<1> DEFINE u == s \o <<a, b>>
<1>0. /\ t = [i \in 1 .. Len(s) + 2 |-> t[i]]
      /\ \A i \in 1 .. Len(s) : t[i] = s[i]
      /\ t[Len(s) + 1] = a
      /\ t[Len(s) + 2] = b
  BY DEF Continues
<1>1. u \in Seq(S) /\ Len(u) = Len(s) + 2
  OBVIOUS
<1>2. \A i \in 1 .. Len(s) : u[i] = s[i]
  OBVIOUS
<1>3. u[Len(s) + 1] = a /\ u[Len(s) + 2] = b
  OBVIOUS
<1> HIDE DEF u
<1>4. \A i \in 1 .. Len(s) + 2 : t[i] = u[i]
  <2> TAKE i \in 1 .. Len(s) + 2
  <2>1. Len(s) \in Nat
    OBVIOUS
  <2>2. i \in 1 .. Len(s) \/ i = Len(s) + 1 \/ i = Len(s) + 2
    BY <2>1
  <2> QED BY <2>2, <1>0, <1>2, <1>3
<1>5. u = [i \in 1 .. Len(s) + 2 |-> u[i]]
  BY <1>1
<1>6. t = u
  BY <1>0, <1>4, <1>5
<1> QED BY <1>6 DEF u

(* One more trade adds its two events. *)
LEMMA TradesGrow ==
  ASSUME NEW n \in Nat, NEW hits, NEW left, NEW hits2, NEW left2,
         Longer(n, hits, left, hits2, left2), NEW id, NEW side, NEW price
  PROVE  Book!Trades(id, side, price, hits2, left2, n + 1)
           = Book!Trades(id, side, price, hits, left, n)
             \o <<Book!Event("filled", hits2[n + 1], Book!Hit(id, hits2, left2, n + 1)),
                  Book!Event("filled", id, Book!After(side, price, hits2, left2, n + 1))>>
<1> DEFINE H(k) == Book!Event("filled", hits[k], Book!Hit(id, hits, left, k))
           A(k) == Book!Event("filled", id, Book!After(side, price, hits, left, k))
           H2(k) == Book!Event("filled", hits2[k], Book!Hit(id, hits2, left2, k))
           A2(k) == Book!Event("filled", id, Book!After(side, price, hits2, left2, k))
           s == Book!Trades(id, side, price, hits, left, n)
           t == Book!Trades(id, side, price, hits2, left2, n + 1)
           a == H2(n + 1)
           b == A2(n + 1)
<1>1. \A k \in 1 .. n : H2(k) = H(k) /\ A2(k) = A(k)
  <2> TAKE k \in 1 .. n
  <2>1. k \in 0 .. n /\ hits2[k] = hits[k]
    BY DEF Longer
  <2> QED BY <2>1, LongerKeeps
<1>2. s = [i \in 1 .. 2 * n |-> IF i = 2 * ((i + 1) \div 2) - 1 THEN H((i + 1) \div 2) ELSE A((i + 1) \div 2)]
  BY DEF Book!Trades
<1>3. t = [i \in 1 .. 2 * (n + 1) |-> IF i = 2 * ((i + 1) \div 2) - 1
                                      THEN H2((i + 1) \div 2) ELSE A2((i + 1) \div 2)]
  BY DEF Book!Trades
<1> HIDE DEF H, A, H2, A2, s, t
<1> DEFINE S == {s[i] : i \in 1 .. 2 * n} \cup {a, b}
<1>4. s \in Seq(S) /\ Len(s) = 2 * n
  <2>1. 2 * n \in Nat /\ DOMAIN s = 1 .. 2 * n
    BY <1>2
  <2>2. s \in [1 .. 2 * n -> S]
    BY <1>2
  <2> HIDE DEF S
  <2> QED BY <2>1, <2>2
<1>5. a \in S /\ b \in S
  OBVIOUS
<1>6. \A i \in 1 .. 2 * n : t[i] = s[i]
  <2> TAKE i \in 1 .. 2 * n
  <2>1. (i + 1) \div 2 \in 1 .. n /\ i \in 1 .. 2 * (n + 1)
    OBVIOUS
  <2> QED BY <2>1, <1>1, <1>2, <1>3
<1>7. t[2 * n + 1] = a /\ t[2 * n + 2] = b
  <2>1. /\ (2 * n + 1 + 1) \div 2 = n + 1 /\ (2 * n + 2 + 1) \div 2 = n + 1
        /\ 2 * n + 1 = 2 * (n + 1) - 1 /\ 2 * n + 2 # 2 * (n + 1) - 1
        /\ 2 * n + 1 \in 1 .. 2 * (n + 1) /\ 2 * n + 2 \in 1 .. 2 * (n + 1)
    OBVIOUS
  <2> QED BY <2>1, <1>3
<1>8. t = [i \in 1 .. Len(s) + 2 |-> t[i]]
  BY <1>3, <1>4
<1> HIDE DEF S, a, b
<1>9. t = s \o <<a, b>>
  <2>1. Continues(t, s, a, b)
    BY <1>4, <1>6, <1>7, <1>8 DEF Continues
  <2>2. s \in Seq(S) /\ a \in S /\ b \in S
    BY <1>4, <1>5
  <2> QED BY <2>1, <2>2, TwoMore
<1> QED BY <1>9 DEF t, s, a, b, H2, A2

-----------------------------------------------------------------------------
(* The history of a running call *)

(* The resting orders in the middle of a call. *)
Others == [r \in Active(pool) \ {call.id} |-> Order(pool[r])]

(* The trades of the running call so far are the first n of a match of the *)
(* abstract book: the slots, the fills and the events say so.              *)
Swept(n, hits, left) ==
  LET id    == call.id
      side  == pool[id].side
      price == pool[id].price
  IN  /\ left[0] \in Sizes
      /\ left \in [0 .. n -> 0 .. left[0]]
      /\ hits \in [1 .. n -> Book!Crossed(side, price)]
      /\ Book!InPriority(side, price, hits, n)
      /\ Book!Gives(hits, left, n)
      /\ Order(pool[id]) = Book!After(side, price, hits, left, n)
      /\ \A k \in 1 .. n : Order(pool[hits[k]]) = Book!Hit(id, hits, left, k)
      /\ \A r \in DOMAIN before.resting :
           (\A k \in 1 .. n : hits[k] # r) => Order(pool[r]) = before.resting[r]
      /\ events = Book!Trades(id, side, price, hits, left, n)

(* What the call started from: the book as its callers last saw it, which  *)
(* holds all that is live but the new order; and no level has lost more    *)
(* than the new order was filled.                                          *)
Started ==
  LET old == before.resting
  IN  /\ before.nextId = call.id
      /\ BookOK(old) /\ call.id \notin DOMAIN old
      /\ Active(pool) \ {call.id} \subseteq DOMAIN old
      /\ call.prev = Book!Quote(old)
      /\ \A side \in {"buy", "sell"}, p \in 0 .. MaxPrice :
           Book!Level(old, side, p) - Book!Level(Others, side, p) \in 0 .. pool[call.id].qtyFilled

Sweeping ==
  LET n == Len(pool[call.id].fills)
  IN  \E hits \in [1 .. n -> OrderID], left \in [0 .. n -> Size] : Swept(n, hits, left)

HistoryInv == IF call = Idle THEN before = Seen ELSE Started /\ Sweeping

(* An order after a trade of qty. *)
Filled(o, other, price, qty) ==
  [side |-> o.side, price |-> o.price, size |-> o.size - qty, qtyFilled |-> o.qtyFilled + qty,
   fills |-> Append(o.fills, [order |-> other, price |-> price, qty |-> qty])]

(* What a trade does to a slot, as callers see it. *)
LEMMA TradedOrder ==
  ASSUME NEW s \in Slot, NEW other, NEW price, NEW qty, NEW t, t = Traded(s, other, price, qty)
  PROVE  /\ Order(t) = Filled(s, other, price, qty)
         /\ \A b \in BOOLEAN : Order([t EXCEPT !.active = b]) = Filled(s, other, price, qty)
         /\ t.size = s.size - qty
         /\ t.qtyFilled = s.qtyFilled + qty
         /\ t.fills = Append(s.fills, [order |-> other, price |-> price, qty |-> qty])
<1> DEFINE m == [order |-> other, price |-> price, qty |-> qty]
<1>1. t = [s EXCEPT !.size = s.size - qty, !.qtyFilled = s.qtyFilled + qty,
                    !.fills = Append(s.fills, m)]
  BY DEF Traded
<1> HIDE DEF m
<1>2. /\ t.size = s.size - qty /\ t.qtyFilled = s.qtyFilled + qty /\ t.fills = Append(s.fills, m)
      /\ t.side = s.side /\ t.price = s.price
      /\ DOMAIN t = {"size", "price", "side", "active", "qtyFilled", "fills"}
  BY <1>1 DEF Slot
<1>3. ASSUME NEW b \in BOOLEAN, NEW u, u = [t EXCEPT !.active = b]
      PROVE  /\ u.size = s.size - qty /\ u.qtyFilled = s.qtyFilled + qty
             /\ u.fills = Append(s.fills, m) /\ u.side = s.side /\ u.price = s.price
  BY <1>2, <1>3
<1>4. \A b \in BOOLEAN : Order([t EXCEPT !.active = b]) = Filled(s, other, price, qty)
  BY <1>3 DEF Order, Filled, m
<1> QED BY <1>2, <1>4 DEF Order, Filled, m

(* What a fill does to the two orders, and the events it adds. *)
LEMMA FillOrders ==
  ASSUME TypeOK, NEW id \in OrderID, NEW r \in OrderID, id # r, Fill(id, r),
         NEW qty, qty = Smaller(pool[id].size, pool[r].size)
  PROVE  /\ Order(pool'[id]) = Filled(pool[id], r, pool[r].price, qty)
         /\ Order(pool'[r]) = Filled(pool[r], id, pool[r].price, qty)
         /\ \A x \in OrderID : x # id /\ x # r => pool'[x] = pool[x]
         /\ events' = events \o <<Book!Event("filled", r, Order(pool'[r])),
                                  Book!Event("filled", id, Order(pool'[id]))>>
<1> DEFINE price == pool[r].price
           rest == Traded(pool[r], id, price, qty)
           agg == Traded(pool[id], r, price, qty)
           b == (rest.size > 0)
           rest2 == [rest EXCEPT !.active = b]
<1>1. pool[id] \in Slot /\ pool[r] \in Slot
  BY DEF TypeOK
<1>2. pool' = [pool EXCEPT ![id] = agg, ![r] = rest2]
  BY DEF Fill
<1>3. events' = events \o <<OrderEvent("filled", r, rest, rest.size),
                            OrderEvent("filled", id, agg, agg.size)>>
  BY DEF Fill
<1>4. b \in BOOLEAN
  OBVIOUS
<1> HIDE DEF rest, agg, b
<1>5. /\ Order(agg) = Filled(pool[id], r, price, qty)
      /\ agg.size = pool[id].size - qty /\ agg.qtyFilled = pool[id].qtyFilled + qty
      /\ agg.fills = Append(pool[id].fills, [order |-> r, price |-> price, qty |-> qty])
  BY <1>1, TradedOrder DEF agg
<1>6. /\ Order(rest2) = Filled(pool[r], id, price, qty)
      /\ rest.size = pool[r].size - qty /\ rest.qtyFilled = pool[r].qtyFilled + qty
      /\ rest.fills = Append(pool[r].fills, [order |-> id, price |-> price, qty |-> qty])
  <2>1. /\ \A c \in BOOLEAN : Order([rest EXCEPT !.active = c]) = Filled(pool[r], id, price, qty)
        /\ rest.size = pool[r].size - qty /\ rest.qtyFilled = pool[r].qtyFilled + qty
        /\ rest.fills = Append(pool[r].fills, [order |-> id, price |-> price, qty |-> qty])
    BY <1>1, TradedOrder DEF rest
  <2> QED BY <2>1, <1>4
<1> HIDE DEF rest2, price
<1>7. /\ pool'[id] = agg /\ pool'[r] = rest2
      /\ \A x \in OrderID : x # id /\ x # r => pool'[x] = pool[x]
  BY <1>2 DEF TypeOK
<1>8. /\ OrderEvent("filled", id, agg, agg.size) = Book!Event("filled", id, Order(pool'[id]))
      /\ OrderEvent("filled", r, rest, rest.size) = Book!Event("filled", r, Order(pool'[r]))
  <2>1. /\ Order(pool'[id]).size = agg.size /\ Order(pool'[id]).qtyFilled = agg.qtyFilled
        /\ Order(pool'[id]).fills = agg.fills
    BY <1>5, <1>7 DEF Filled
  <2>2. /\ Order(pool'[r]).size = rest.size /\ Order(pool'[r]).qtyFilled = rest.qtyFilled
        /\ Order(pool'[r]).fills = rest.fills
    BY <1>6, <1>7 DEF Filled
  <2> QED BY <2>1, <2>2 DEF OrderEvent, Book!Event
<1> QED BY <1>3, <1>5, <1>6, <1>7, <1>8 DEF price

(* While the book of before and the side and price of the new order stay,  *)
(* so does everything a match is described with.                           *)
LEMMA MatchStays ==
  ASSUME before' = before, call' = call,
         pool'[call.id].side = pool[call.id].side, pool'[call.id].price = pool[call.id].price,
         NEW n, NEW hits, NEW left
  PROVE  /\ Book!Crossed(pool[call.id].side, pool[call.id].price)'
              = Book!Crossed(pool[call.id].side, pool[call.id].price)
         /\ Book!InPriority(pool[call.id].side, pool[call.id].price, hits, n)'
              <=> Book!InPriority(pool[call.id].side, pool[call.id].price, hits, n)
         /\ Book!Gives(hits, left, n)' <=> Book!Gives(hits, left, n)
         /\ Book!After(pool[call.id].side, pool[call.id].price, hits, left, n)'
              = Book!After(pool[call.id].side, pool[call.id].price, hits, left, n)
         /\ Book!Hit(call.id, hits, left, n)' = Book!Hit(call.id, hits, left, n)
         /\ Book!Trades(call.id, pool[call.id].side, pool[call.id].price, hits, left, n)'
              = Book!Trades(call.id, pool[call.id].side, pool[call.id].price, hits, left, n)
<1>1. Book!Crossed(pool[call.id].side, pool[call.id].price)'
              = Book!Crossed(pool[call.id].side, pool[call.id].price)
  BY DEF Book!Crossed, Book!Beats
<1>2. Book!InPriority(pool[call.id].side, pool[call.id].price, hits, n)'
              <=> Book!InPriority(pool[call.id].side, pool[call.id].price, hits, n)
  BY DEF Book!InPriority, Book!Crossed, Book!Beats, Book!Better
<1>3. Book!Gives(hits, left, n)' <=> Book!Gives(hits, left, n)
  BY DEF Book!Gives
<1>4. Book!After(pool[call.id].side, pool[call.id].price, hits, left, n)'
              = Book!After(pool[call.id].side, pool[call.id].price, hits, left, n)
  BY DEF Book!After, Book!Taken
<1>5. Book!Hit(call.id, hits, left, n)' = Book!Hit(call.id, hits, left, n)
  BY DEF Book!Hit, Book!Taken
<1>6. Book!Trades(call.id, pool[call.id].side, pool[call.id].price, hits, left, n)'
              = Book!Trades(call.id, pool[call.id].side, pool[call.id].price, hits, left, n)
  BY DEF Book!Trades, Book!After, Book!Hit, Book!Taken, Book!Event
<1> QED BY <1>1, <1>2, <1>3, <1>4, <1>5, <1>6

(* One more trade, with r, after which l is left. *)
OneMore(n, hits, left, r, l, hits2, left2) ==
  /\ hits2 = [k \in 1 .. n + 1 |-> IF k = n + 1 THEN r ELSE hits[k]]
  /\ left2 = [k \in 0 .. n + 1 |-> IF k = n + 1 THEN l ELSE left[k]]

(* n trades of a match, in which an order at this side and price takes     *)
(* from the orders it crosses.                                             *)
Matching(n, side, price, hits, left) ==
  /\ left[0] \in Nat
  /\ left \in [0 .. n -> 0 .. left[0]]
  /\ hits \in [1 .. n -> Book!Crossed(side, price)]
  /\ Book!InPriority(side, price, hits, n)
  /\ Book!Gives(hits, left, n)

(* It wants more, and r is the best crossed order it has not hit. *)
Follows(n, side, price, hits, left, r) ==
  /\ left[n] > 0
  /\ r \in Book!Crossed(side, price)
  /\ \A k \in 1 .. n : hits[k] # r
  /\ \A s \in Book!Crossed(side, price) :
       s # r /\ (\A k \in 1 .. n : hits[k] # s) => Book!Better(before.resting, r, s)

(* A match goes on with the best order it has not hit. *)
LEMMA MatchGoesOn ==
  ASSUME BookOK(before.resting), NEW n \in Nat, NEW side, NEW price, NEW hits, NEW left,
         Matching(n, side, price, hits, left), NEW r, Follows(n, side, price, hits, left, r),
         NEW l, l = IF left[n] > before.resting[r].size THEN left[n] - before.resting[r].size ELSE 0,
         NEW hits2, NEW left2, OneMore(n, hits, left, r, l, hits2, left2)
  PROVE  Matching(n + 1, side, price, hits2, left2)
<1> DEFINE C == Book!Crossed(side, price)
<1>0. /\ left[0] \in Nat /\ left \in [0 .. n -> 0 .. left[0]] /\ left[n] > 0
      /\ hits \in [1 .. n -> C] /\ Book!InPriority(side, price, hits, n) /\ Book!Gives(hits, left, n)
      /\ r \in C /\ \A k \in 1 .. n : hits[k] # r
      /\ \A s \in C : s # r /\ (\A k \in 1 .. n : hits[k] # s) => Book!Better(before.resting, r, s)
  BY DEF Matching, Follows
<1>1. /\ \A k \in 1 .. n : hits2[k] = hits[k]
      /\ \A k \in 0 .. n : left2[k] = left[k]
      /\ hits2[n + 1] = r /\ left2[n + 1] = l
  BY DEF OneMore
<1>2. left[n] \in 0 .. left[0] /\ before.resting[r].size \in Nat
  <2>1. r \in DOMAIN before.resting
    BY <1>0 DEF Book!Crossed
  <2>2. before.resting[r] \in OrderType
    BY <2>1 DEF BookOK
  <2> QED BY <1>0, <2>2 DEF OrderType
<1>3. l \in 0 .. left[0]
  BY <1>0, <1>2
<1>4. hits2 \in [1 .. n + 1 -> C]
  <2>1. \A k \in 1 .. n + 1 : k # n + 1 => k \in 1 .. n
    OBVIOUS
  <2> QED BY <1>0, <2>1 DEF OneMore
<1>5. left2 \in [0 .. n + 1 -> 0 .. left[0]]
  <2>1. \A k \in 0 .. n + 1 : k # n + 1 => k \in 0 .. n
    OBVIOUS
  <2> QED BY <1>0, <2>1, <1>3 DEF OneMore
<1>6. \A i, j \in 1 .. n + 1 : i < j => Book!Better(before.resting, hits2[i], hits2[j])
  <2> SUFFICES ASSUME NEW i \in 1 .. n + 1, NEW j \in 1 .. n + 1, i < j
               PROVE  Book!Better(before.resting, hits2[i], hits2[j])
    OBVIOUS
  <2>1. CASE j \in 1 .. n
    <3>1. i \in 1 .. n
      BY <2>1
    <3>2. Book!Better(before.resting, hits[i], hits[j])
      BY <1>0, <2>1, <3>1 DEF Book!InPriority
    <3> QED BY <1>1, <2>1, <3>1, <3>2
  <2>2. CASE j = n + 1
    <3>1. i \in 1 .. n
      BY <2>2
    <3>2. Book!Better(before.resting, hits[i], r)
      BY <1>0, <3>1 DEF Book!InPriority
    <3> QED BY <1>1, <2>2, <3>1, <3>2
  <2> QED BY <2>1, <2>2
<1>7. ASSUME NEW s \in C
      PROVE  \/ \E k \in 1 .. n + 1 : hits2[k] = s
             \/ \A k \in 1 .. n + 1 : Book!Better(before.resting, hits2[k], s)
  <2>1. CASE s = r
    <3>1. n + 1 \in 1 .. n + 1
      OBVIOUS
    <3> QED BY <2>1, <3>1, <1>1
  <2>2. CASE \E k \in 1 .. n : hits[k] = s
    <3>1. PICK k \in 1 .. n : hits[k] = s
      BY <2>2
    <3>2. k \in 1 .. n + 1 /\ hits2[k] = s
      BY <3>1, <1>1
    <3> QED BY <3>2
  <2>3. CASE s # r /\ \A k \in 1 .. n : hits[k] # s
    <3>1. Book!Better(before.resting, r, s)
      BY <1>0, <2>3
    <3>2. \A k \in 1 .. n : Book!Better(before.resting, hits[k], s)
      BY <1>0, <2>3 DEF Book!InPriority
    <3>3. \A k \in 1 .. n + 1 : k \in 1 .. n \/ k = n + 1
      OBVIOUS
    <3> QED BY <1>1, <3>1, <3>2, <3>3
  <2> QED BY <2>1, <2>2, <2>3
<1>8. Book!InPriority(side, price, hits2, n + 1)
  BY <1>6, <1>7 DEF Book!InPriority
<1>9. Book!Gives(hits2, left2, n + 1)
  <2> SUFFICES ASSUME NEW k \in 1 .. n + 1
               PROVE  /\ left2[k - 1] > 0
                      /\ left2[k] = IF left2[k - 1] > before.resting[hits2[k]].size
                                    THEN left2[k - 1] - before.resting[hits2[k]].size ELSE 0
    BY DEF Book!Gives
  <2>1. CASE k \in 1 .. n
    <3>1. k \in 0 .. n /\ k - 1 \in 0 .. n
      BY <2>1
    <3>2. /\ left[k - 1] > 0
          /\ left[k] = IF left[k - 1] > before.resting[hits[k]].size
                       THEN left[k - 1] - before.resting[hits[k]].size ELSE 0
      BY <1>0, <2>1 DEF Book!Gives
    <3> QED BY <1>1, <2>1, <3>1, <3>2
  <2>2. CASE k = n + 1
    <3>1. left2[k - 1] = left[n]
      BY <2>2, <1>1
    <3> QED BY <1>0, <1>1, <2>2, <3>1
  <2> QED BY <2>1, <2>2
<1>10. left2[0] = left[0]
  BY <1>1
<1> QED BY <1>0, <1>4, <1>5, <1>8, <1>9, <1>10 DEF Matching

(* What a match says of the slots. *)
LEMMA SweptFacts ==
  ASSUME IInv, Linked, call # Idle, Started, NEW n \in Nat, NEW hits, NEW left, Swept(n, hits, left)
  PROVE  /\ pool[call.id].size = left[n] /\ pool[call.id].qtyFilled = left[0] - left[n]
         /\ pool[call.id].fills = [i \in 1 .. n |-> [order |-> hits[i],
                                                     price |-> before.resting[hits[i]].price,
                                                     qty |-> Book!Taken(left, i)]]
         /\ Len(pool[call.id].fills) = n
         /\ left[0] \in Nat /\ \A k \in 0 .. n : left[k] \in 0 .. left[0]
         /\ \A k \in 1 .. n : /\ hits[k] \in DOMAIN before.resting
                              /\ hits[k] \in OrderID /\ hits[k] # call.id
<1> DEFINE fs == [i \in 1 .. n |-> [order |-> hits[i], price |-> before.resting[hits[i]].price,
                                    qty |-> Book!Taken(left, i)]]
<1>1. Order(pool[call.id]) = Book!After(pool[call.id].side, pool[call.id].price, hits, left, n)
  BY DEF Swept
<1>2. /\ pool[call.id].size = left[n] /\ pool[call.id].qtyFilled = left[0] - left[n]
      /\ pool[call.id].fills = fs
  <2> HIDE DEF fs
  <2> QED BY <1>1 DEF Order, Book!After, fs
<1>3. Len(pool[call.id].fills) = n
  <2>1. pool[call.id].fills \in Seq(Match)
    BY RunningCall DEF Slot
  <2>2. DOMAIN pool[call.id].fills = 1 .. n
    BY <1>2
  <2>3. DOMAIN pool[call.id].fills = 1 .. Len(pool[call.id].fills) /\ Len(pool[call.id].fills) \in Nat
    BY <2>1
  <2> HIDE DEF fs
  <2>4. \A m \in Nat : 1 .. n = 1 .. m => m = n
    <3> SUFFICES ASSUME NEW m \in Nat, 1 .. n = 1 .. m PROVE m = n
      OBVIOUS
    <3>1. n > 0 => n \in 1 .. m
      OBVIOUS
    <3>2. m > 0 => m \in 1 .. n
      OBVIOUS
    <3> QED BY <3>1, <3>2
  <2> QED BY <2>2, <2>3, <2>4
<1>4. left[0] \in Nat /\ \A k \in 0 .. n : left[k] \in 0 .. left[0]
  BY DEF Swept
<1>5. ASSUME NEW k \in 1 .. n
      PROVE  hits[k] \in DOMAIN before.resting /\ hits[k] \in OrderID /\ hits[k] # call.id
  <2>1. hits[k] \in Book!Crossed(pool[call.id].side, pool[call.id].price)
    BY DEF Swept
  <2>2. hits[k] \in DOMAIN before.resting
    BY <2>1 DEF Book!Crossed
  <2> QED BY <2>2 DEF Started, BookOK
<1> QED BY <1>2, <1>3, <1>4, <1>5

(* As long as the new order wants more, what it hit is used up. *)
LEMMA HitsUsedUp ==
  ASSUME IInv, Linked, call # Idle, Started, NEW n \in Nat, NEW hits, NEW left, Swept(n, hits, left),
         pool[call.id].size > 0, NEW k \in 1 .. n
  PROVE  ~pool[hits[k]].active
<1>1. /\ left[n] > 0 /\ \A j \in 0 .. n : left[j] \in Nat
      /\ hits[k] \in OrderID /\ hits[k] # call.id /\ hits[k] \in DOMAIN before.resting
  <2>1. /\ pool[call.id].size = left[n] /\ \A j \in 0 .. n : left[j] \in 0 .. left[0]
        /\ left[0] \in Nat
        /\ \A j \in 1 .. n : /\ hits[j] \in DOMAIN before.resting
                             /\ hits[j] \in OrderID /\ hits[j] # call.id
    BY SweptFacts
  <2> QED BY <2>1
<1>2. k \in 0 .. n /\ k - 1 \in 0 .. n
  OBVIOUS
<1>3. left[k] > 0
  <2>1. CASE k = n
    BY <2>1, <1>1
  <2>2. CASE k # n
    <3>1. k + 1 \in 1 .. n /\ (k + 1) - 1 = k
      BY <2>2
    <3>2. left[(k + 1) - 1] > 0
      BY <3>1 DEF Swept, Book!Gives
    <3> QED BY <3>1, <3>2
  <2> QED BY <2>1, <2>2
<1>4. left[k] = IF left[k - 1] > before.resting[hits[k]].size
                THEN left[k - 1] - before.resting[hits[k]].size ELSE 0
  BY DEF Swept, Book!Gives
<1>5. before.resting[hits[k]].size \in Nat
  BY <1>1 DEF Started, BookOK, OrderType
<1>6. left[k - 1] \in Nat /\ left[k] \in Nat
  BY <1>1, <1>2
<1>7. left[k - 1] - left[k] = before.resting[hits[k]].size
  BY <1>3, <1>4, <1>5, <1>6
<1>8. Order(pool[hits[k]]) = Book!Hit(call.id, hits, left, k)
  BY DEF Swept
<1>9. pool[hits[k]].size = before.resting[hits[k]].size - (left[k - 1] - left[k])
  BY <1>8 DEF Order, Book!Hit, Book!Taken
<1>10. pool[hits[k]].size = 0
  BY <1>5, <1>7, <1>9
<1> QED BY <1>1, <1>10 DEF Linked, Kept

(* What was not hit is as it was, and live. *)
LEMMA UnhitStay ==
  ASSUME IInv, Linked, call # Idle, Started, NEW n, NEW hits, NEW left, Swept(n, hits, left),
         NEW r \in DOMAIN before.resting, \A k \in 1 .. n : hits[k] # r
  PROVE  Order(pool[r]) = before.resting[r] /\ pool[r].active /\ r \in OrderID /\ r # call.id
<1>1. Order(pool[r]) = before.resting[r]
  BY DEF Swept
<1>2. r \in OrderID /\ r # call.id
  BY DEF Started, BookOK
<1>3. before.resting[r].size \in 1 .. SizeMod - 1
  BY DEF Started, BookOK, OrderType
<1>4. pool[r].size > 0
  BY <1>1, <1>3 DEF Order
<1>5. pool[r].active
  BY <1>2, <1>4 DEF Linked, Kept
<1> QED BY <1>1, <1>2, <1>5

(* t is s and then m. *)
AddsOne(t, s, m) ==
  /\ t = [i \in 1 .. Len(s) + 1 |-> t[i]]
  /\ \A i \in 1 .. Len(s) : t[i] = s[i]
  /\ t[Len(s) + 1] = m

(* A sequence that adds one element to s is what Append returns. *)
LEMMA AppendIs ==
  ASSUME NEW S, NEW s \in Seq(S), NEW m \in S, NEW t, AddsOne(t, s, m)
  PROVE  t = Append(s, m)
<1> DEFINE u == Append(s, m)
<1>1. u \in Seq(S) /\ Len(u) = Len(s) + 1 /\ Len(s) \in Nat
  OBVIOUS
<1>2. \A i \in 1 .. Len(s) : u[i] = s[i]
  OBVIOUS
<1>3. u[Len(s) + 1] = m
  OBVIOUS
<1> HIDE DEF u
<1>4. u = [i \in 1 .. Len(s) + 1 |-> u[i]]
  BY <1>1
<1>5. \A i \in 1 .. Len(s) + 1 : t[i] = u[i]
  <2> TAKE i \in 1 .. Len(s) + 1
  <2>1. i \in 1 .. Len(s) \/ i = Len(s) + 1
    BY <1>1
  <2> QED BY <2>1, <1>2, <1>3 DEF AddsOne
<1>6. t = u
  BY <1>4, <1>5 DEF AddsOne
<1> QED BY <1>6 DEF u

(* The code's next trade is the next one of the abstract match. *)
LEMMA FillSwept ==
  ASSUME IInv, Linked, call # Idle, Started, NEW n \in Nat, NEW hits, NEW left, Swept(n, hits, left),
         pool[call.id].size > 0,
         NEW r \in Book!Crossed(pool[call.id].side, pool[call.id].price), pool[r].active,
         \A s \in Book!Crossed(pool[call.id].side, pool[call.id].price) :
           pool[s].active /\ s # r => Book!Better(before.resting, r, s),
         Fill(call.id, r), before' = before, call' = call
  PROVE  \E hits2, left2 : Swept(n + 1, hits2, left2)'
<1>0. PICK id \in OrderID : id = call.id
  BY RunningCall
<1>1. PICK side, price : side = pool[id].side /\ price = pool[id].price
  OBVIOUS
<1>2. PICK C : C = Book!Crossed(side, price)
  OBVIOUS
<1>3. r \in DOMAIN before.resting /\ r \in OrderID /\ r # id /\ BookOK(before.resting)
  BY <1>0 DEF Book!Crossed, Started, BookOK
<1>4. \A k \in 1 .. n : hits[k] # r
  BY HitsUsedUp
<1>5. Order(pool[r]) = before.resting[r]
  BY <1>3, <1>4, UnhitStay
<1>6. /\ pool[id].size = left[n] /\ pool[id].qtyFilled = left[0] - left[n]
      /\ pool[id].fills = [i \in 1 .. n |-> [order |-> hits[i],
                                             price |-> before.resting[hits[i]].price,
                                             qty |-> Book!Taken(left, i)]]
      /\ Len(pool[id].fills) = n
      /\ left[0] \in Nat /\ \A k \in 0 .. n : left[k] \in 0 .. left[0]
      /\ \A k \in 1 .. n : hits[k] \in OrderID /\ hits[k] # id
  BY <1>0, SweptFacts
<1>7. /\ left[0] \in Sizes /\ left \in [0 .. n -> 0 .. left[0]] /\ hits \in [1 .. n -> C]
      /\ Book!InPriority(side, price, hits, n) /\ Book!Gives(hits, left, n)
      /\ \A k \in 1 .. n : Order(pool[hits[k]]) = Book!Hit(id, hits, left, k)
      /\ events = Book!Trades(id, side, price, hits, left, n)
  BY <1>0, <1>1, <1>2 DEF Swept
<1>8. \A s \in C : s # r /\ (\A k \in 1 .. n : hits[k] # s) => Book!Better(before.resting, r, s)
  <2> SUFFICES ASSUME NEW s \in C, s # r, \A k \in 1 .. n : hits[k] # s
               PROVE  Book!Better(before.resting, r, s)
    OBVIOUS
  <2>1. s \in DOMAIN before.resting
    BY <1>2 DEF Book!Crossed
  <2>2. pool[s].active
    BY <2>1, UnhitStay
  <2> QED BY <2>2, <1>0, <1>1, <1>2
<1>9. PICK l : l = IF left[n] > before.resting[r].size THEN left[n] - before.resting[r].size ELSE 0
  OBVIOUS
<1>10. PICK hits2, left2 : OneMore(n, hits, left, r, l, hits2, left2)
  BY DEF OneMore
<1>11. Matching(n + 1, side, price, hits2, left2)
  <2>1. r \in C /\ left[n] > 0
    BY <1>0, <1>1, <1>2, <1>6
  <2>2. Matching(n, side, price, hits, left)
    BY <1>2, <1>6, <1>7 DEF Matching
  <2>3. Follows(n, side, price, hits, left, r)
    BY <2>1, <1>2, <1>4, <1>8 DEF Follows
  <2> QED BY <2>2, <2>3, <1>3, <1>9, <1>10, MatchGoesOn
<1>12. /\ Longer(n, hits, left, hits2, left2) /\ hits2[n + 1] = r /\ left2[n + 1] = l
       /\ left2[0] = left[0] /\ left2[n] = left[n]
  BY <1>10 DEF OneMore, Longer
<1>13. PICK qty : qty = Smaller(pool[id].size, pool[r].size)
  OBVIOUS
<1>14. /\ pool[r].size = before.resting[r].size /\ pool[r].size \in Nat
       /\ pool[r].price = before.resting[r].price
       /\ pool[r].side = before.resting[r].side /\ pool[r].fills = before.resting[r].fills
       /\ pool[r].qtyFilled = before.resting[r].qtyFilled
  BY <1>3, <1>5 DEF Order, IInv, TypeOK, Slot, Size
<1>15. left[n] \in Nat /\ l \in Nat /\ qty \in Nat /\ l = left[n] - qty
  <2>1. left[n] \in Nat
    BY <1>6
  <2> QED BY <2>1, <1>6, <1>9, <1>13, <1>14 DEF Smaller
<1>16. /\ Order(pool'[id]) = Filled(pool[id], r, pool[r].price, qty)
       /\ Order(pool'[r]) = Filled(pool[r], id, pool[r].price, qty)
       /\ \A x \in OrderID : x # id /\ x # r => pool'[x] = pool[x]
       /\ events' = events \o <<Book!Event("filled", r, Order(pool'[r])),
                                Book!Event("filled", id, Order(pool'[id]))>>
  <2>1. TypeOK /\ Fill(id, r)
    BY <1>0 DEF IInv
  <2> QED BY <2>1, <1>3, <1>13, FillOrders
<1>17. \A k \in 1 .. n : Book!Taken(left2, k) = Book!Taken(left, k) /\ hits2[k] = hits[k]
  <2> TAKE k \in 1 .. n
  <2>1. k \in 0 .. n /\ k - 1 \in 0 .. n
    OBVIOUS
  <2> QED BY <2>1, <1>12 DEF Longer, Book!Taken
<1>18. Book!Taken(left2, n + 1) = qty
  <2>1. (n + 1) - 1 = n
    OBVIOUS
  <2>2. Book!Taken(left2, n + 1) = left[n] - l
    BY <2>1, <1>12 DEF Book!Taken
  <2> QED BY <2>2, <1>15
<1>19. Order(pool'[id]) = Book!After(side, price, hits2, left2, n + 1)
  <2> DEFINE m == [order |-> r, price |-> pool[r].price, qty |-> qty]
             t == [i \in 1 .. n + 1 |-> [order |-> hits2[i], price |-> before.resting[hits2[i]].price,
                                         qty |-> Book!Taken(left2, i)]]
             s == pool[id].fills
  <2>1. t = Append(s, m)
    <3>1. s \in Seq(Match) /\ n = Len(s)
      BY <1>6 DEF IInv, TypeOK, Slot
    <3>2. t = [i \in 1 .. n + 1 |-> t[i]]
      OBVIOUS
    <3>3. \A i \in 1 .. n : t[i] = s[i]
      <4> TAKE i \in 1 .. n
      <4>1. i \in 1 .. n + 1
        OBVIOUS
      <4> QED BY <4>1, <1>6, <1>17
    <3>4. t[n + 1] = m
      <4>1. n + 1 \in 1 .. n + 1
        OBVIOUS
      <4> QED BY <4>1, <1>12, <1>14, <1>18
    <3>5. m \in Match
      <4>1. before.resting[r] \in OrderType
        BY <1>3 DEF BookOK
      <4>2. pool[r].price \in Price
        BY <4>1, <1>14 DEF OrderType
      <4>3. pool[id].size \in Size
        BY DEF IInv, TypeOK, Slot
      <4>4. qty \in Size
        BY <4>3, <1>13, <1>14, <1>15 DEF Size, Smaller
      <4> QED BY <4>2, <4>4, <1>3 DEF Match
    <3> HIDE DEF t, s, m
    <3>6. AddsOne(t, s, m)
      BY <3>1, <3>2, <3>3, <3>4 DEF AddsOne
    <3> QED BY <3>1, <3>5, <3>6, AppendIs
  <2>2. left2[n + 1] = pool[id].size - qty /\ left2[0] - left2[n + 1] = pool[id].qtyFilled + qty
    BY <1>6, <1>12, <1>15
  <2> HIDE DEF t, s, m
  <2>3. Filled(pool[id], r, pool[r].price, qty)
          = [side |-> side, price |-> price, size |-> left2[n + 1],
             qtyFilled |-> left2[0] - left2[n + 1], fills |-> t]
    BY <1>1, <2>1, <2>2 DEF Filled, s, m
  <2> QED BY <1>16, <2>3 DEF Book!After, t
<1>20. Order(pool'[r]) = Book!Hit(id, hits2, left2, n + 1)
  BY <1>12, <1>14, <1>16, <1>18 DEF Book!Hit, Filled
<1>21. pool'[id].side = pool[id].side /\ pool'[id].price = pool[id].price
  BY <1>16 DEF Order, Filled
<1>22. \A k \in 1 .. n + 1 : Order(pool'[hits2[k]]) = Book!Hit(id, hits2, left2, k)
  <2> TAKE k \in 1 .. n + 1
  <2>1. CASE k \in 1 .. n
    <3>1. pool'[hits[k]] = pool[hits[k]] /\ hits2[k] = hits[k]
      BY <2>1, <1>4, <1>6, <1>16, <1>17
    <3>2. Book!Hit(id, hits2, left2, k) = Book!Hit(id, hits, left, k)
      BY <2>1, <1>12, LongerKeeps
    <3> QED BY <2>1, <3>1, <3>2, <1>7
  <2>2. CASE k = n + 1
    BY <2>2, <1>12, <1>20
  <2> QED BY <2>1, <2>2
<1>23. \A x \in DOMAIN before.resting :
         (\A k \in 1 .. n + 1 : hits2[k] # x) => Order(pool'[x]) = before.resting[x]
  <2> SUFFICES ASSUME NEW x \in DOMAIN before.resting, \A k \in 1 .. n + 1 : hits2[k] # x
               PROVE  Order(pool'[x]) = before.resting[x]
    OBVIOUS
  <2>1. n + 1 \in 1 .. n + 1 /\ \A k \in 1 .. n : k \in 1 .. n + 1
    OBVIOUS
  <2>2. x # r /\ \A k \in 1 .. n : hits[k] # x
    BY <2>1, <1>12, <1>17
  <2>3. Order(pool[x]) = before.resting[x] /\ x \in OrderID /\ x # id
    BY <1>0, <2>2, UnhitStay
  <2> QED BY <2>2, <2>3, <1>16
<1>24. events' = Book!Trades(id, side, price, hits2, left2, n + 1)
  <2>1. Book!Trades(id, side, price, hits2, left2, n + 1)
          = Book!Trades(id, side, price, hits, left, n)
            \o <<Book!Event("filled", hits2[n + 1], Book!Hit(id, hits2, left2, n + 1)),
                 Book!Event("filled", id, Book!After(side, price, hits2, left2, n + 1))>>
    BY <1>12, TradesGrow
  <2> QED BY <2>1, <1>7, <1>12, <1>16, <1>19, <1>20
<1>25. /\ pool'[call.id].side = pool[call.id].side /\ pool'[call.id].price = pool[call.id].price
       /\ side = pool[call.id].side /\ price = pool[call.id].price
  BY <1>0, <1>1, <1>21
<1>26. /\ Book!Crossed(pool[call.id].side, pool[call.id].price)' = Book!Crossed(side, price)
       /\ Book!InPriority(pool[call.id].side, pool[call.id].price, hits2, n + 1)'
       /\ Book!Gives(hits2, left2, n + 1)'
       /\ Book!After(pool[call.id].side, pool[call.id].price, hits2, left2, n + 1)'
            = Book!After(side, price, hits2, left2, n + 1)
       /\ Book!Trades(call.id, pool[call.id].side, pool[call.id].price, hits2, left2, n + 1)'
            = Book!Trades(id, side, price, hits2, left2, n + 1)
  BY <1>0, <1>11, <1>25, MatchStays DEF Matching
<1>27. \A k \in 1 .. n + 1 : Book!Hit(call.id, hits2, left2, k)' = Book!Hit(id, hits2, left2, k)
  BY <1>0, <1>25, MatchStays
<1>28. left2[0] \in Sizes /\ left2 \in [0 .. n + 1 -> 0 .. left2[0]]
  BY <1>7, <1>11, <1>12 DEF Matching
<1>29. hits2 \in [1 .. n + 1 -> Book!Crossed(pool[call.id].side, pool[call.id].price)']
  BY <1>11, <1>26 DEF Matching
<1>30. call'.id = id
  BY <1>0
<1>31. Order(pool[call.id])'
         = Book!After(pool[call.id].side, pool[call.id].price, hits2, left2, n + 1)'
  BY <1>19, <1>26, <1>30 DEF Order
<1>32. (\A k \in 1 .. n + 1 : Order(pool[hits2[k]]) = Book!Hit(call.id, hits2, left2, k))'
  BY <1>22, <1>27 DEF Order
<1>33. (\A x \in DOMAIN before.resting :
          (\A k \in 1 .. n + 1 : hits2[k] # x) => Order(pool[x]) = before.resting[x])'
  BY <1>23 DEF Order
<1>34. events' = Book!Trades(call.id, pool[call.id].side, pool[call.id].price, hits2, left2, n + 1)'
  BY <1>24, <1>26
<1>35. Swept(n + 1, hits2, left2)'
  BY <1>26, <1>28, <1>29, <1>31, <1>32, <1>33, <1>34 DEF Swept
<1> QED BY <1>35

(* In the middle of a call the resting orders are a well-formed book. *)
LEMMA OthersOK ==
  IInv /\ Linked /\ call # Idle =>
    /\ BookOK(Others)
    /\ DOMAIN Others = Active(pool) \ {call.id}
    /\ \A x \in DOMAIN Others : Others[x] = Order(pool[x])
<1> SUFFICES ASSUME IInv, Linked, call # Idle
             PROVE  /\ BookOK(Others)
                    /\ DOMAIN Others = Active(pool) \ {call.id}
                    /\ \A x \in DOMAIN Others : Others[x] = Order(pool[x])
  OBVIOUS
<1>1. \A x \in OrderID : x # call.id => Kept(x)
  BY DEF Linked
<1>2. \A x \in OrderID : pool[x] \in Slot
  BY DEF IInv, TypeOK
<1>3. ASSUME NEW x \in Active(pool) \ {call.id} PROVE Order(pool[x]) \in OrderType
  <2>1. x \in OrderID /\ pool[x].active /\ x # call.id
    BY DEF Active
  <2>2. pool[x].size > 0 /\ pool[x].price \in Price /\ pool[x].side \in {"buy", "sell"}
    BY <2>1, <1>1 DEF Kept
  <2>3. pool[x].size \in Size /\ pool[x].qtyFilled \in Size /\ pool[x].fills \in Seq(Match)
    BY <2>1, <1>2 DEF Slot
  <2>4. pool[x].size \in 1 .. SizeMod - 1
    BY <2>2, <2>3 DEF Size
  <2> QED BY <2>2, <2>3, <2>4 DEF Order, OrderType
<1>4. /\ DOMAIN Others = Active(pool) \ {call.id}
      /\ \A x \in DOMAIN Others : Others[x] = Order(pool[x])
  BY DEF Others
<1>5. BookOK(Others)
  <2>1. Active(pool) \ {call.id} \subseteq OrderID
    BY DEF Active
  <2>2. Others \in [Active(pool) \ {call.id} -> OrderType]
    BY <1>3 DEF Others
  <2> QED BY <2>1, <2>2, <1>4 DEF BookOK
<1> QED BY <1>4, <1>5

(* A fill takes from one level what the new order gets, and no more. *)
LEMMA FillStarted ==
  ASSUME IInv, Linked, IInv', Linked', call # Idle, Started,
         NEW r \in OrderID, r # call.id, pool[r].active, pool[r].price \in Price,
         Fill(call.id, r), before' = before, call' = call
  PROVE  Started'
<1>0. PICK id \in OrderID : id = call.id
  BY RunningCall
<1>1. PICK old : old = before.resting
  OBVIOUS
<1>2. PICK o1 : o1 = Others
  OBVIOUS
<1>3. PICK o2 : o2 = Others'
  OBVIOUS
<1>4. /\ BookOK(o1) /\ DOMAIN o1 = Active(pool) \ {id}
      /\ \A x \in DOMAIN o1 : o1[x] = Order(pool[x])
  BY <1>0, <1>2, OthersOK
<1>5. /\ BookOK(o2) /\ DOMAIN o2 = Active(pool') \ {id}
      /\ \A x \in DOMAIN o2 : o2[x] = Order(pool'[x])
  <2>1. (IInv /\ Linked /\ call # Idle =>
           /\ BookOK(Others)
           /\ DOMAIN Others = Active(pool) \ {call.id}
           /\ \A x \in DOMAIN Others : Others[x] = Order(pool[x]))'
    BY OthersOK, PTL
  <2>2. (call # Idle)'
    BY DEF Idle
  <2> QED BY <2>1, <2>2, <1>0, <1>3
<1>6. PICK qty : qty = Smaller(pool[id].size, pool[r].size)
  OBVIOUS
<1>7. /\ Order(pool'[id]) = Filled(pool[id], r, pool[r].price, qty)
      /\ Order(pool'[r]) = Filled(pool[r], id, pool[r].price, qty)
      /\ \A x \in OrderID : x # id /\ x # r => pool'[x] = pool[x]
      /\ events' = events \o <<Book!Event("filled", r, Order(pool'[r])),
                               Book!Event("filled", id, Order(pool'[id]))>>
  <2>1. TypeOK /\ Fill(id, r) /\ id # r
    BY <1>0 DEF IInv
  <2> QED BY <2>1, <1>0, <1>6, FillOrders
<1>8. /\ \A x \in OrderID : pool'[x].active => pool[x].active
      /\ pool'[r].active = (pool'[r].size > 0)
  <2>1. TypeOK /\ SizeOK /\ Fill(id, r)
    BY <1>0 DEF IInv
  <2> QED BY <2>1, <1>0, FillProps
<1>9. /\ pool'[r].size = pool[r].size - qty /\ pool'[r].side = pool[r].side
      /\ pool'[r].price = pool[r].price /\ pool'[id].qtyFilled = pool[id].qtyFilled + qty
  BY <1>7 DEF Order, Filled
<1>10. pool[r].size \in Nat /\ pool[id].size \in Nat /\ pool[id].qtyFilled \in Nat
  <2>1. pool[r] \in Slot /\ pool[id] \in Slot
    BY <1>0 DEF IInv, TypeOK
  <2> QED BY <2>1 DEF Slot, Size
<1>11. qty \in Nat /\ qty <= pool[r].size
  BY <1>6, <1>10 DEF Smaller
<1>12. SameBut(r, o1, o2)
  <2>1. ASSUME NEW x \in OrderID, x # r
        PROVE  /\ x \in DOMAIN o1 <=> x \in DOMAIN o2
               /\ x \in DOMAIN o1 => o1[x] = o2[x]
    <3>1. CASE x = id
      BY <3>1, <1>4, <1>5
    <3>2. CASE x # id
      <4>1. pool'[x] = pool[x]
        BY <2>1, <3>2, <1>7
      <4> QED BY <4>1, <1>4, <1>5 DEF Active
    <3> QED BY <3>1, <3>2
  <2> QED BY <2>1, <1>4, <1>5 DEF SameBut
<1>13. ASSUME NEW side \in {"buy", "sell"}, NEW p \in 0 .. MaxPrice
       PROVE  Book!Level(old, side, p) - Book!Level(o2, side, p) \in 0 .. pool'[id].qtyFilled
  <2>1. PICK a, b, c : /\ a = Book!Level(old, side, p) /\ b = Book!Level(o1, side, p)
                       /\ c = Book!Level(o2, side, p)
    OBVIOUS
  <2>2. a \in Nat /\ b \in Nat /\ c \in Nat
    <3>1. BookOK(old)
      BY <1>1 DEF Started
    <3> QED BY <2>1, <3>1, <1>4, <1>5, LevelNat
  <2>3. a - b \in 0 .. pool[id].qtyFilled
    BY <2>1, <1>0, <1>1, <1>2 DEF Started
  <2>4. PICK w, v : w = Weights(o1, side, p)[r] /\ v = Weights(o2, side, p)[r]
    OBVIOUS
  <2>5. b - c = w - v
    BY <2>1, <2>4, <1>12, LevelMoves
  <2>6. w - v \in 0 .. qty
    <3>1. r \in DOMAIN o1 /\ o1[r].side = pool[r].side /\ o1[r].price = pool[r].price
          /\ o1[r].size = pool[r].size
      <4>1. r \in DOMAIN o1
        BY <1>0, <1>4 DEF Active
      <4>2. o1[r] = Order(pool[r])
        BY <4>1, <1>4
      <4> QED BY <4>1, <4>2 DEF Order
    <3>2. w = IF pool[r].side = side /\ pool[r].price = p THEN pool[r].size ELSE 0
      BY <2>4, <3>1 DEF Weights, Book!On
    <3>3. v = IF pool[r].side = side /\ pool[r].price = p THEN pool[r].size - qty ELSE 0
      <4>1. CASE pool'[r].active
        <5>1. r \in DOMAIN o2 /\ o2[r].side = pool[r].side /\ o2[r].price = pool[r].price
              /\ o2[r].size = pool[r].size - qty
          <6>1. r \in DOMAIN o2
            BY <1>0, <1>5, <4>1 DEF Active
          <6>2. o2[r] = Order(pool'[r])
            BY <6>1, <1>5
          <6> QED BY <6>1, <6>2, <1>9 DEF Order
        <5> QED BY <2>4, <5>1 DEF Weights, Book!On
      <4>2. CASE ~pool'[r].active
        <5>1. r \notin DOMAIN o2
          BY <1>5, <4>2 DEF Active
        <5>2. v = 0
          BY <2>4, <5>1 DEF Weights, Book!On
        <5>3. ~(pool'[r].size > 0)
          BY <4>2, <1>8
        <5>4. pool[r].size - qty = 0
          BY <5>3, <1>9, <1>10, <1>11
        <5> QED BY <5>2, <5>4
      <4> QED BY <4>1, <4>2
    <3> QED BY <3>2, <3>3, <1>10, <1>11
  <2> QED BY <2>1, <2>2, <2>3, <2>5, <2>6, <1>9, <1>10, <1>11
<1>14. Active(pool') \ {id} \subseteq DOMAIN old
  <2>1. Active(pool) \ {id} \subseteq DOMAIN old
    BY <1>0, <1>1 DEF Started
  <2> QED BY <2>1, <1>8 DEF Active
<1>15. /\ before.nextId = id /\ BookOK(old) /\ id \notin DOMAIN old /\ call.prev = Book!Quote(old)
  BY <1>0, <1>1 DEF Started
<1>16. call'.id = id /\ before'.resting = old /\ call'.prev = call.prev
       /\ before'.nextId = before.nextId
  BY <1>0, <1>1
<1>17. (Active(pool) \ {call.id} \subseteq DOMAIN before.resting)'
  BY <1>14, <1>16
<1>18. (\A side \in {"buy", "sell"}, p \in 0 .. MaxPrice :
          Book!Level(before.resting, side, p) - Book!Level(Others, side, p)
            \in 0 .. pool[call.id].qtyFilled)'
  BY <1>3, <1>13, <1>16
<1>19. (call.prev = Book!Quote(before.resting))' /\ BookOK(before.resting)'
  BY <1>15, <1>16
<1> QED BY <1>15, <1>16, <1>17, <1>18, <1>19 DEF Started

(* The first live order of a level is its oldest. *)
LEMMA HeadIsOldest ==
  ASSUME NEW q \in Seq(OrderID), Rising(q), NEW A, DropUntil(q, A) # <<>>,
         NEW x \in Members(q) \cap A
  PROVE  Head(DropUntil(q, A)) <= x
<1> DEFINE d == DropUntil(q, A)
<1>1. d \in Seq(OrderID) /\ d # <<>> /\ x \in Members(d)
  BY DropUntilProps
<1>2. Rising(d)
  <2>1. q \in Seq(Nat)
    BY DEF OrderID
  <2> QED BY <2>1, DropUntilRising
<1> HIDE DEF d
<1>3. PICK i \in 1 .. Len(d) : d[i] = x
  BY <1>1 DEF Members
<1>4. 1 \in 1 .. Len(d) /\ Head(d) = d[1] /\ Len(d) \in Nat /\ d[1] \in Nat
  BY <1>1 DEF OrderID
<1>5. i = 1 \/ 1 < i
  BY <1>3
<1>6. Head(d) <= x
  <2>1. CASE i = 1
    BY <2>1, <1>3, <1>4
  <2>2. CASE 1 < i
    <3>1. d[1] < d[i]
      BY <2>2, <1>2, <1>3, <1>4 DEF Rising
    <3>2. d[i] \in Nat
      BY <1>1, <1>3 DEF OrderID
    <3> QED BY <3>1, <3>2, <1>3, <1>4
  <2> QED BY <2>1, <2>2, <1>5
<1> QED BY <1>6 DEF d

(* The number of trades is the number of fills. *)
LEMMA SweptIsSweeping ==
  IInv /\ Linked /\ call # Idle /\ Started /\ (\E n \in Nat : \E hits, left : Swept(n, hits, left))
    => Sweeping
<1> SUFFICES ASSUME IInv, Linked, call # Idle, Started, NEW n \in Nat, NEW hits, NEW left,
                    Swept(n, hits, left)
             PROVE  Sweeping
  OBVIOUS
<1>1. Len(pool[call.id].fills) = n /\ \A k \in 1 .. n : hits[k] \in OrderID
  BY SweptFacts
<1>2. hits \in [1 .. n -> OrderID]
  <2>1. hits \in [1 .. n -> Book!Crossed(pool[call.id].side, pool[call.id].price)]
    BY DEF Swept
  <2> QED BY <2>1, <1>1
<1>3. left \in [0 .. n -> Size]
  <2>1. left \in [0 .. n -> 0 .. left[0]] /\ left[0] \in Sizes
    BY DEF Swept
  <2>2. left[0] \in 0 .. SizeMod - 1
    BY <2>1
  <2> QED BY <2>1, <2>2 DEF Size
<1> QED BY <1>1, <1>2, <1>3 DEF Sweeping

(* r is the best live order against a new one of this side and price. *)
BestLive(r, side, price) ==
  /\ r \in Active(pool) \ {call.id}
  /\ pool[r].side # side
  /\ ~Book!Beats(side, pool[r].price, price)
  /\ \A s \in Active(pool) \ {call.id} :
       s # r /\ pool[s].side # side =>
         Book!Beats(pool[r].side, pool[r].price, pool[s].price)
         \/ (pool[r].price = pool[s].price /\ r < s)

(* A fill of the best live order goes on with the match. *)
LEMMA FillHistory ==
  ASSUME IInv, Linked, IInv', Linked', call # Idle, Started, Sweeping, pool[call.id].size > 0,
         NEW r, BestLive(r, pool[call.id].side, pool[call.id].price),
         Fill(call.id, r), before' = before, call' = call
  PROVE  Started' /\ Sweeping'
<1>0. (IInv /\ Linked /\ call # Idle /\ Started /\ (\E n \in Nat : \E hits, left : Swept(n, hits, left))
         => Sweeping)'
  BY SweptIsSweeping, PTL
<1>1. PICK id, side, price : id = call.id /\ side = pool[id].side /\ price = pool[id].price
  OBVIOUS
<1>2. PICK n, hits, left : n \in Nat /\ Swept(n, hits, left)
  <2>1. pool[call.id].fills \in Seq(Match)
    BY RunningCall DEF Slot
  <2> QED BY <2>1 DEF Sweeping
<1>3. ASSUME NEW s \in Active(pool) \ {id}
      PROVE  /\ s \in DOMAIN before.resting /\ s \in OrderID
             /\ before.resting[s].price = pool[s].price /\ before.resting[s].side = pool[s].side
  <2>1. s \in DOMAIN before.resting /\ s \in OrderID /\ pool[s].active
    BY <1>1 DEF Started, Active
  <2>2. \A k \in 1 .. n : hits[k] # s
    BY <2>1, <1>2, HitsUsedUp
  <2>3. Order(pool[s]) = before.resting[s]
    BY <2>1, <2>2, <1>2 DEF Swept
  <2> QED BY <2>1, <2>3 DEF Order
<1>4. r \in Active(pool) \ {id} /\ pool[r].side # side /\ ~Book!Beats(side, pool[r].price, price)
  BY <1>1 DEF BestLive
<1>5. r \in OrderID /\ pool[r].active /\ r # call.id
  BY <1>1, <1>4 DEF Active
<1>6. r \in Book!Crossed(side, price)
  BY <1>3, <1>4 DEF Book!Crossed
<1>7. ASSUME NEW s \in Book!Crossed(side, price), pool[s].active, s # r
      PROVE  Book!Better(before.resting, r, s)
  <2>1. s \in DOMAIN before.resting /\ before.resting[s].side # side
    BY DEF Book!Crossed
  <2>2. s \in OrderID /\ s # id
    BY <1>1, <2>1 DEF Started, BookOK
  <2>3. s \in Active(pool) \ {id}
    BY <1>7, <2>2 DEF Active
  <2>4. before.resting[s].price = pool[s].price /\ before.resting[s].side = pool[s].side
    BY <2>3, <1>3
  <2>5. before.resting[r].price = pool[r].price /\ before.resting[r].side = pool[r].side
    BY <1>3, <1>4
  <2>6. Book!Beats(pool[r].side, pool[r].price, pool[s].price)
        \/ (pool[r].price = pool[s].price /\ r < s)
    BY <2>1, <2>3, <2>4, <1>1, <1>7 DEF BestLive
  <2> QED BY <2>4, <2>5, <2>6 DEF Book!Better
<1>8. \E hits2, left2 : Swept(n + 1, hits2, left2)'
  BY <1>1, <1>2, <1>5, <1>6, <1>7, FillSwept
<1>9. pool[r].price \in Price
  BY <1>5 DEF Linked, Kept
<1>10. Started'
  BY <1>5, <1>9, FillStarted
<1>11. (\E m \in Nat : \E h, l : Swept(m, h, l))'
  <2>1. n + 1 \in Nat
    BY <1>2
  <2> QED BY <2>1, <1>8
<1>12. (call # Idle)'
  BY DEF Idle
<1> QED BY <1>0, <1>10, <1>11, <1>12

(* The oldest live order of the best ask is the best live ask. *)
LEMMA MatchBuyFillHistory ==
  ASSUME IInv, Linked, IInv', Linked', TimePriority, Started, Sweeping, MatchBuyFill, before' = before
  PROVE  Started' /\ Sweeping'
<1> DEFINE q == DropUntil(sells[askMin], Active(pool))
           r == Head(q)
<1>1. q # <<>> /\ Fill(call.id, r) /\ call' = call /\ MatchBuyCond
  BY DEF MatchBuyFill
<1>2. call # Idle /\ askMin \in Price /\ sells[askMin] \in Seq(OrderID)
  BY <1>1, BuyReach
<1>3. call.phase = "buy" /\ pool[call.id].size > 0 /\ askMin <= pool[call.id].price
  BY <1>1 DEF MatchBuyCond
<1>4. /\ q \in Seq(OrderID) /\ Members(q) \subseteq Members(sells[askMin]) /\ r \in Active(pool)
  BY <1>1, <1>2, DropUntilProps
<1>5. r \in Members(sells[askMin])
  <2> HIDE DEF q
  <2>1. Members(q) = {Head(q)} \cup Members(Tail(q))
    BY <1>1, <1>4, MembersTail
  <2> QED BY <2>1, <1>4
<1>6. \A s \in Members(sells[askMin]) \cap Active(pool) : r <= s
  <2>1. Rising(sells[askMin])
    BY <1>2 DEF TimePriority, Rising
  <2> QED BY <2>1, <1>1, <1>2, HeadIsOldest
<1> HIDE DEF q, r
<1>7. r \in OrderID /\ pool[r].active /\ pool[r].price = askMin /\ r # call.id
  BY <1>2, <1>4, <1>5 DEF Active, IInv, QueueOK
<1>8. pool[r].side = "sell" /\ pool[call.id].side = "buy"
  BY <1>2, <1>3, <1>5, <1>7 DEF Linked, SidesOK
<1>9. ASSUME NEW s \in Active(pool) \ {call.id}, s # r, pool[s].side # "buy"
      PROVE  askMin < pool[s].price \/ (askMin = pool[s].price /\ r < s)
  <2>1. s \in OrderID /\ pool[s].active /\ s # call.id
    BY DEF Active
  <2>2. pool[s].price \in Price /\ s \in Members(sells[pool[s].price])
    BY <2>1, <1>9 DEF Linked, Kept
  <2>3. LiveAsk(pool[s].price)
    BY <2>2 DEF LiveAsk
  <2>4. pool[s].price >= askMin
    BY <2>2, <2>3 DEF IInv, CacheOK
  <2>5. askMin = pool[s].price => r <= s
    BY <2>2, <1>6
  <2>6. askMin \in Int /\ pool[s].price \in Int /\ r \in Int /\ s \in Int
    BY <2>1, <2>2, <1>2, <1>7 DEF OrderID, Price
  <2> QED BY <2>4, <2>5, <2>6, <1>9
<1>10. pool[call.id].price \in Price
  BY <1>2, RunningCall
<1>11. BestLive(r, pool[call.id].side, pool[call.id].price)
  <2>1. ~(askMin > pool[call.id].price)
    BY <1>2, <1>3, <1>10 DEF Price
  <2> QED BY <2>1, <1>4, <1>7, <1>8, <1>9 DEF BestLive, Book!Beats
<1> QED BY <1>1, <1>2, <1>3, <1>11, FillHistory

(* The oldest live order of the best bid is the best live bid. *)
LEMMA MatchSellFillHistory ==
  ASSUME IInv, Linked, IInv', Linked', TimePriority, Started, Sweeping, MatchSellFill, before' = before
  PROVE  Started' /\ Sweeping'
<1> DEFINE q == DropUntil(buys[bidMax], Active(pool))
           r == Head(q)
<1>1. q # <<>> /\ Fill(call.id, r) /\ call' = call /\ MatchSellCond
  BY DEF MatchSellFill
<1>2. call # Idle /\ bidMax \in Price /\ buys[bidMax] \in Seq(OrderID)
  BY <1>1, SellReach
<1>3. call.phase = "sell" /\ pool[call.id].size > 0 /\ bidMax >= pool[call.id].price
  BY <1>1 DEF MatchSellCond
<1>4. /\ q \in Seq(OrderID) /\ Members(q) \subseteq Members(buys[bidMax]) /\ r \in Active(pool)
  BY <1>1, <1>2, DropUntilProps
<1>5. r \in Members(buys[bidMax])
  <2> HIDE DEF q
  <2>1. Members(q) = {Head(q)} \cup Members(Tail(q))
    BY <1>1, <1>4, MembersTail
  <2> QED BY <2>1, <1>4
<1>6. \A s \in Members(buys[bidMax]) \cap Active(pool) : r <= s
  <2>1. Rising(buys[bidMax])
    BY <1>2 DEF TimePriority, Rising
  <2> QED BY <2>1, <1>1, <1>2, HeadIsOldest
<1> HIDE DEF q, r
<1>7. r \in OrderID /\ pool[r].active /\ pool[r].price = bidMax /\ r # call.id
  BY <1>2, <1>4, <1>5 DEF Active, IInv, QueueOK
<1>8. pool[r].side = "buy" /\ pool[call.id].side = "sell"
  BY <1>2, <1>3, <1>5, <1>7 DEF Linked, SidesOK
<1>9. ASSUME NEW s \in Active(pool) \ {call.id}, s # r, pool[s].side # "sell"
      PROVE  bidMax > pool[s].price \/ (bidMax = pool[s].price /\ r < s)
  <2>1. s \in OrderID /\ pool[s].active /\ s # call.id
    BY DEF Active
  <2>2. pool[s].price \in Price /\ s \in Members(buys[pool[s].price])
    BY <2>1, <1>9 DEF Linked, Kept
  <2>3. LiveBid(pool[s].price)
    BY <2>2 DEF LiveBid
  <2>4. pool[s].price <= bidMax
    BY <2>2, <2>3 DEF IInv, CacheOK
  <2>5. bidMax = pool[s].price => r <= s
    BY <2>2, <1>6
  <2>6. bidMax \in Int /\ pool[s].price \in Int /\ r \in Int /\ s \in Int
    BY <2>1, <2>2, <1>2, <1>7 DEF OrderID, Price
  <2> QED BY <2>4, <2>5, <2>6, <1>9
<1>10. pool[call.id].price \in Price
  BY <1>2, RunningCall
<1>11. BestLive(r, pool[call.id].side, pool[call.id].price)
  <2>1. ~(bidMax < pool[call.id].price)
    BY <1>2, <1>3, <1>10 DEF Price
  <2> QED BY <2>1, <1>4, <1>7, <1>8, <1>9 DEF BestLive, Book!Beats
<1> QED BY <1>1, <1>2, <1>3, <1>11, FillHistory

(* A step that changes no order leaves the match as it is. *)
LEMMA QuietHistory ==
  ASSUME Started, Sweeping, UNCHANGED <<pool, call, events, before>>
  PROVE  Started' /\ Sweeping'
<1>1. PICK n, hits, left : /\ n = Len(pool[call.id].fills) /\ hits \in [1 .. n -> OrderID]
                           /\ left \in [0 .. n -> Size] /\ Swept(n, hits, left)
  BY DEF Sweeping
<1>2. /\ Book!Crossed(pool[call.id].side, pool[call.id].price)'
           = Book!Crossed(pool[call.id].side, pool[call.id].price)
      /\ Book!InPriority(pool[call.id].side, pool[call.id].price, hits, n)'
           <=> Book!InPriority(pool[call.id].side, pool[call.id].price, hits, n)
      /\ Book!Gives(hits, left, n)' <=> Book!Gives(hits, left, n)
      /\ Book!After(pool[call.id].side, pool[call.id].price, hits, left, n)'
           = Book!After(pool[call.id].side, pool[call.id].price, hits, left, n)
      /\ Book!Trades(call.id, pool[call.id].side, pool[call.id].price, hits, left, n)'
           = Book!Trades(call.id, pool[call.id].side, pool[call.id].price, hits, left, n)
  BY MatchStays
<1>3. \A k : Book!Hit(call.id, hits, left, k)' = Book!Hit(call.id, hits, left, k)
  BY MatchStays
<1>4. Swept(n, hits, left)'
  BY <1>1, <1>2, <1>3 DEF Swept, Order
<1>5. Sweeping'
  BY <1>1, <1>4 DEF Sweeping
<1>6. Others' = Others
  BY DEF Others, Order, Active
<1>7. Started'
  BY <1>6 DEF Started, Active
<1> QED BY <1>5, <1>7

(* A call starts from the book its callers see, with no trade. *)
LEMMA LimitStartHistory ==
  ASSUME IInv, Linked, TimePriority, IInv', Linked', before = Seen, before' = before,
         NEW side \in {"buy", "sell"}, NEW price \in Price, NEW size \in Sizes,
         LimitStart(side, price, size)
  PROVE  Started' /\ Sweeping'
<1>0. (IInv /\ Linked /\ call # Idle /\ Started /\ (\E n \in Nat : \E hits, left : Swept(n, hits, left))
         => Sweeping)'
  BY SweptIsSweeping, PTL
<1>1. PICK id : id = poolTop
  OBVIOUS
<1>2. /\ call = Idle /\ id \in OrderID /\ pool' = [pool EXCEPT ![id] = Alloc(side, price, size)]
      /\ call' = [phase |-> side, id |-> id, prev |-> BBO] /\ events' = <<>>
  BY <1>1 DEF LimitStart, IInv, TypeOK, OrderID
<1>3. call' # Idle /\ call'.id = id /\ call'.prev = BBO
  BY <1>2 DEF Idle
<1>4. /\ pool'[id] = Alloc(side, price, size)
      /\ \A x \in OrderID : x # id => pool'[x] = pool[x]
  BY <1>2 DEF IInv, TypeOK
<1>5. id \notin Active(pool)
  <2> SUFFICES ASSUME pool[id].active PROVE FALSE
    BY DEF Active
  <2>1. \E p \in Price : id \in Members(buys[p]) \/ id \in Members(sells[p])
    BY <1>2 DEF Linked, Kept
  <2>2. id < poolTop
    BY <2>1 DEF IInv, QueueOK
  <2> QED BY <1>1, <2>2 DEF IInv, TypeOK
<1>6. Active(pool') \ {id} = Active(pool)
  BY <1>4, <1>5 DEF Active
<1>7. Others' = Visible
  <2>1. \A x \in Active(pool) : pool'[x] = pool[x]
    BY <1>4, <1>5 DEF Active
  <2> QED BY <2>1, <1>3, <1>6 DEF Others, Visible, Order
<1>8. before.resting = Visible /\ before.nextId = id
  BY <1>1 DEF Seen
<1>9. BookOK(Visible) /\ DOMAIN Visible = Active(pool)
  BY <1>2, VisibleOK
<1>10. BBO = Book!Quote(Visible)
  BY <1>2, QuoteIsBBO
<1>11. Started'
  <2>1. PICK old : old = Visible
    OBVIOUS
  <2>2. /\ before'.resting = old /\ before'.nextId = call'.id /\ Others' = old
        /\ call'.prev = Book!Quote(old) /\ BookOK(old) /\ call'.id \notin DOMAIN old
        /\ Active(pool') \ {call'.id} \subseteq DOMAIN old
    BY <2>1, <1>3, <1>5, <1>6, <1>7, <1>8, <1>9, <1>10
  <2>3. pool'[call'.id].qtyFilled = 0
    BY <1>3, <1>4 DEF Alloc
  <2>4. \A s, p : Book!Level(old, s, p) - Book!Level(old, s, p) = 0
    <3> TAKE s, p
    <3>1. Book!Level(old, s, p) \in Nat
      BY <2>2, LevelNat
    <3> QED BY <3>1
  <2>5. (\A s \in {"buy", "sell"}, p \in 0 .. MaxPrice :
           Book!Level(before.resting, s, p) - Book!Level(Others, s, p) \in 0 .. pool[call.id].qtyFilled)'
    BY <2>2, <2>3, <2>4
  <2> QED BY <2>2, <2>5 DEF Started
<1>12. size \in Nat
  OBVIOUS
<1>13. PICK hits, left : hits = [k \in 1 .. 0 |-> 0] /\ left = [k \in 0 .. 0 |-> size]
  OBVIOUS
<1>14. left[0] = size /\ \A k \in 1 .. 0 : FALSE
  BY <1>13
<1>15. /\ pool'[id].side = side /\ pool'[id].price = price
       /\ Order(pool'[id]) = [side |-> side, price |-> price, size |-> left[0], qtyFilled |-> 0,
                              fills |-> <<>>]
  BY <1>4, <1>14 DEF Alloc, Order
<1>16. /\ (left[0] \in Sizes)' /\ left \in [0 .. 0 -> 0 .. left[0]]
       /\ (hits \in [1 .. 0 -> Book!Crossed(pool[call.id].side, pool[call.id].price)])'
       /\ Book!InPriority(pool[call.id].side, pool[call.id].price, hits, 0)'
       /\ Book!Gives(hits, left, 0)'
  BY <1>12, <1>13, <1>14 DEF Book!InPriority, Book!Gives
<1>17. (events = Book!Trades(call.id, pool[call.id].side, pool[call.id].price, hits, left, 0))'
  <2>1. 2 * 0 = 0
    OBVIOUS
  <2> QED BY <2>1, <1>2 DEF Book!Trades
<1>18. (Order(pool[call.id]) = Book!After(pool[call.id].side, pool[call.id].price, hits, left, 0))'
  <2>1. left[0] - left[0] = 0
    BY <1>12, <1>14
  <2>2. [i \in 1 .. 0 |-> [order |-> hits[i], price |-> before'.resting[hits[i]].price,
                          qty |-> left[i - 1] - left[i]]] = <<>>
    OBVIOUS
  <2> QED BY <2>1, <2>2, <1>3, <1>15 DEF Book!After, Book!Taken
<1>19. (\A r \in DOMAIN before.resting :
          (\A k \in 1 .. 0 : hits[k] # r) => Order(pool[r]) = before.resting[r])'
  <2>1. ASSUME NEW r \in Active(pool) PROVE Order(pool'[r]) = Visible[r]
    BY <1>4, <1>5 DEF Visible, Active
  <2> QED BY <2>1, <1>8, <1>9
<1>20. (\A k \in 1 .. 0 : Order(pool[hits[k]]) = Book!Hit(call.id, hits, left, k))'
  BY <1>14
<1>21. Swept(0, hits, left)'
  BY <1>16, <1>17, <1>18, <1>19, <1>20 DEF Swept
<1> QED BY <1>0, <1>3, <1>11, <1>21 DEF Idle

(* An order trades with each other order once at most. *)
LEMMA FewTrades ==
  ASSUME NEW n \in Nat, NEW hits \in [1 .. n -> OrderID],
         \A i, j \in 1 .. n : i < j => hits[i] # hits[j]
  PROVE  n \in 0 .. MaxOrders
<1>1. IsFiniteSet(1 .. n) /\ Cardinality(1 .. n) = n
  <2>1. 1 \in Int /\ n \in Int
    OBVIOUS
  <2>2. /\ IsFiniteSet(1 .. n)
        /\ Cardinality(1 .. n) = IF 1 > n THEN 0 ELSE n - 1 + 1
    BY <2>1, FS_Interval
  <2> QED BY <2>2
<1>2. IsFiniteSet(OrderID) /\ Cardinality(OrderID) = MaxOrders - 1
  <2>1. 1 \in Int /\ MaxOrders - 1 \in Int
    OBVIOUS
  <2>2. /\ IsFiniteSet(1 .. MaxOrders - 1)
        /\ Cardinality(1 .. MaxOrders - 1)
             = IF 1 > MaxOrders - 1 THEN 0 ELSE (MaxOrders - 1) - 1 + 1
    BY <2>1, FS_Interval
  <2> QED BY <2>2 DEF OrderID
<1>3. SUFFICES ASSUME Cardinality(OrderID) < Cardinality(1 .. n) PROVE FALSE
  BY <1>1, <1>2
<1>4. PICK i, j \in 1 .. n : i # j /\ hits[i] = hits[j]
  BY <1>1, <1>2, <1>3, FS_PigeonHole
<1> QED BY <1>4

(* The number of trades of a match is within the bound. *)
LEMMA SweptFew ==
  ASSUME IInv, Linked, call # Idle, Started, NEW n \in Nat, NEW hits, NEW left, Swept(n, hits, left)
  PROVE  n \in 0 .. MaxOrders
<1>1. hits \in [1 .. n -> OrderID]
  <2>1. \A k \in 1 .. n : hits[k] \in OrderID
    BY SweptFacts
  <2>2. hits \in [1 .. n -> Book!Crossed(pool[call.id].side, pool[call.id].price)]
    BY DEF Swept
  <2> QED BY <2>1, <2>2
<1>2. ASSUME NEW i \in 1 .. n, NEW j \in 1 .. n, i < j PROVE hits[i] # hits[j]
  <2>1. Book!Better(before.resting, hits[i], hits[j])
    BY <1>2 DEF Swept, Book!InPriority
  <2>2. before.resting[hits[i]].price \in Int /\ hits[i] \in Int
    <3>1. hits[i] \in DOMAIN before.resting /\ hits[i] \in OrderID
      BY SweptFacts
    <3> QED BY <3>1 DEF Started, BookOK, OrderType, Price, OrderID
  <2> SUFFICES ASSUME hits[i] = hits[j] PROVE FALSE
    OBVIOUS
  <2> QED BY <2>1, <2>2 DEF Book!Better, Book!Beats
<1> QED BY <1>1, <1>2, FewTrades

-----------------------------------------------------------------------------
(* What callers are shown of the events *)

(* It is shown event by event. *)
LEMMA ShownConcat ==
  ASSUME NEW S, NEW s \in Seq(S), NEW t \in Seq(S)
  PROVE  Shown(s \o t) = Shown(s) \o Shown(t)
<1> DEFINE R == {Told(x) : x \in S}
           a == Shown(s)
           b == Shown(t)
<1>1. /\ a = [i \in 1 .. Len(s) |-> Told(s[i])]
      /\ b = [i \in 1 .. Len(t) |-> Told(t[i])]
  BY DEF Shown
<1>2. /\ Len(s) \in Nat /\ \A i \in 1 .. Len(s) : s[i] \in S
      /\ Len(t) \in Nat /\ \A i \in 1 .. Len(t) : t[i] \in S
  OBVIOUS
<1>3. a \in [1 .. Len(s) -> R] /\ b \in [1 .. Len(t) -> R]
  BY <1>1, <1>2
<1> HIDE DEF R, a, b
<1>4. a \in Seq(R) /\ b \in Seq(R) /\ Len(a) = Len(s) /\ Len(b) = Len(t)
  BY <1>2, <1>3
<1>5. PICK u : u = s \o t
  OBVIOUS
<1>6. /\ DOMAIN u = 1 .. Len(s) + Len(t)
      /\ \A i \in 1 .. Len(s) + Len(t) : u[i] = IF i <= Len(s) THEN s[i] ELSE t[i - Len(s)]
  BY <1>5
<1>7. Shown(u) = [i \in 1 .. Len(s) + Len(t) |-> Told(u[i])]
  BY <1>6 DEF Shown
<1>8. a \o b = [i \in 1 .. Len(s) + Len(t) |-> IF i <= Len(s) THEN a[i] ELSE b[i - Len(s)]]
  <2>1. PICK w : w = a \o b
    OBVIOUS
  <2>2. /\ w \in Seq(R) /\ Len(w) = Len(s) + Len(t)
        /\ \A i \in 1 .. Len(s) + Len(t) : w[i] = IF i <= Len(s) THEN a[i] ELSE b[i - Len(s)]
    <3>0. a \in Seq(R) /\ b \in Seq(R)
      BY <1>4
    <3>1. w \in Seq(R) /\ Len(w) = Len(a) + Len(b)
      BY <2>1, <3>0
    <3>2. \A i \in 1 .. Len(a) + Len(b) : w[i] = IF i <= Len(a) THEN a[i] ELSE b[i - Len(a)]
      BY <2>1, <1>4
    <3> QED BY <3>1, <3>2, <1>4
  <2>3. w = [i \in 1 .. Len(s) + Len(t) |-> w[i]]
    BY <2>2
  <2> QED BY <2>1, <2>2, <2>3
<1>9. \A i \in 1 .. Len(s) + Len(t) :
        Told(u[i]) = IF i <= Len(s) THEN a[i] ELSE b[i - Len(s)]
  <2> TAKE i \in 1 .. Len(s) + Len(t)
  <2>1. CASE i <= Len(s)
    <3>1. i \in 1 .. Len(s)
      BY <1>2, <2>1
    <3> QED BY <3>1, <2>1, <1>1, <1>6
  <2>2. CASE ~(i <= Len(s))
    <3>1. i - Len(s) \in 1 .. Len(t)
      BY <1>2, <2>2
    <3> QED BY <3>1, <2>2, <1>1, <1>6
  <2> QED BY <2>1, <2>2
<1>10. Shown(u) = a \o b
  BY <1>7, <1>8, <1>9
<1> QED BY <1>5, <1>10 DEF a, b

(* One event, or none. *)
LEMMA ShownOne ==
  /\ Shown(<<>>) = <<>>
  /\ \A e : Shown(<<e>>) = <<Told(e)>>
<1>1. Shown(<<>>) = <<>>
  BY DEF Shown
<1>2. ASSUME NEW e PROVE Shown(<<e>>) = <<Told(e)>>
  BY DEF Shown
<1> QED BY <1>1, <1>2

(* Trades are shown as they are. *)
LEMMA ShownTrades ==
  ASSUME NEW id, NEW side, NEW price, NEW hits, NEW left, NEW n \in Nat
  PROVE  Shown(Book!Trades(id, side, price, hits, left, n)) = Book!Trades(id, side, price, hits, left, n)
<1> DEFINE s == Book!Trades(id, side, price, hits, left, n)
<1>1. \A x, o : Told(Book!Event("filled", x, o)) = Book!Event("filled", x, o)
  BY DEF Told, Book!Event
<1>2. s = [i \in 1 .. 2 * n |-> s[i]]
  BY DEF Book!Trades
<1>3. \A i \in 1 .. 2 * n : \E x, o : s[i] = Book!Event("filled", x, o)
  <2> TAKE i \in 1 .. 2 * n
  <2> DEFINE k == (i + 1) \div 2
  <2>1. s[i] = IF i = 2 * k - 1 THEN Book!Event("filled", hits[k], Book!Hit(id, hits, left, k))
               ELSE Book!Event("filled", id, Book!After(side, price, hits, left, k))
    BY DEF Book!Trades
  <2> HIDE DEF k, s
  <2> QED BY <2>1
<1> HIDE DEF s
<1>4. \A i \in 1 .. 2 * n : Told(s[i]) = s[i]
  BY <1>1, <1>3
<1>5. Shown(s) = [i \in 1 .. 2 * n |-> Told(s[i])]
  BY <1>2 DEF Shown
<1>6. Shown(s) = s
  BY <1>2, <1>4, <1>5
<1> QED BY <1>6 DEF s

(* So is a best bid and offer. *)
LEMMA ShownQuote ==
  ASSUME NEW old, NEW bid, NEW bidQty, NEW ask, NEW askQty, NEW q,
         q = [bid |-> bid, bidQty |-> bidQty, ask |-> ask, askQty |-> askQty]
  PROVE  Shown(BBOIfChanged(old, q)) = BBOIfChanged(old, q)
<1>1. Told(q) = q
  BY DEF Told
<1> QED BY <1>1, ShownOne DEF BBOIfChanged

(* A sequence of at most one element. *)
LEMMA OneOrNone ==
  ASSUME NEW S, NEW x \in S, NEW s, s = <<x>> \/ s = <<>>
  PROVE  s \in Seq(S)
<1>1. <<x>> \in Seq(S) /\ <<>> \in Seq(S)
  OBVIOUS
<1> QED BY <1>1

(* A call's events, one after the other. *)
LEMMA ShownEnd ==
  ASSUME NEW id, NEW side, NEW price, NEW hits, NEW left, NEW n \in Nat,
         NEW X, NEW A \in Seq(X), NEW B \in Seq(X)
  PROVE  LET T == Book!Trades(id, side, price, hits, left, n)
         IN  Shown(T \o A \o B) = T \o Shown(A) \o Shown(B)
<1>0. PICK T : T = Book!Trades(id, side, price, hits, left, n)
  OBVIOUS
<1>1. PICK m \in Nat : T = [i \in 1 .. m |-> T[i]]
  <2>1. 2 * n \in Nat
    OBVIOUS
  <2> QED BY <1>0, <2>1 DEF Book!Trades
<1> DEFINE S == {T[i] : i \in 1 .. m} \cup X
<1>2. T \in [1 .. m -> S]
  BY <1>1
<1>3. A \in Seq(S) /\ B \in Seq(S)
  <2>1. X \subseteq S
    OBVIOUS
  <2> HIDE DEF S
  <2>2. \A s \in Seq(X) : s \in [1 .. Len(s) -> S] /\ Len(s) \in Nat
    BY <2>1
  <2> QED BY <2>2
<1> HIDE DEF S
<1>4. T \in Seq(S)
  BY <1>2
<1>5. T \o A \in Seq(S)
  BY <1>3, <1>4
<1>6. Shown(T \o A \o B) = Shown(T \o A) \o Shown(B) /\ Shown(T \o A) = Shown(T) \o Shown(A)
  BY <1>3, <1>4, <1>5, ShownConcat
<1>7. Shown(T) = T
  BY <1>0, ShownTrades
<1> QED BY <1>0, <1>6, <1>7

-----------------------------------------------------------------------------
(* The end of a call *)

(* The call is over: no order changes but that the new one is live when    *)
(* something is left of it.                                                *)
Ended ==
  /\ call # Idle /\ call' = Idle
  /\ \A x \in OrderID : Order(pool'[x]) = Order(pool[x])
  /\ \A x \in OrderID : x # call.id => (pool'[x].active <=> pool[x].active)
  /\ pool'[call.id].active <=> pool[call.id].size > 0

(* The live orders are then what the match leaves. *)
LEMMA EndRests ==
  ASSUME IInv, Linked, Started, Ended, NEW n \in Nat, NEW hits, NEW left, Swept(n, hits, left)
  PROVE  Visible' = Book!Rests(call.id, pool[call.id].side, pool[call.id].price, hits, left, n)
<1>1. PICK id, side, price :
        id \in OrderID /\ id = call.id /\ side = pool[id].side /\ price = pool[id].price
  BY RunningCall DEF Ended
<1>2. PICK old : old = before.resting
  OBVIOUS
<1> DEFINE hit == {hits[k] : k \in 1 .. n}
           at(r) == CHOOSE k \in 1 .. n : hits[k] = r
           h(r) == Book!Hit(id, hits, left, at(r))
           gone == {r \in hit : h(r).size = 0}
           new  == IF left[n] > 0 THEN {id} ELSE {}
           val(r) == IF r = id THEN Book!After(side, price, hits, left, n)
                     ELSE IF r \in hit THEN h(r) ELSE old[r]
<1>3. Book!Rests(id, side, price, hits, left, n) = [r \in (DOMAIN old \ gone) \cup new |-> val(r)]
  BY <1>2 DEF Book!Rests
<1>4. /\ left[0] \in Sizes /\ Order(pool[id]) = Book!After(side, price, hits, left, n)
      /\ \A k \in 1 .. n : Order(pool[hits[k]]) = Book!Hit(id, hits, left, k)
      /\ \A r \in DOMAIN old : (\A k \in 1 .. n : hits[k] # r) => Order(pool[r]) = old[r]
  BY <1>1, <1>2 DEF Swept
<1>5. /\ pool[id].size = left[n]
      /\ \A k \in 1 .. n : hits[k] \in DOMAIN old /\ hits[k] \in OrderID /\ hits[k] # id
  BY <1>1, <1>2, SweptFacts DEF Ended
<1>6. /\ DOMAIN old \subseteq OrderID /\ id \notin DOMAIN old
      /\ Active(pool) \ {id} \subseteq DOMAIN old
      /\ \A r \in DOMAIN old : old[r].size > 0
  <2>1. \A r \in DOMAIN old : old[r].size \in 1 .. SizeMod - 1
    BY <1>2 DEF Started, BookOK, OrderType
  <2> QED BY <2>1, <1>1, <1>2 DEF Started, BookOK
<1>7. /\ \A x \in OrderID : Order(pool'[x]) = Order(pool[x])
      /\ \A x \in OrderID : x # id => (pool'[x].active <=> pool[x].active)
      /\ pool'[id].active <=> left[n] > 0
  BY <1>1, <1>5 DEF Ended
<1>8. \A x \in OrderID : x # id => (pool[x].active <=> pool[x].size > 0) /\ pool[x].size \in Nat
  <2>1. \A x \in OrderID : pool[x].size \in Nat
    BY DEF IInv, TypeOK, Slot, Size
  <2> QED BY <2>1, <1>1 DEF Linked, Kept, Ended
<1>9. ASSUME NEW r \in hit PROVE r \in DOMAIN old /\ r # id /\ Order(pool[r]) = h(r)
  <2>1. at(r) \in 1 .. n /\ hits[at(r)] = r
    OBVIOUS
  <2> HIDE DEF at
  <2> QED BY <2>1, <1>4, <1>5
<1> HIDE DEF h, hit
<1>10. ASSUME NEW r \in DOMAIN old, r \notin hit PROVE Order(pool[r]) = old[r]
  BY <1>4, <1>10 DEF hit
<1>11. \A r \in DOMAIN old : pool[r].active <=> r \notin gone
  <2> TAKE r \in DOMAIN old
  <2>1. r \in OrderID /\ r # id
    BY <1>6
  <2>2. CASE r \in hit
    <3>1. pool[r].size = h(r).size
      BY <2>2, <1>9 DEF Order
    <3> QED BY <2>1, <2>2, <3>1, <1>8
  <2>3. CASE r \notin hit
    <3>1. pool[r].size = old[r].size
      BY <2>3, <1>10 DEF Order
    <3> QED BY <2>1, <2>3, <3>1, <1>6, <1>8
  <2> QED BY <2>2, <2>3
<1> HIDE DEF gone
<1>12. Active(pool') = (DOMAIN old \ gone) \cup new
  <2>1. ASSUME NEW x \in OrderID PROVE pool'[x].active <=> x \in (DOMAIN old \ gone) \cup new
    <3>1. CASE x = id
      BY <3>1, <1>6, <1>7
    <3>2. CASE x # id
      <4>1. pool'[x].active <=> x \in DOMAIN old /\ pool[x].active
        BY <3>2, <1>6, <1>7 DEF Active
      <4> QED BY <3>2, <4>1, <1>11
    <3> QED BY <3>1, <3>2
  <2>2. (DOMAIN old \ gone) \cup new \subseteq OrderID
    BY <1>1, <1>6
  <2> QED BY <2>1, <2>2 DEF Active
<1>13. ASSUME NEW r \in Active(pool') PROVE Order(pool'[r]) = val(r)
  <2>1. r \in OrderID /\ (r = id \/ r \in DOMAIN old)
    BY <1>12 DEF Active
  <2>2. Order(pool'[r]) = Order(pool[r])
    BY <2>1, <1>7
  <2> QED BY <2>1, <2>2, <1>4, <1>9, <1>10
<1>14. Visible' = [r \in Active(pool') |-> Order(pool'[r])]
  BY DEF Visible, Order
<1> HIDE DEF val, new
<1>15. Visible' = Book!Rests(id, side, price, hits, left, n)
  BY <1>3, <1>12, <1>13, <1>14
<1> QED BY <1>1, <1>15

(* What is visible between calls, as an implication. *)
LEMMA VisibleNow ==
  IInv /\ Linked /\ TimePriority /\ call = Idle =>
        /\ BookOK(Visible) /\ DOMAIN Visible = Active(pool)
        /\ \A x \in Active(pool) : Visible[x] = Order(pool[x])
        /\ BBO = Book!Quote(Visible)
BY VisibleOK, QuoteIsBBO

(* VisibleOK and QuoteIsBBO for the state after a call. *)
LEMMA VisibleThen ==
  ASSUME IInv', Linked', TimePriority', call' = Idle
  PROVE  /\ BookOK(Visible') /\ DOMAIN Visible' = Active(pool')
         /\ \A x \in Active(pool') : Visible'[x] = Order(pool'[x])
         /\ BBO' = Book!Quote(Visible')
<1>1. (IInv /\ Linked /\ TimePriority /\ call = Idle =>
        /\ BookOK(Visible) /\ DOMAIN Visible = Active(pool)
        /\ \A x \in Active(pool) : Visible[x] = Order(pool[x])
        /\ BBO = Book!Quote(Visible))'
  BY VisibleNow, PTL
<1>2. (call = Idle)'
  BY DEF Idle
<1> QED BY <1>1, <1>2

(* No level moves by SizeMod or more in a call. *)
LEMMA EndMovesLittle ==
  ASSUME IInv, Linked, IInv', Linked', TimePriority', Started, Ended
  PROVE  MovesLittle(before.resting, Visible')
<1>1. PICK id \in OrderID : id = call.id
  BY RunningCall DEF Ended
<1>2. PICK old, mid, new : old = before.resting /\ mid = Others /\ new = Visible'
  OBVIOUS
<1>3. BookOK(mid) /\ DOMAIN mid = Active(pool) \ {id} /\ \A x \in DOMAIN mid : mid[x] = Order(pool[x])
  BY <1>1, <1>2, OthersOK DEF Ended
<1>4. BookOK(new) /\ DOMAIN new = Active(pool') /\ \A x \in DOMAIN new : new[x] = Order(pool'[x])
  BY <1>2, VisibleThen DEF Ended
<1>5. BookOK(old)
  BY <1>2 DEF Started
<1>6. SameBut(id, mid, new)
  <2>1. ASSUME NEW x \in OrderID, x # id
        PROVE  /\ x \in DOMAIN mid <=> x \in DOMAIN new
               /\ x \in DOMAIN mid => mid[x] = new[x]
    <3>1. Order(pool'[x]) = Order(pool[x]) /\ (pool'[x].active <=> pool[x].active)
      BY <2>1, <1>1 DEF Ended
    <3>2. x \in DOMAIN mid <=> x \in DOMAIN new
      BY <2>1, <3>1, <1>3, <1>4 DEF Active
    <3> QED BY <3>1, <3>2, <1>3, <1>4
  <2> QED BY <2>1, <1>1, <1>3, <1>4 DEF SameBut
<1>7. /\ pool[id].size \in Nat /\ pool[id].qtyFilled \in Nat
      /\ pool[id].size + pool[id].qtyFilled < SizeMod
  BY <1>1 DEF IInv, SizeOK, TypeOK, Slot, Size
<1>8. ASSUME NEW side \in {"buy", "sell"}, NEW p \in 0 .. MaxPrice
      PROVE  LET a == Book!Level(old, side, p)
                 b == Book!Level(new, side, p)
             IN  a - b < SizeMod /\ b - a < SizeMod
  <2>1. PICK a, b, c : /\ a = Book!Level(old, side, p) /\ b = Book!Level(new, side, p)
                       /\ c = Book!Level(mid, side, p)
    OBVIOUS
  <2>2. a \in Nat /\ b \in Nat /\ c \in Nat
    BY <2>1, <1>3, <1>4, <1>5, LevelNat
  <2>3. a - c \in 0 .. pool[id].qtyFilled
    BY <2>1, <1>1, <1>2 DEF Started
  <2>4. PICK w, v : w = Weights(mid, side, p)[id] /\ v = Weights(new, side, p)[id]
    OBVIOUS
  <2>5. c - b = w - v
    BY <2>1, <2>4, <1>6, LevelMoves
  <2>6. w = 0
    BY <2>4, <1>1, <1>3 DEF Weights, Book!On
  <2>7. v \in 0 .. pool[id].size
    <3>1. v = IF id \in Book!On(new, side) /\ new[id].price = p THEN new[id].size ELSE 0
      BY <2>4, <1>1 DEF Weights
    <3>2. id \in DOMAIN new => new[id].size = pool[id].size
      <4> SUFFICES ASSUME id \in DOMAIN new PROVE new[id].size = pool[id].size
        OBVIOUS
      <4>1. new[id] = Order(pool'[id]) /\ Order(pool'[id]) = Order(pool[id])
        BY <1>1, <1>4 DEF Ended
      <4> QED BY <4>1 DEF Order
    <3> QED BY <3>1, <3>2, <1>7 DEF Book!On
  <2> QED BY <2>1, <2>2, <2>3, <2>5, <2>6, <2>7, <1>7
<1>9. MovesLittle(old, new)
  BY <1>8 DEF MovesLittle
<1> QED BY <1>2, <1>9

(* No live order crosses what is left of the new one. *)
NothingCrosses ==
  \A s \in Active(pool) \ {call.id} :
    pool[s].side # pool[call.id].side
      => Book!Beats(pool[call.id].side, pool[s].price, pool[call.id].price)

(* The match is over when nothing is wanted or nothing crosses. *)
LEMMA EndEnds ==
  ASSUME IInv, Linked, call # Idle, Started, NEW n \in Nat, NEW hits, NEW left, Swept(n, hits, left),
         pool[call.id].size = 0 \/ NothingCrosses
  PROVE  Book!Ends(pool[call.id].side, pool[call.id].price, hits, left, n)
<1>1. CASE pool[call.id].size = 0
  BY <1>1, SweptFacts DEF Book!Ends
<1>2. CASE NothingCrosses
  <2>1. ASSUME NEW r \in Book!Crossed(pool[call.id].side, pool[call.id].price),
               \A k \in 1 .. n : hits[k] # r
        PROVE  FALSE
    <3>1. /\ r \in DOMAIN before.resting /\ before.resting[r].side # pool[call.id].side
          /\ ~Book!Beats(pool[call.id].side, before.resting[r].price, pool[call.id].price)
      BY DEF Book!Crossed
    <3>2. Order(pool[r]) = before.resting[r] /\ pool[r].active /\ r \in OrderID /\ r # call.id
      BY <2>1, <3>1, UnhitStay
    <3>3. before.resting[r].side = pool[r].side /\ before.resting[r].price = pool[r].price
      BY <3>2 DEF Order
    <3> QED BY <1>2, <3>1, <3>2, <3>3 DEF NothingCrosses, Active
  <2> QED BY <2>1 DEF Book!Ends
<1> QED BY <1>1, <1>2

(* The events of a call that is over: those of its trades, then the       *)
(* acceptance of what is left, then the new best bid and offer.           *)
EndEvents ==
  events' = events \o (IF pool[call.id].size > 0
                       THEN <<OrderEvent("accepted", call.id, pool[call.id], pool[call.id].size)>>
                       ELSE <<>>)
                   \o BBOIfChanged(call.prev, BBO')

(* A call that is over is one call of the abstract book. *)
LEMMA EndLimit ==
  ASSUME IInv, Linked, Newest, IInv', Linked', TimePriority', Started, Sweeping, Ended, EndEvents,
         poolTop' = poolTop, cancelled' = cancelled, before' = Seen',
         pool[call.id].size = 0 \/ NothingCrosses
  PROVE  \E side \in {"buy", "sell"}, price \in Price, size \in Sizes : Book!Limit(side, price, size)
<1>1. call # Idle
  BY DEF Ended
<1>2. PICK id, side, price :
        id \in OrderID /\ id = call.id /\ side = pool[id].side /\ price = pool[id].price
  BY <1>1, RunningCall
<1>3. side \in {"buy", "sell"} /\ price \in Price
  BY <1>1, <1>2, RunningCall DEF Linked
<1>4. PICK n, hits, left : n \in Nat /\ Swept(n, hits, left)
  <2>1. pool[call.id].fills \in Seq(Match)
    BY <1>1, RunningCall DEF Slot
  <2> QED BY <2>1 DEF Sweeping
<1>5. n \in 0 .. MaxOrders
  BY <1>1, <1>4, SweptFew
<1>6. PICK size : size = left[0]
  OBVIOUS
<1>7. /\ size \in Sizes /\ left \in [0 .. n -> 0 .. size] /\ hits \in [1 .. n -> Book!Crossed(side, price)]
      /\ Book!InPriority(side, price, hits, n) /\ Book!Gives(hits, left, n)
      /\ Order(pool[id]) = Book!After(side, price, hits, left, n)
      /\ events = Book!Trades(id, side, price, hits, left, n)
  BY <1>2, <1>4, <1>6 DEF Swept
<1>8. Book!Ends(side, price, hits, left, n)
  BY <1>1, <1>2, <1>4, EndEnds
<1>9. PICK old, new : old = before.resting /\ new = Visible'
  OBVIOUS
<1>10. new = Book!Rests(id, side, price, hits, left, n)
  BY <1>2, <1>4, <1>9, EndRests
<1>11. Book!Announce(old, new) = BBOIfChanged(call.prev, BBO')
  <2>1. BookOK(old) /\ call.prev = Book!Quote(old)
    BY <1>9 DEF Started
  <2>2. BookOK(new) /\ BBO' = Book!Quote(new)
    BY <1>9, VisibleThen DEF Ended
  <2>3. MovesLittle(old, new)
    BY <1>9, EndMovesLittle
  <2>4. Book!Announce(old, new) = BBOIfChanged(Book!Quote(old), Book!Quote(new))
    BY <2>1, <2>2, <2>3, AnnouncedAlike
  <2> QED BY <2>1, <2>2, <2>4
<1>12. pool[id].size = left[n]
  BY <1>1, <1>2, <1>4, SweptFacts
<1>13. Told(OrderEvent("accepted", id, pool[id], pool[id].size))
         = Book!Notice("accepted", id, Book!After(side, price, hits, left, n))
  <2>1. Order(pool[id]).size = pool[id].size
    BY DEF Order
  <2>2. PICK z : z = pool[id].size
    OBVIOUS
  <2>3. Told(OrderEvent("accepted", id, pool[id], z)) = [type |-> "accepted", id |-> id, remaining |-> z]
    BY DEF Told, OrderEvent
  <2> QED BY <2>1, <2>2, <2>3, <1>7 DEF Book!Notice
<1>14. before'.resting = new /\ before'.nextId = poolTop /\ before'.out = Shown(events')
  BY <1>9 DEF Seen
<1>15. before'.out = Book!Trades(id, side, price, hits, left, n)
                     \o (IF left[n] > 0
                         THEN <<Book!Notice("accepted", id, Book!After(side, price, hits, left, n))>>
                         ELSE <<>>)
                     \o Book!Announce(old, new)
  <2>1. PICK e, A, T, B :
          /\ e = OrderEvent("accepted", id, pool[id], pool[id].size)
          /\ A = (IF left[n] > 0 THEN <<e>> ELSE <<>>)
          /\ T = Book!Trades(id, side, price, hits, left, n)
          /\ B = BBOIfChanged(call.prev, BBO')
    OBVIOUS
  <2>2. events' = T \o A \o B
    BY <2>1, <1>2, <1>7, <1>12 DEF EndEvents
  <2>3. PICK q : q = BBO'
    OBVIOUS
  <2>4. Shown(T \o A \o B) = T \o Shown(A) \o Shown(B)
    <3>1. (A = <<e>> \/ A = <<>>) /\ (B = <<q>> \/ B = <<>>)
      BY <2>1, <2>3 DEF BBOIfChanged
    <3>2. A \in Seq({e, q}) /\ B \in Seq({e, q})
      BY <3>1, OneOrNone
    <3>3. n \in Nat
      BY <1>4
    <3>4. Shown(Book!Trades(id, side, price, hits, left, n) \o A \o B)
            = Book!Trades(id, side, price, hits, left, n) \o Shown(A) \o Shown(B)
      BY <3>2, <3>3, ShownEnd
    <3> QED BY <2>1, <3>4
  <2>5. Shown(B) = B
    <3>1. PICK bid, bidQty, ask, askQty :
            q = [bid |-> bid, bidQty |-> bidQty, ask |-> ask, askQty |-> askQty]
      BY <2>3 DEF BBO
    <3> QED BY <2>1, <2>3, <3>1, ShownQuote
  <2>6. Shown(A) = IF left[n] > 0
                   THEN <<Book!Notice("accepted", id, Book!After(side, price, hits, left, n))>>
                   ELSE <<>>
    BY <2>1, <1>13, ShownOne
  <2> QED BY <2>1, <2>2, <2>4, <2>5, <2>6, <1>11, <1>14
<1>16. before.nextId = id /\ id < MaxOrders /\ poolTop = id + 1
  <2>1. before.nextId = id /\ id = poolTop - 1 /\ poolTop \in 1 .. MaxOrders
    BY <1>1, <1>2 DEF Started, Newest, IInv, TypeOK
  <2>2. id < MaxOrders /\ id \in Int
    BY <1>2 DEF OrderID
  <2> QED BY <2>1, <2>2
<1>17. Book!Limit(side, price, size)
  <2>1. before.nextId < MaxOrders /\ before'.nextId = before.nextId + 1
    BY <1>14, <1>16
  <2>2. /\ left[0] = size
        /\ before'.resting = Book!Rests(before.nextId, side, price, hits, left, n)
        /\ before'.out = Book!Trades(before.nextId, side, price, hits, left, n)
                   \o (IF left[n] > 0
                       THEN <<Book!Notice("accepted", before.nextId,
                                          Book!After(side, price, hits, left, n))>>
                       ELSE <<>>)
                   \o Book!Announce(before.resting, before'.resting)
    BY <1>6, <1>9, <1>10, <1>14, <1>15, <1>16
  <2> QED BY <2>1, <2>2, <1>5, <1>7, <1>8 DEF Book!Limit
<1> QED BY <1>3, <1>7, <1>17

(* The events so far are a sequence. *)
LEMMA EventsThenNothing ==
  ASSUME IInv, call # Idle, Sweeping
  PROVE  events \o <<>> = events
<1>1. PICK n, hits, left : n \in Nat /\ Swept(n, hits, left)
  <2>1. pool[call.id].fills \in Seq(Match)
    BY RunningCall DEF Slot
  <2> QED BY <2>1 DEF Sweeping
<1>2. PICK m \in Nat : events = [i \in 1 .. m |-> events[i]]
  <2>1. 2 * n \in Nat
    BY <1>1
  <2> QED BY <1>1, <2>1 DEF Swept, Book!Trades
<1> DEFINE S == {events[i] : i \in 1 .. m}
<1>3. events \in [1 .. m -> S]
  BY <1>2
<1> HIDE DEF S
<1>4. events \in Seq(S)
  BY <1>3
<1> QED BY <1>4

(* A call that used its order up is a Limit of the abstract book. *)
LEMMA LimitDoneStep ==
  ASSUME IInv, Linked, Newest, IInv', Linked', TimePriority', Started, Sweeping, LimitDone,
         before' = Seen', cancelled' = cancelled
  PROVE  \E side \in {"buy", "sell"}, price \in Price, size \in Sizes : Book!Limit(side, price, size)
<1>1. /\ call # Idle /\ call' = Idle /\ pool[call.id].size = 0 /\ poolTop' = poolTop
      /\ pool' = [pool EXCEPT ![call.id].active = FALSE]
      /\ events' = events \o BBOIfChanged(call.prev, BBO')
  BY DEF LimitDone
<1>2. PICK id \in OrderID : id = call.id
  BY <1>1, RunningCall
<1>3. pool[id] \in Slot
  BY <1>2 DEF IInv, TypeOK
<1>4. pool'[id] = [pool[id] EXCEPT !.active = FALSE] /\ \A x \in OrderID : x # id => pool'[x] = pool[x]
  BY <1>1, <1>2 DEF IInv, TypeOK
<1>5. Order(pool'[id]) = Order(pool[id]) /\ ~pool'[id].active
  BY <1>3, <1>4 DEF Order, Slot
<1>6. Ended
  BY <1>1, <1>2, <1>4, <1>5 DEF Ended
<1>7. EndEvents
  <2>1. ~(pool[call.id].size > 0)
    BY <1>1
  <2>2. events \o <<>> = events
    BY <1>1, EventsThenNothing
  <2> QED BY <2>1, <2>2, <1>1 DEF EndEvents
<1> QED BY <1>1, <1>6, <1>7, EndLimit

(* A call that rests a bid is a Limit of the abstract book. *)
LEMMA RestBuyStep ==
  ASSUME IInv, Linked, Newest, IInv', Linked', TimePriority', Started, Sweeping, RestBuy,
         before' = Seen', cancelled' = cancelled
  PROVE  \E side \in {"buy", "sell"}, price \in Price, size \in Sizes : Book!Limit(side, price, size)
<1>1. /\ call.phase = "buy" /\ call' = Idle /\ pool[call.id].size > 0 /\ pool' = pool /\ poolTop' = poolTop
      /\ askMin > pool[call.id].price
      /\ events' = events \o <<OrderEvent("accepted", call.id, pool[call.id], pool[call.id].size)>>
                          \o BBOIfChanged(call.prev, BBO')
  BY DEF RestBuy
<1>2. call # Idle
  BY <1>1 DEF Idle
<1>3. pool[call.id].active /\ pool[call.id].side = "buy"
  BY <1>1, <1>2 DEF Linked
<1>4. Ended
  BY <1>1, <1>2, <1>3 DEF Ended
<1>5. EndEvents
  BY <1>1 DEF EndEvents
<1>6. NothingCrosses
  <2> SUFFICES ASSUME NEW s \in Active(pool) \ {call.id}, pool[s].side # "buy"
               PROVE  pool[s].price > pool[call.id].price
    BY <1>3 DEF NothingCrosses, Book!Beats
  <2>1. s \in OrderID /\ pool[s].active /\ s # call.id
    BY DEF Active
  <2>2. pool[s].price \in Price /\ s \in Members(sells[pool[s].price])
    BY <2>1 DEF Linked, Kept
  <2>3. LiveAsk(pool[s].price)
    BY <2>2 DEF LiveAsk
  <2>4. pool[s].price >= askMin
    BY <2>2, <2>3 DEF IInv, CacheOK
  <2>5. askMin \in Int /\ pool[call.id].price \in Price
    BY <1>2, RunningCall DEF IInv, TypeOK
  <2> QED BY <2>2, <2>4, <2>5, <1>1 DEF Price
<1> QED BY <1>1, <1>4, <1>5, <1>6, EndLimit

(* A call that rests an ask is a Limit of the abstract book. *)
LEMMA RestSellStep ==
  ASSUME IInv, Linked, Newest, IInv', Linked', TimePriority', Started, Sweeping, RestSell,
         before' = Seen', cancelled' = cancelled
  PROVE  \E side \in {"buy", "sell"}, price \in Price, size \in Sizes : Book!Limit(side, price, size)
<1>1. /\ call.phase = "sell" /\ call' = Idle /\ pool[call.id].size > 0 /\ pool' = pool /\ poolTop' = poolTop
      /\ ~(bidMax >= pool[call.id].price /\ bidMax > 0)
      /\ events' = events \o <<OrderEvent("accepted", call.id, pool[call.id], pool[call.id].size)>>
                          \o BBOIfChanged(call.prev, BBO')
  BY DEF RestSell
<1>2. call # Idle
  BY <1>1 DEF Idle
<1>3. pool[call.id].active /\ pool[call.id].side = "sell"
  BY <1>1, <1>2 DEF Linked
<1>4. Ended
  BY <1>1, <1>2, <1>3 DEF Ended
<1>5. EndEvents
  BY <1>1 DEF EndEvents
<1>6. NothingCrosses
  <2> SUFFICES ASSUME NEW s \in Active(pool) \ {call.id}, pool[s].side # "sell"
               PROVE  pool[s].price < pool[call.id].price
    BY <1>3 DEF NothingCrosses, Book!Beats
  <2>1. s \in OrderID /\ pool[s].active /\ s # call.id
    BY DEF Active
  <2>2. pool[s].price \in Price /\ s \in Members(buys[pool[s].price])
    BY <2>1 DEF Linked, Kept
  <2>3. LiveBid(pool[s].price)
    BY <2>2 DEF LiveBid
  <2>4. pool[s].price <= bidMax
    BY <2>2, <2>3 DEF IInv, CacheOK
  <2>5. bidMax \in Int /\ pool[call.id].price \in Price
    BY <1>2, RunningCall DEF IInv, TypeOK
  <2> QED BY <2>2, <2>4, <2>5, <1>1 DEF Price
<1> QED BY <1>1, <1>4, <1>5, <1>6, EndLimit

-----------------------------------------------------------------------------
(* Between calls *)

(* An id that was not handed out is not live. *)
LEMMA UnusedDead ==
  ASSUME IInv, Linked, call = Idle, NEW x \in Active(pool)
  PROVE  x \in OrderID /\ x < poolTop
<1>1. x \in OrderID /\ pool[x].active
  BY DEF Active
<1>2. \E p \in Price : x \in Members(buys[p]) \/ x \in Members(sells[p])
  BY <1>1 DEF Linked, Kept
<1> QED BY <1>1, <1>2 DEF IInv, QueueOK

(* A refusal: nothing changes but the answer. *)
LEMMA RefusedStep ==
  ASSUME before = Seen, before' = Seen', UNCHANGED <<pool, poolTop, cancelled>>, NEW id, NEW reason,
         events' = <<Rejected(id, reason)>>
  PROVE  Book!Reject(id, reason)
<1>1. Visible' = Visible
  BY DEF Visible, Active, Order
<1>2. Told(Rejected(id, reason)) = Rejected(id, reason)
  BY DEF Told, Rejected
<1>3. Shown(events') = <<Rejected(id, reason)>>
  BY <1>2, ShownOne
<1> QED BY <1>1, <1>3 DEF Seen, Book!Reject, Rejected

(* A refused Limit is refused by the abstract book too. *)
LEMMA LimitRefused ==
  ASSUME before = Seen, before' = Seen', cancelled' = cancelled, LimitBadPrice \/ LimitPoolExhausted
  PROVE  Book!LimitRejected
<1>1. CASE LimitBadPrice
  <2>1. UNCHANGED <<pool, poolTop>> /\ events' = <<Rejected(0, "unspecified")>>
    BY <1>1 DEF LimitBadPrice, none
  <2>2. Book!Reject(0, "unspecified")
    BY <2>1, RefusedStep
  <2> QED BY <2>2 DEF Book!LimitRejected
<1>2. CASE LimitPoolExhausted
  <2>1. /\ UNCHANGED <<pool, poolTop>> /\ events' = <<Rejected(0, "pool_exhausted")>>
        /\ poolTop >= MaxOrders
    BY <1>2 DEF LimitPoolExhausted, none
  <2>2. Book!Reject(0, "pool_exhausted")
    BY <2>1, RefusedStep
  <2>3. before.nextId >= MaxOrders
    BY <2>1 DEF Seen
  <2> QED BY <2>2, <2>3 DEF Book!LimitRejected
<1> QED BY <1>1, <1>2

(* Cancelling an id that was never handed out is refused alike. *)
LEMMA CancelUnknownStep ==
  ASSUME IInv, Linked, before = Seen, before' = Seen', cancelled' = cancelled,
         NEW id \in {none, poolTop}, CancelUnknown(id)
  PROVE  id \in 0 .. MaxOrders /\ Book!Cancel(id)
<1>1. /\ call = Idle /\ UNCHANGED <<pool, poolTop>> /\ events' = <<Rejected(id, "not_found")>>
  BY DEF CancelUnknown
<1>2. poolTop \in 1 .. MaxOrders /\ (id = 0 \/ id = poolTop)
  BY DEF IInv, TypeOK, none
<1>3. id \notin Active(pool)
  <2> SUFFICES ASSUME id \in Active(pool) PROVE FALSE
    OBVIOUS
  <2>1. id \in OrderID /\ id < poolTop
    BY <1>1, UnusedDead
  <2> QED BY <2>1, <1>2 DEF OrderID
<1>4. id \notin DOMAIN before.resting
  BY <1>3 DEF Seen, Visible
<1>5. before.nextId = poolTop
  BY DEF Seen
<1>6. id \notin 1 .. before.nextId - 1
  BY <1>2, <1>5
<1>7. Book!Reject(id, "not_found")
  BY <1>1, RefusedStep
<1> QED BY <1>2, <1>4, <1>6, <1>7 DEF Book!Cancel, Book!NotResting

(* Cancelling an order that is no longer live is refused alike: nothing is *)
(* left of it.                                                             *)
LEMMA CancelInactiveStep ==
  ASSUME IInv, Linked, before = Seen, before' = Seen', cancelled' = cancelled,
         NEW id \in OrderID, CancelInactive(id)
  PROVE  Book!Cancel(id)
<1>1. /\ call = Idle /\ UNCHANGED <<pool, poolTop>> /\ id < poolTop /\ ~pool[id].active
      /\ events' = <<Rejected(id, IF pool[id].size = 0 THEN "already_filled" ELSE "not_found")>>
  BY DEF CancelInactive
<1>2. pool[id].size = 0
  <2>1. ~(pool[id].size > 0)
    BY <1>1 DEF Linked, Kept
  <2>2. pool[id].size \in Nat
    BY DEF IInv, TypeOK, Slot, Size
  <2> QED BY <2>1, <2>2
<1>3. id \notin DOMAIN before.resting /\ before.nextId = poolTop
  BY <1>1 DEF Seen, Visible, Active
<1>4. id \in 1 .. before.nextId - 1
  BY <1>1, <1>3 DEF OrderID, IInv, TypeOK
<1>5. events' = <<Rejected(id, "already_filled")>>
  BY <1>1, <1>2
<1>6. Book!Reject(id, "already_filled")
  BY <1>1, <1>5, RefusedStep
<1> QED BY <1>3, <1>4, <1>6 DEF Book!Cancel, Book!NotResting

(* A cancelled order leaves the book, and its level moves by its size. *)
LEMMA CancelRestingStep ==
  ASSUME IInv, Linked, TimePriority, IInv', Linked', TimePriority', before = Seen, before' = Seen',
         NEW id \in OrderID, CancelResting(id), cancelled' = cancelled \cup (Active(pool) \ Active(pool'))
  PROVE  Book!Cancel(id)
<1>1. /\ call = Idle /\ call' = Idle /\ poolTop' = poolTop /\ pool[id].active
      /\ pool' = [pool EXCEPT ![id].active = FALSE, ![id].size = 0]
      /\ events' = <<OrderEvent("cancelled", id, pool[id], pool[id].size)>> \o BBOIfChanged(BBO, BBO')
  BY DEF CancelResting
<1>2. PICK old, new : old = Visible /\ new = Visible'
  OBVIOUS
<1>3. /\ BookOK(old) /\ DOMAIN old = Active(pool) /\ BBO = Book!Quote(old)
      /\ \A x \in Active(pool) : old[x] = Order(pool[x])
  BY <1>1, <1>2, VisibleOK, QuoteIsBBO
<1>4. /\ BookOK(new) /\ DOMAIN new = Active(pool') /\ BBO' = Book!Quote(new)
      /\ \A x \in Active(pool') : new[x] = Order(pool'[x])
  BY <1>1, <1>2, VisibleThen
<1>5. (\A x \in OrderID : x # id => pool'[x] = pool[x]) /\ ~pool'[id].active
  <2>1. pool[id] \in Slot /\ pool \in [OrderID -> Slot]
    BY DEF IInv, TypeOK
  <2>2. pool'[id] = [pool[id] EXCEPT !.active = FALSE, !.size = 0]
    BY <1>1, <2>1
  <2>3. ~pool'[id].active
    BY <2>1, <2>2 DEF Slot
  <2>4. \A x \in OrderID : x # id => pool'[x] = pool[x]
    BY <1>1, <2>1
  <2> QED BY <2>3, <2>4
<1>6. Active(pool') = Active(pool) \ {id} /\ id \in Active(pool)
  BY <1>1, <1>5 DEF Active
<1>7. \A x \in Active(pool) \ {id} : new[x] = old[x]
  <2> TAKE x \in Active(pool) \ {id}
  <2>1. x \in OrderID /\ x # id
    BY DEF Active
  <2> QED BY <2>1, <1>3, <1>4, <1>5, <1>6
<1>8. new = [r \in DOMAIN old \ {id} |-> old[r]]
  <2>1. new = [r \in DOMAIN new |-> new[r]]
    BY <1>4 DEF BookOK
  <2> QED BY <2>1, <1>3, <1>4, <1>6, <1>7
<1>9. SameBut(id, old, new)
  BY <1>3, <1>4, <1>6, <1>7 DEF SameBut
<1>10. old[id].size \in 1 .. SizeMod - 1
  BY <1>3, <1>6 DEF BookOK, OrderType
<1>11. ASSUME NEW side \in {"buy", "sell"}, NEW p \in 0 .. MaxPrice
       PROVE  LET a == Book!Level(old, side, p)
                  b == Book!Level(new, side, p)
              IN  a - b < SizeMod /\ b - a < SizeMod
  <2>1. PICK a, b : a = Book!Level(old, side, p) /\ b = Book!Level(new, side, p)
    OBVIOUS
  <2>2. a \in Nat /\ b \in Nat
    BY <2>1, <1>3, <1>4, LevelNat
  <2>3. PICK w, v : w = Weights(old, side, p)[id] /\ v = Weights(new, side, p)[id]
    OBVIOUS
  <2>4. a - b = w - v
    BY <2>1, <2>3, <1>9, LevelMoves
  <2>5. v = 0
    BY <2>3, <1>4, <1>6 DEF Weights, Book!On
  <2>6. w = 0 \/ w = old[id].size
    BY <2>3 DEF Weights
  <2>7. w \in 0 .. SizeMod - 1
    BY <2>6, <1>10
  <2>8. a - b < SizeMod /\ b - a < SizeMod
    BY <2>2, <2>4, <2>5, <2>7
  <2> QED BY <2>1, <2>8
<1>12. Book!Announce(old, new) = BBOIfChanged(BBO, BBO')
  <2>1. MovesLittle(old, new)
    BY <1>11 DEF MovesLittle
  <2>2. Book!Announce(old, new) = BBOIfChanged(Book!Quote(old), Book!Quote(new))
    BY <2>1, <1>3, <1>4, AnnouncedAlike
  <2> QED BY <2>2, <1>3, <1>4
<1>13. Told(OrderEvent("cancelled", id, pool[id], pool[id].size)) = Book!Notice("cancelled", id, old[id])
  <2>1. old[id] = Order(pool[id])
    BY <1>3, <1>6
  <2>2. PICK z : z = pool[id].size
    OBVIOUS
  <2>3. Told(OrderEvent("cancelled", id, pool[id], z)) = [type |-> "cancelled", id |-> id, remaining |-> z]
    BY DEF Told, OrderEvent
  <2> QED BY <2>1, <2>2, <2>3 DEF Book!Notice, Order
<1>14. /\ before.resting = old /\ before'.resting = new /\ before'.out = Shown(events')
       /\ before'.nextId = before.nextId
  BY <1>1, <1>2 DEF Seen
<1>15. id \in DOMAIN before.resting
  BY <1>3, <1>6, <1>14
<1>16. before'.resting = [r \in DOMAIN before.resting \ {id} |-> before.resting[r]]
  BY <1>8, <1>14
<1>17. before'.out = <<Book!Notice("cancelled", id, before.resting[id])>>
                     \o Book!Announce(before.resting, before'.resting)
  <2>1. PICK e, q, B :
          e = OrderEvent("cancelled", id, pool[id], pool[id].size) /\ q = BBO' /\ B = BBOIfChanged(BBO, q)
    OBVIOUS
  <2>2. B = <<q>> \/ B = <<>>
    BY <2>1 DEF BBOIfChanged
  <2>3. <<e>> \in Seq({e, q}) /\ B \in Seq({e, q})
    BY <2>2, OneOrNone
  <2>4. Shown(<<e>> \o B) = Shown(<<e>>) \o Shown(B)
    BY <2>3, ShownConcat
  <2>5. Shown(B) = B
    <3>1. PICK bid, bidQty, ask, askQty :
            q = [bid |-> bid, bidQty |-> bidQty, ask |-> ask, askQty |-> askQty]
      BY <2>1 DEF BBO
    <3> QED BY <2>1, <3>1, ShownQuote
  <2>6. Shown(<<e>>) = <<Book!Notice("cancelled", id, old[id])>>
    BY <2>1, <1>13, ShownOne
  <2> QED BY <2>1, <2>4, <2>5, <2>6, <1>1, <1>12, <1>14
<1>18. cancelled' = cancelled \cup {id}
  BY <1>6
<1> QED BY <1>14, <1>15, <1>16, <1>17, <1>18 DEF Book!Cancel

(* A restart cannot be seen. *)
LEMMA RestoreUnseen ==
  ASSUME IInv, Linked, before = Seen, before' = Seen', SnapshotRestore
  PROVE  before' = before /\ Active(pool') = Active(pool)
<1>1. \A x \in OrderID : pool[x].active => pool'[x] = pool[x]
  BY RestoredSlots
<1>2. \A x \in OrderID : ~pool[x].active => ~pool'[x].active
  BY RestoredSlots DEF FreeSlot
<1>3. Active(pool') = Active(pool) /\ \A x \in Active(pool) : pool'[x] = pool[x]
  BY <1>1, <1>2 DEF Active
<1>4. Visible' = Visible
  BY <1>3 DEF Visible, Order
<1>5. poolTop' = poolTop /\ events' = events
  BY DEF SnapshotRestore, IInv, TypeOK
<1> QED BY <1>3, <1>4, <1>5 DEF Seen

-----------------------------------------------------------------------------
(* The refinement *)

(* A step within a call keeps the book that callers see; a step that ends  *)
(* in no call shows them the new one.                                      *)
LEMMA BetweenCalls ==
  ASSUME HNext, call' = Idle
  PROVE  before' = Seen' /\ HistoryInv'
<1>1. before' = Seen'
  BY DEF HNext
<1> QED BY <1>1 DEF HistoryInv, Idle

(* A step within a call shows callers nothing. *)
LEMMA WithinCall ==
  ASSUME HNext, call' # Idle, call # Idle \/ Active(pool) \subseteq Active(pool')
  PROVE  before' = before /\ UNCHANGED Book!vars
<1>1. before' = before
  BY DEF HNext
<1>2. cancelled' = cancelled
  BY DEF HNext
<1> QED BY <1>1, <1>2 DEF Book!vars

(* Only what is taken out between calls counts as cancelled. *)
LEMMA NoneCancelled ==
  ASSUME HNext, call # Idle \/ pool' = pool
  PROVE  cancelled' = cancelled
BY DEF HNext

(* Every step of the code-level book keeps the history, and is a call of   *)
(* the abstract book or changes nothing that callers see.                  *)
LEMMA NextHistory ==
  ASSUME IInv, Linked, Newest, TimePriority, IInv', Linked', TimePriority', HistoryInv, [HNext]_hvars
  PROVE  HistoryInv' /\ [Book!Next]_(Book!vars)
<1>1. CASE UNCHANGED hvars
  <2>1. /\ UNCHANGED <<pool, poolTop, call, events, before, cancelled>>
    BY <1>1 DEF hvars, vars
  <2>2. UNCHANGED Book!vars
    BY <2>1 DEF Book!vars
  <2>3. HistoryInv'
    <3>1. CASE call = Idle
      <4>1. Seen' = Seen
        BY <2>1 DEF Seen, Shown, Visible, Active, Order
      <4> QED BY <2>1, <3>1, <4>1 DEF HistoryInv, Idle
    <3>2. CASE call # Idle
      <4>1. Started /\ Sweeping
        BY <3>2 DEF HistoryInv
      <4>2. Started' /\ Sweeping'
        BY <2>1, <4>1, QuietHistory
      <4> QED BY <2>1, <3>2, <4>2 DEF HistoryInv, Idle
    <3> QED BY <3>1, <3>2
  <2> QED BY <2>2, <2>3
<1>2. ASSUME HNext, LimitBadPrice \/ LimitPoolExhausted PROVE HistoryInv' /\ Book!Next
  <2>1. call = Idle /\ call' = Idle
    BY <1>2 DEF LimitBadPrice, LimitPoolExhausted
  <2>2. before = Seen /\ before' = Seen' /\ HistoryInv'
    BY <1>2, <2>1, BetweenCalls DEF HistoryInv
  <2>3. cancelled' = cancelled
    BY <1>2, NoneCancelled DEF LimitBadPrice, LimitPoolExhausted
  <2>4. Book!LimitRejected
    BY <1>2, <2>2, <2>3, LimitRefused
  <2> QED BY <2>2, <2>4 DEF Book!Next
<1>3. ASSUME HNext, NEW side \in {"buy", "sell"}, NEW price \in Price, NEW size \in Sizes,
             LimitStart(side, price, size)
      PROVE  HistoryInv' /\ UNCHANGED Book!vars
  <2>1. call = Idle /\ call' # Idle
    BY <1>3 DEF LimitStart, Idle
  <2>2. Active(pool) \subseteq Active(pool')
    <3>1. pool' = [pool EXCEPT ![poolTop] = Alloc(side, price, size)]
      BY <1>3 DEF LimitStart
    <3> QED BY <3>1 DEF Active, Alloc, IInv, TypeOK
  <2>3. before = Seen /\ before' = before /\ UNCHANGED Book!vars
    BY <1>3, <2>1, <2>2, WithinCall DEF HistoryInv
  <2>4. Started' /\ Sweeping'
    BY <1>3, <2>3, LimitStartHistory
  <2> QED BY <2>1, <2>3, <2>4 DEF HistoryInv, Idle
<1>4. ASSUME HNext, MatchBuyEmptyLevel \/ MatchSellEmptyLevel \/ MatchBuyFill \/ MatchSellFill
      PROVE  HistoryInv' /\ UNCHANGED Book!vars
  <2>1. call' = call /\ call # Idle
    BY <1>4 DEF MatchBuyEmptyLevel, MatchSellEmptyLevel, MatchBuyFill, MatchSellFill,
                MatchBuyCond, MatchSellCond, Idle
  <2>2. Started /\ Sweeping
    BY <2>1 DEF HistoryInv
  <2>3. before' = before /\ UNCHANGED Book!vars
    BY <1>4, <2>1, WithinCall
  <2>4. Started' /\ Sweeping'
    <3>1. CASE MatchBuyEmptyLevel \/ MatchSellEmptyLevel
      <4>1. UNCHANGED <<pool, call, events, before>>
        BY <3>1, <2>3 DEF MatchBuyEmptyLevel, MatchSellEmptyLevel
      <4> QED BY <4>1, <2>2, QuietHistory
    <3>2. CASE MatchBuyFill
      BY <3>2, <2>2, <2>3, MatchBuyFillHistory
    <3>3. CASE MatchSellFill
      BY <3>3, <2>2, <2>3, MatchSellFillHistory
    <3> QED BY <1>4, <3>1, <3>2, <3>3
  <2> QED BY <2>1, <2>3, <2>4 DEF HistoryInv, Idle
<1>5. ASSUME HNext, LimitDone \/ RestBuy \/ RestSell PROVE HistoryInv' /\ Book!Next
  <2>1. call # Idle /\ call' = Idle
    <3>1. LimitDone => call # Idle /\ call' = Idle
      BY DEF LimitDone
    <3>2. RestBuy \/ RestSell => call' = Idle /\ call.phase \in {"buy", "sell"}
      BY DEF RestBuy, RestSell
    <3>3. call.phase \in {"buy", "sell"} => call # Idle
      BY DEF Idle
    <3> QED BY <1>5, <3>1, <3>2, <3>3
  <2>2. Started /\ Sweeping
    BY <2>1 DEF HistoryInv
  <2>3. before' = Seen' /\ HistoryInv'
    BY <1>5, <2>1, BetweenCalls
  <2>4. \E side \in {"buy", "sell"}, price \in Price, size \in Sizes : Book!Limit(side, price, size)
    <3>1. cancelled' = cancelled
      BY <1>5, <2>1, NoneCancelled
    <3> QED BY <1>5, <2>2, <2>3, <3>1, LimitDoneStep, RestBuyStep, RestSellStep
  <2> QED BY <2>3, <2>4 DEF Book!Next, Book!Price, Price
<1>6. ASSUME HNext, NEW id,
             \/ id \in {none, poolTop} /\ CancelUnknown(id)
             \/ id \in OrderID /\ (CancelInactive(id) \/ CancelResting(id))
      PROVE  HistoryInv' /\ Book!Next
  <2>1. call = Idle /\ call' = Idle
    BY <1>6 DEF CancelUnknown, CancelInactive, CancelResting
  <2>2. before = Seen /\ before' = Seen' /\ HistoryInv'
    BY <1>6, <2>1, BetweenCalls DEF HistoryInv
  <2>3. id \in 0 .. MaxOrders /\ Book!Cancel(id)
    <3>1. CASE id \in {none, poolTop} /\ CancelUnknown(id)
      <4>1. cancelled' = cancelled
        BY <1>6, <3>1, NoneCancelled DEF CancelUnknown
      <4> QED BY <3>1, <4>1, <2>2, CancelUnknownStep
    <3>2. CASE id \in OrderID /\ (CancelInactive(id) \/ CancelResting(id))
      <4>0. id \in OrderID /\ id \in 0 .. MaxOrders
        BY <3>2 DEF OrderID
      <4>1. CASE CancelInactive(id)
        <5>1. cancelled' = cancelled
          BY <1>6, <4>1, NoneCancelled DEF CancelInactive
        <5> QED BY <4>0, <4>1, <5>1, <2>2, CancelInactiveStep
      <4>2. CASE CancelResting(id)
        <5>1. cancelled' = cancelled \cup (Active(pool) \ Active(pool'))
          BY <1>6, <2>1 DEF HNext
        <5> QED BY <4>0, <4>2, <5>1, <2>2, CancelRestingStep
      <4> QED BY <3>2, <4>1, <4>2
    <3> QED BY <1>6, <3>1, <3>2
  <2> QED BY <2>2, <2>3 DEF Book!Next
<1>7. ASSUME HNext, SnapshotRestore PROVE HistoryInv' /\ UNCHANGED Book!vars
  <2>1. call = Idle /\ call' = Idle
    BY <1>7 DEF SnapshotRestore
  <2>2. before = Seen /\ before' = Seen' /\ HistoryInv'
    BY <1>7, <2>1, BetweenCalls DEF HistoryInv
  <2>3. before' = before /\ Active(pool') = Active(pool)
    BY <1>7, <2>2, RestoreUnseen
  <2>4. cancelled' = cancelled
    BY <1>7, <2>3 DEF HNext
  <2> QED BY <2>2, <2>3, <2>4 DEF Book!vars
<1>8. CASE HNext
  <2>1. Next
    BY <1>8 DEF HNext
  <2>2. CASE LimitBadPrice \/ LimitPoolExhausted
    BY <2>2, <1>2, <1>8
  <2>3. CASE \E side \in {"buy", "sell"}, price \in Price, size \in Sizes :
               LimitStart(side, price, size)
    BY <2>3, <1>3, <1>8
  <2>4. CASE Step
    BY <2>4, <1>4, <1>5, <1>8 DEF Step
  <2>5. CASE \/ \E id \in {none, poolTop} : CancelUnknown(id)
             \/ \E id \in OrderID : CancelInactive(id) \/ CancelResting(id)
    <3>1. PICK id : \/ id \in {none, poolTop} /\ CancelUnknown(id)
                    \/ id \in OrderID /\ (CancelInactive(id) \/ CancelResting(id))
      BY <2>5
    <3>2. HistoryInv' /\ Book!Next
      BY <3>1, <1>6, <1>8
    <3> QED BY <3>2
  <2>6. CASE SnapshotRestore
    BY <2>6, <1>7, <1>8
  <2> QED BY <2>1, <2>2, <2>3, <2>4, <2>5, <2>6 DEF Next
<1> QED BY <1>1, <1>8

(* Every call of the code-level book, whatever its interleaved loop steps, *)
(* is one call of the abstract book with the same orders and events, and a *)
(* restart from a snapshot is not visible: for every pool size, price      *)
(* range and width of quantities.  Left open is what the code's comments   *)
(* deny: the fills repeated when an order is accepted or cancelled, and    *)
(* the reason for refusing a second cancel.                                *)
THEOREM BookImplementsSpec == HSpec => ImplementsBookSpec
<1>1. HInit => HistoryInv /\ Book!Init
  <2> SUFFICES ASSUME HInit PROVE HistoryInv /\ Book!Init
    OBVIOUS
  <2>1. call = Idle /\ before = Seen /\ poolTop = 1 /\ events = <<>> /\ cancelled = {}
    BY DEF HInit, Init
  <2>2. Active(pool) = {}
    BY DEF HInit, Init, Active, FreeSlot
  <2>3. Visible = <<>>
    BY <2>2 DEF Visible
  <2> QED BY <2>1, <2>3, ShownOne DEF HistoryInv, Seen, Book!Init
<1>2. HSpec => Spec
  <2>1. HInit => Init
    BY DEF HInit
  <2>2. [HNext]_hvars => [Next]_vars
    BY DEF HNext, hvars
  <2> QED BY <2>1, <2>2, PTL DEF HSpec, Spec
<1>3. Spec => []Newest
  <2>1. Init => Newest
    BY DEF Init, Newest
  <2>2. IInv /\ Newest /\ [Next]_vars => Newest'
    BY NewestKept
  <2> QED BY <2>1, <2>2, BookInvariant, PTL DEF Spec
<1>4. ASSUME IInv, Linked, Newest, TimePriority, IInv', Linked', TimePriority', HistoryInv, [HNext]_hvars
      PROVE  HistoryInv' /\ [Book!Next]_(Book!vars)
  BY <1>4, NextHistory
<1>5. HSpec => []HistoryInv
  BY <1>1, <1>2, <1>3, <1>4, BookInvariant, BookLinked, TimePriorityKept, PTL DEF HSpec
<1>6. HSpec => Book!Init /\ [][Book!Next]_(Book!vars)
  BY <1>1, <1>2, <1>3, <1>4, <1>5, BookInvariant, BookLinked, TimePriorityKept, PTL DEF HSpec
<1> QED BY <1>6 DEF ImplementsBookSpec, Book!Spec
=============================================================================
