------------------------ MODULE DeliveryQueueProofs ------------------------
(***************************************************************************)
(* Proofs about the retry queue, for any messages, any number of drains    *)
(* that overlap in any way, any MaxAttempts and any number of crashes and  *)
(* failed saves.  What a drain has in hand (kept, or yet to be visited) is *)
(* the heart of the argument: an open message is in every drain's hand,    *)
(* and a settled one in nobody's.                                          *)
(***************************************************************************)
EXTENDS DeliveryQueue, FiniteSetTheorems, TLAPS

\* A drain in flight, and a line of the file.
Walk == [list : Array, at : Nat \ {0}, kept : Seq(Msg)]
Entry == [msg : Msg, attempts : Nat]

\* Drains walk while the daemon is up, none past the end of its array; and a
\* daemon that is down is not in the middle of a save.
Walks ==
    /\ \A d \in Walking : up /\ drain[d].at <= Len(content[drain[d].list])
    /\ ~up => file = "saved"

Distinct(s) == \A i, j \in DOMAIN s : s[i] = s[j] => i = j

\* The messages a drain has behind it.
Behind(d) == {content[drain[d].list][i] : i \in 1..(drain[d].at - 1)}

\* A message stands once in an array, in what a drain kept of it, and in the file.
Once ==
    /\ \A a \in Array : Distinct(content[a]) /\ Elements(content[a]) \subseteq failed
    /\ \A d \in Walking : Distinct(drain[d].kept) /\ Elements(drain[d].kept) \subseteq Behind(d)
    /\ \A i, j \in DOMAIN disk : disk[i].msg = disk[j].msg => i = j
    /\ OnDisk \subseteq failed

\* Messages that are promised a retry: they are in the queue, in every drain's
\* hand, and in a file that was saved.
Open == failed \ (Settled \cup exposed)
Kept4Retry ==
    /\ up => Open \subseteq Elements(content[queue])
    /\ \A d \in Walking : Open \subseteq InHand(d)
    /\ file = "saved" => Open \subseteq OnDisk

\* Messages that are promised not to be sent again: no drain has them in hand,
\* and the next one will not find them in the queue.
Done == Settled \ (shared \cup revived)
LeftAlone ==
    /\ \A d \in Walking : InHand(d) \cap Done = {}
    /\ \A d, e \in Walking : d # e => InHand(d) \cap InHand(e) \subseteq shared
    /\ up /\ Walking = {} => Elements(content[queue]) \cap Done = {}

IInv == TypeOK /\ Walks /\ Once /\ Kept4Retry /\ LeftAlone

-----------------------------------------------------------------------------
(* Sequences and arrays.                                                   *)

\* Append adds its message and moves none; a new one keeps a sequence distinct.
LEMMA AppendAdds ==
    ASSUME NEW s \in Seq(Msg), NEW m \in Msg
    PROVE  /\ Append(s, m) \in Seq(Msg) /\ DOMAIN Append(s, m) = 1..(Len(s) + 1)
           /\ DOMAIN s = 1..Len(s) /\ Len(s) \in Nat /\ Len(Append(s, m)) = Len(s) + 1
           /\ Append(s, m)[Len(s) + 1] = m
           /\ \A i \in 1..Len(s) : Append(s, m)[i] = s[i]
           /\ Elements(Append(s, m)) = Elements(s) \cup {m}
           /\ Distinct(s) /\ m \notin Elements(s) => Distinct(Append(s, m))
<1>1. /\ Append(s, m) \in Seq(Msg) /\ DOMAIN Append(s, m) = 1..(Len(s) + 1)
      /\ DOMAIN s = 1..Len(s) /\ Len(s) \in Nat /\ Len(Append(s, m)) = Len(s) + 1
      /\ Append(s, m)[Len(s) + 1] = m
      /\ \A i \in 1..Len(s) : Append(s, m)[i] = s[i]
    OBVIOUS
<1>2. Elements(Append(s, m)) \subseteq Elements(s) \cup {m}
    BY <1>1 DEF Elements
<1>3. Elements(s) \cup {m} \subseteq Elements(Append(s, m))
    BY <1>1 DEF Elements
<1>4. Distinct(s) /\ m \notin Elements(s) => Distinct(Append(s, m))
    BY <1>1 DEF Elements, Distinct
<1> QED
    BY <1>1, <1>2, <1>3, <1>4

\* Off is no drain in flight, for an array has a number from 1.
LEMMA OffIsNone ==
    /\ \A w \in Walk : w # Off /\ w.list \in Array /\ w.at \in Nat \ {0} /\ w.kept \in Seq(Msg)
    /\ Cardinality(Drain) \in Nat /\ 1 \in Array /\ Array \subseteq Nat \ {0}
<1>1. Cardinality(Drain) \in Nat
    BY QueueAssumption, FS_CardinalityType
<1>2. 1 \in Array /\ Array \subseteq Nat \ {0}
    BY <1>1 DEF Array
<1>3. \A w \in Walk : w.list \in Array /\ w.at \in Nat \ {0} /\ w.kept \in Seq(Msg)
    BY DEF Walk
<1>4. Off.list = 0
    BY DEF Off
<1> QED
    BY <1>1, <1>2, <1>3, <1>4

\* There is always an array that no other drain walks: there are more than drains.
LEMMA FreshExists ==
    ASSUME NEW d \in Walking
    PROVE  /\ FreshArray(d) \in Array
           /\ \A e \in Walking \ {d} : drain[e].list # FreshArray(d)
<1> DEFINE Others == Walking \ {d}
           N == Cardinality(Drain) + 1
<1>1. IsFiniteSet(Others) /\ Cardinality(Others) <= Cardinality(Drain) /\ Cardinality(Drain) \in Nat
  <2>1. Others \subseteq Drain /\ IsFiniteSet(Drain)
    BY QueueAssumption DEF Walking
  <2> QED
    BY <2>1, FS_Subset, FS_CardinalityType
<1>2. IsFiniteSet(Array) /\ Cardinality(Array) = N
  <2>1. 1 \in Int /\ N \in Int /\ 1 <= N
    BY <1>1
  <2>2. IsFiniteSet(1..N) /\ Cardinality(1..N) = IF 1 > N THEN 0 ELSE N - 1 + 1
    BY <2>1, FS_Interval
  <2> QED
    BY <1>1, <2>1, <2>2 DEF Array
<1>3. ASSUME \A a \in Array : \E e \in Others : drain[e].list = a
      PROVE  FALSE
  <2> DEFINE who == [a \in Array |-> CHOOSE e \in Others : drain[e].list = a]
  <2>1. \A a \in Array : who[a] \in Others /\ drain[who[a]].list = a
    BY <1>3
  <2>2. who \in [Array -> Others]
    BY <2>1
  <2> HIDE DEF who
  <2>3. \A f \in [Array -> Others] : \E x, y \in Array : x # y /\ f[x] = f[y]
    <3>1. Cardinality(Others) \in Nat /\ Cardinality(Others) < Cardinality(Array)
        BY <1>1, <1>2, FS_CardinalityType
    <3> QED
        BY <1>1, <1>2, <3>1, FS_PigeonHole
  <2> QED
    BY <2>1, <2>2, <2>3
<1>4. \E a \in Array : \A e \in Others : drain[e].list # a
    BY <1>3
<1> QED
    BY <1>4 DEF FreshArray

\* The file holds the messages of the queue it was saved from (save).
LEMMA SavedHolds ==
    ASSUME NEW q \in Seq(Msg), attempts \in [Msg -> Nat], Distinct(q)
    PROVE  /\ Saved(q) \in Seq(Entry)
           /\ {Saved(q)[i].msg : i \in DOMAIN Saved(q)} = Elements(q)
           /\ \A i, j \in DOMAIN Saved(q) : Saved(q)[i].msg = Saved(q)[j].msg => i = j
<1> DEFINE r == Saved(q)
<1>1. DOMAIN q = 1..Len(q) /\ Len(q) \in Nat /\ \A i \in 1..Len(q) : q[i] \in Msg
    OBVIOUS
<1>2. /\ DOMAIN r = 1..Len(q)
      /\ \A i \in 1..Len(q) : r[i] = [msg |-> q[i], attempts |-> attempts[q[i]]]
      /\ r = [i \in 1..Len(q) |-> [msg |-> q[i], attempts |-> attempts[q[i]]]]
    BY <1>1 DEF Saved
<1>3. \A i \in 1..Len(q) : r[i] \in Entry /\ r[i].msg = q[i]
    BY <1>1, <1>2 DEF Entry
<1>4. r \in Seq(Entry)
  <2> HIDE DEF r
  <2> QED
    BY <1>1, <1>2, <1>3
<1> HIDE DEF r
<1>5. {r[i].msg : i \in DOMAIN r} = Elements(q)
    BY <1>1, <1>2, <1>3 DEF Elements
<1>6. \A i, j \in DOMAIN r : r[i].msg = r[j].msg => i = j
    BY <1>1, <1>2, <1>3 DEF Distinct
<1> QED
    BY <1>4, <1>5, <1>6 DEF r

\* What the invariant says of a drain in flight.
LEMMA WalkOf ==
    ASSUME IInv, NEW d \in Walking
    PROVE  /\ d \in Drain /\ drain[d] \in Walk /\ up
           /\ content[drain[d].list] \in Seq(Msg) /\ Distinct(content[drain[d].list])
           /\ DOMAIN content[drain[d].list] = 1..Len(content[drain[d].list])
           /\ drain[d].at \in 1..Len(content[drain[d].list]) /\ drain[d].at \in Nat
           /\ Len(content[drain[d].list]) \in Nat
           /\ Elements(content[drain[d].list]) \subseteq failed
           /\ Current(d) \in failed /\ Current(d) \in Msg
           /\ Current(d) \in InHand(d) /\ InHand(d) \subseteq failed
<1> DEFINE c == content[drain[d].list]
           p == drain[d].at
<1>1. d \in Drain /\ drain[d] \in Walk /\ up /\ p <= Len(c)
    BY DEF IInv, TypeOK, Walks, Walking, Walk
<1>2. drain[d].list \in Array /\ p \in Nat \ {0}
    BY <1>1, OffIsNone
<1>3. c \in Seq(Msg)
    BY <1>2 DEF IInv, TypeOK
<1>4. Distinct(c) /\ Elements(c) \subseteq failed
    BY <1>2 DEF IInv, Once
<1>5. Elements(drain[d].kept) \subseteq Behind(d) /\ failed \subseteq Msg
    BY DEF IInv, Once, TypeOK
<1> HIDE DEF c, p
<1>6. DOMAIN c = 1..Len(c) /\ Len(c) \in Nat /\ p \in 1..Len(c)
    BY <1>1, <1>2, <1>3
<1>7. /\ Ahead(d) = {c[i] : i \in p..Len(c)}
      /\ Behind(d) = {c[i] : i \in 1..(p - 1)}
      /\ Elements(c) = {c[i] : i \in 1..Len(c)}
      /\ Current(d) = c[p]
    BY <1>6 DEF Ahead, Behind, Current, c, p, Elements
<1>8. Ahead(d) \subseteq Elements(c) /\ Behind(d) \subseteq Elements(c) /\ c[p] \in Ahead(d) /\ c[p] \in Elements(c)
    BY <1>2, <1>6, <1>7
<1>9. Current(d) \in failed /\ Current(d) \in Msg /\ Current(d) \in InHand(d) /\ InHand(d) \subseteq failed
    BY <1>4, <1>5, <1>7, <1>8 DEF InHand
<1> QED
    BY <1>1, <1>2, <1>3, <1>4, <1>6, <1>9 DEF c, p

\* What a drain has in hand once the answer for the current message came.
After(d, ok) ==
    Elements(Kept(d, ok)) \cup
    {content[drain[d].list][i] : i \in (drain[d].at + 1)..Len(content[drain[d].list])}

\* An answer takes the current message, if it is settled, and no other out of hand.
LEMMA AnswerHand ==
    ASSUME IInv, NEW d \in Walking, NEW ok \in BOOLEAN
    PROVE  /\ Kept(d, ok) \in Seq(Msg) /\ Distinct(Kept(d, ok))
           /\ Elements(Kept(d, ok)) \subseteq {content[drain[d].list][i] : i \in 1..drain[d].at}
           /\ After(d, ok) \subseteq InHand(d)
           /\ InHand(d) \ {Current(d)} \subseteq After(d, ok)
           /\ Current(d) \in After(d, ok) <=> ~(ok \/ Expired(Current(d)))
<1>1. PICK c \in Seq(Msg) : c = content[drain[d].list] /\ Distinct(c)
    BY WalkOf
<1>2. PICK p \in 1..Len(c) : p = drain[d].at /\ Current(d) = c[p]
    BY <1>1, WalkOf DEF Current
<1>3. PICK k \in Seq(Msg) : k = drain[d].kept
    BY WalkOf, OffIsNone
<1>4. DOMAIN c = 1..Len(c) /\ Len(c) \in Nat /\ p \in Nat /\ c[p] \in Msg
    BY <1>1, <1>2
<1> DEFINE rest == {c[i] : i \in (p + 1)..Len(c)}
           behind == {c[i] : i \in 1..(p - 1)}
<1>5. Distinct(k) /\ Elements(k) \subseteq behind
    BY <1>1, <1>2, <1>3 DEF IInv, Once, Behind
<1>6. Ahead(d) = {c[p]} \cup rest
  <2>1. p..Len(c) = {p} \cup ((p + 1)..Len(c))
    BY <1>4
  <2> QED
    BY <1>1, <1>2, <2>1 DEF Ahead
<1>7. c[p] \notin rest /\ c[p] \notin behind
  <2>1. \A i \in ((p + 1)..Len(c)) \cup (1..(p - 1)) : i \in DOMAIN c /\ p \in DOMAIN c /\ i # p
    BY <1>4
  <2> QED
    BY <1>1, <2>1 DEF Distinct
<1>8. behind \cup {c[p]} \subseteq {c[i] : i \in 1..p}
    BY <1>4
<1>9. InHand(d) = Elements(k) \cup {c[p]} \cup rest
    BY <1>3, <1>6 DEF InHand
<1>10. After(d, ok) = Elements(Kept(d, ok)) \cup rest
    BY <1>1, <1>2 DEF After
<1>11. CASE ok \/ Expired(Current(d))
  <2>1. Kept(d, ok) = k
    BY <1>3, <1>11 DEF Kept
  <2> HIDE DEF rest, behind
  <2> QED
    BY <1>1, <1>2, <1>5, <1>7, <1>8, <1>9, <1>10, <1>11, <2>1
<1>12. CASE ~(ok \/ Expired(Current(d)))
  <2>1. Kept(d, ok) = Append(k, c[p])
    BY <1>2, <1>3, <1>12 DEF Kept
  <2>2. Append(k, c[p]) \in Seq(Msg) /\ Distinct(Append(k, c[p]))
        /\ Elements(Append(k, c[p])) = Elements(k) \cup {c[p]}
    BY <1>4, <1>5, <1>7, AppendAdds
  <2>3. Elements(Kept(d, ok)) \subseteq {c[i] : i \in 1..p}
    BY <1>5, <1>8, <2>1, <2>2
  <2> HIDE DEF rest, behind
  <2>4. After(d, ok) = InHand(d) /\ Current(d) \in After(d, ok)
    BY <1>2, <1>9, <1>10, <2>1, <2>2
  <2> QED
    BY <1>1, <1>2, <1>12, <2>1, <2>2, <2>3, <2>4
<1> QED
    BY <1>11, <1>12

\* Fewer messages are open once an answer came, and only the current one can be
\* settled by it (Settle).
LEMMA AnswerSettles ==
    ASSUME IInv, NEW d \in Walking, NEW ok \in BOOLEAN, Settle(d, ok), UNCHANGED <<failed, hist>>
    PROVE  /\ delivered' \subseteq failed /\ dlq' \subseteq failed
           /\ Open' \subseteq Open /\ Open' \cap InHand(d) \subseteq After(d, ok)
           /\ Done' \subseteq Done \cup {Current(d)}
           /\ Current(d) \in Done' \ Done => Current(d) \notin After(d, ok)
<1>1. Current(d) \in failed /\ delivered \subseteq failed /\ dlq \subseteq failed
    BY WalkOf DEF IInv, TypeOK
<1>2. InHand(d) \ {Current(d)} \subseteq After(d, ok)
      /\ (Current(d) \in After(d, ok) <=> ~(ok \/ Expired(Current(d))))
    BY AnswerHand
<1>3. /\ delivered' = IF ok THEN delivered \cup {Current(d)} ELSE delivered
      /\ dlq' = IF ~ok /\ Expired(Current(d)) THEN dlq \cup {Current(d)} ELSE dlq
      /\ failed' = failed /\ exposed' = exposed /\ shared' = shared /\ revived' = revived
    BY DEF Settle, hist
<1>4. CASE ok \/ Expired(Current(d))
  <2>1. Settled' = Settled \cup {Current(d)} /\ delivered' \subseteq failed /\ dlq' \subseteq failed
    BY <1>1, <1>3, <1>4 DEF Settled
  <2> QED
    BY <1>2, <1>3, <1>4, <2>1 DEF Open, Done
<1>5. CASE ~(ok \/ Expired(Current(d)))
  <2>1. Settled' = Settled /\ delivered' = delivered /\ dlq' = dlq
    BY <1>3, <1>5 DEF Settled
  <2> QED
    BY <1>1, <1>2, <1>3, <1>5, <2>1 DEF Open, Done
<1> QED
    BY <1>4, <1>5

-----------------------------------------------------------------------------
(* One lemma per action.                                                   *)

\* At first nothing has failed and every array is empty.
LEMMA InitInv == Init => IInv
<1> SUFFICES ASSUME Init PROVE IInv
    OBVIOUS
<1>1. Walking = {} /\ Open = {} /\ Done = {} /\ OnDisk = {}
    BY DEF Init, Walking, Open, Done, Settled, OnDisk
<1>2. \A a \in Array : content[a] = <<>>
    BY DEF Init
<1>3. Elements(<<>>) = {} /\ Distinct(<<>>)
    BY DEF Elements, Distinct
<1>4. TypeOK
    BY OffIsNone, QueueAssumption DEF Init, TypeOK
<1>5. Walks
    BY <1>1 DEF Init, Walks
<1>6. Once
    BY <1>1, <1>2, <1>3 DEF Init, Once
<1>7. Kept4Retry /\ LeftAlone
    BY <1>1 DEF Init, Kept4Retry, LeftAlone
<1> QED
    BY <1>4, <1>5, <1>6, <1>7 DEF IInv

\* A message that is queued lies ahead of every drain of the queue; a drain of an
\* older array exposes it, two drains of the queue share it (enqueue).
LEMMA EnqueueKeeps ==
    ASSUME IInv, NEW m \in Msg, Enqueue(m)
    PROVE  IInv'
<1>1. PICK q \in Seq(Msg) : q = content[queue] /\ queue \in Array /\ Distinct(q) /\ Elements(q) \subseteq failed
    BY DEF IInv, TypeOK, Once
<1>2. PICK a \in Seq(Msg) : a = Append(q, m)
    BY <1>1, AppendAdds
<1>3. /\ m \notin failed /\ up /\ up' = up /\ queue' = queue /\ drain' = drain
      /\ content' = [content EXCEPT ![queue] = a] /\ content \in [Array -> Seq(Msg)]
      /\ failed' = failed \cup {m} /\ delivered' = delivered /\ dlq' = dlq
      /\ disk' = disk /\ file' = "saving" /\ revived' = revived /\ faults' = faults
  <2>1. content \in [Array -> Seq(Msg)]
    BY DEF IInv, TypeOK
  <2>2. content' = [content EXCEPT ![queue] = Append(q, m)]
    BY <1>1 DEF Enqueue, Pushed
  <2> QED
    BY <1>2, <2>1, <2>2 DEF Enqueue, Idle, Pushed
<1>4. /\ content'[queue] = a /\ \A b \in Array : b # queue => content'[b] = content[b]
      /\ content' \in [Array -> Seq(Msg)]
    BY <1>1, <1>3
<1>5. /\ DOMAIN a = 1..(Len(q) + 1) /\ Len(q) \in Nat /\ Len(a) = Len(q) + 1
      /\ a[Len(q) + 1] = m /\ \A i \in 1..Len(q) : a[i] = q[i]
      /\ Elements(a) = Elements(q) \cup {m} /\ Distinct(a)
    BY <1>1, <1>2, <1>3, AppendAdds
<1>6. Walking' = Walking /\ OnDisk' = OnDisk /\ Settled' = Settled
    BY <1>3 DEF Walking, OnDisk, Settled
<1>7. /\ exposed \subseteq exposed' /\ exposed' \subseteq exposed \cup {m}
      /\ shared \subseteq shared' /\ shared' \subseteq shared \cup {m}
      /\ \A d \in Walking : drain[d].list # queue => m \in exposed'
      /\ \A d, e \in Walking : d # e /\ drain[d].list = queue /\ drain[e].list = queue => m \in shared'
    BY DEF Enqueue, Pushed, Walkers
<1>8. ASSUME NEW d \in Walking
      PROVE  /\ Behind(d)' = Behind(d)
             /\ InHand(d)' = IF drain[d].list = queue THEN InHand(d) \cup {m} ELSE InHand(d)
             /\ Len(content[drain[d].list]) <= Len(content'[drain[d].list])
  <2>1. PICK p \in Nat \ {0} : p = drain[d].at /\ p <= Len(content[drain[d].list]) /\ drain[d].list \in Array
    BY <1>8, WalkOf, OffIsNone
  <2>2. CASE drain[d].list = queue
    <3>0. content[drain[d].list] = q /\ content'[drain'[d].list] = a /\ drain'[d].at = p /\ drain[d].at = p
        BY <1>1, <1>3, <1>4, <2>1, <2>2
    <3>1. Behind(d) = {q[i] : i \in 1..(p - 1)} /\ Behind(d)' = {a[i] : i \in 1..(p - 1)}
        BY <3>0, Zenon DEF Behind
    <3>2. Ahead(d) = {q[i] : i \in p..Len(q)} /\ Ahead(d)' = {a[i] : i \in p..Len(a)}
        BY <1>1, <1>3, <1>4, <2>1, <2>2 DEF Ahead
    <3>3. p <= Len(q) /\ p..Len(a) = (p..Len(q)) \cup {Len(q) + 1}
        BY <1>1, <1>5, <2>1, <2>2
    <3>4. \A i \in (1..(p - 1)) \cup (p..Len(q)) : a[i] = q[i]
        BY <1>5, <2>1, <3>3
    <3>5. Behind(d)' = Behind(d)
        BY <3>1, <3>4
    <3>6. Ahead(d)' = Ahead(d) \cup {m}
        BY <1>5, <3>2, <3>3, <3>4
    <3> QED
        BY <1>1, <1>3, <1>4, <1>5, <2>2, <3>5, <3>6 DEF InHand
  <2>3. CASE drain[d].list # queue
    <3>1. content'[drain[d].list] = content[drain[d].list]
        BY <1>4, <2>1, <2>3
    <3>2. Len(content[drain[d].list]) \in Nat
        BY <1>8, WalkOf
    <3> QED
        BY <1>3, <2>3, <3>1, <3>2 DEF Behind, Ahead, InHand
  <2> QED
    BY <2>2, <2>3
<1>9. TypeOK'
  <2>1. attempts' \in [Msg -> Nat]
    BY DEF Enqueue, Pushed, IInv, TypeOK
  <2>2. exposed' \subseteq failed' /\ shared' \subseteq failed' /\ revived' \subseteq failed'
    BY <1>3, <1>7 DEF IInv, TypeOK
  <2> QED
    BY <1>3, <1>4, <2>1, <2>2 DEF IInv, TypeOK, Array
<1>10. Walks'
  <2> SUFFICES ASSUME NEW d \in Walking PROVE drain[d].at <= Len(content'[drain[d].list])
    BY <1>3, <1>6 DEF Walks
  <2>1. drain[d].list \in Array /\ drain[d].at \in Nat
    BY WalkOf, OffIsNone
  <2>2. Len(content[drain[d].list]) \in Nat /\ Len(content'[drain[d].list]) \in Nat
    BY <1>4, <2>1, WalkOf
  <2> QED
    BY <1>8, <2>1, <2>2, WalkOf
<1>11. Once'
  <2>1. ASSUME NEW b \in Array PROVE Distinct(content'[b]) /\ Elements(content'[b]) \subseteq failed'
    BY <1>1, <1>3, <1>4, <1>5, <2>1 DEF IInv, Once
  <2>2. \A d \in Walking : Distinct(drain[d].kept) /\ Elements(drain[d].kept) \subseteq Behind(d)'
    BY <1>8 DEF IInv, Once
  <2> QED
    BY <1>3, <1>6, <2>1, <2>2 DEF IInv, Once, Array
<1>12. Kept4Retry'
  <2>1. Open' \subseteq Open \cup {m} /\ (\A d \in Walking : drain[d].list # queue => Open' \subseteq Open)
    BY <1>3, <1>6, <1>7 DEF Open
  <2>2. Open \subseteq Elements(q) /\ \A d \in Walking : Open \subseteq InHand(d)
    BY <1>1, <1>3 DEF IInv, Kept4Retry
  <2> QED
    BY <1>3, <1>4, <1>5, <1>6, <1>8, <2>1, <2>2 DEF Kept4Retry
<1>13. LeftAlone'
  <2>1. Done' \subseteq Done /\ m \notin Done
    BY <1>3, <1>6, <1>7 DEF Done, IInv, TypeOK, Settled
  <2>2. \A d \in Walking : InHand(d)' \cap Done' = {}
    BY <1>8, <2>1 DEF IInv, LeftAlone
  <2>3. \A d, e \in Walking : d # e => InHand(d)' \cap InHand(e)' \subseteq shared'
    <3> SUFFICES ASSUME NEW d \in Walking, NEW e \in Walking, d # e
                 PROVE  InHand(d)' \cap InHand(e)' \subseteq shared'
        OBVIOUS
    <3>1. InHand(d) \cap InHand(e) \subseteq shared
        BY DEF IInv, LeftAlone
    <3>2. m \notin InHand(d) /\ m \notin InHand(e)
        BY <1>3, WalkOf
  <3> QED
    BY <1>7, <1>8, <3>1, <3>2
  <2>4. Walking = {} => Elements(a) \cap Done' = {}
    BY <1>1, <1>3, <1>5, <2>1 DEF IInv, LeftAlone
  <2> QED
    BY <1>3, <1>4, <1>6, <2>2, <2>3, <2>4 DEF LeftAlone
<1> QED
    BY <1>9, <1>10, <1>11, <1>12, <1>13 DEF IInv

\* The file gets the whole queue, in which every open message is (save).
LEMMA SaveKeeps == ASSUME IInv, Save PROVE IInv'
<1>1. /\ up /\ disk' = Saved(content[queue]) /\ file' = "saved"
      /\ UNCHANGED <<up, failed, queue, content, drain, attempts, delivered, dlq, faults, hist>>
    BY DEF Save
<1>2. /\ content[queue] \in Seq(Msg) /\ attempts \in [Msg -> Nat]
      /\ Distinct(content[queue]) /\ Elements(content[queue]) \subseteq failed
    BY DEF IInv, TypeOK, Once
<1>3. /\ disk' \in Seq(Entry) /\ OnDisk' = Elements(content[queue])
      /\ \A i, j \in DOMAIN disk' : disk'[i].msg = disk'[j].msg => i = j
    BY <1>1, <1>2, SavedHolds DEF OnDisk
<1>4. /\ Walking' = Walking /\ Open' = Open /\ Done' = Done
      /\ \A d \in Walking : InHand(d)' = InHand(d) /\ Behind(d)' = Behind(d)
    BY <1>1 DEF Walking, Open, Done, Settled, InHand, Ahead, Behind, hist
<1>5. TypeOK'
    BY <1>1, <1>3 DEF IInv, TypeOK, Entry, hist, Array
<1>6. Walks' /\ Once'
    BY <1>1, <1>2, <1>3, <1>4 DEF IInv, Walks, Once, Array
<1>7. Kept4Retry' /\ LeftAlone'
    BY <1>1, <1>3, <1>4 DEF IInv, Kept4Retry, LeftAlone, hist
<1> QED
    BY <1>5, <1>6, <1>7 DEF IInv

\* A save that throws leaves a file nobody relies on.
LEMMA SaveFailsKeeps == ASSUME IInv, SaveFails PROVE IInv'
<1>1. /\ up /\ disk' \in {disk, <<>>} /\ file' = "failed" /\ faults' = faults + 1 /\ faults < MaxFaults
      /\ UNCHANGED <<up, failed, queue, content, drain, attempts, delivered, dlq, hist>>
    BY DEF SaveFails
<1>2. /\ disk' \in Seq(Entry) /\ OnDisk' \subseteq OnDisk
      /\ \A i, j \in DOMAIN disk' : disk'[i].msg = disk'[j].msg => i = j
  <2>1. disk \in Seq(Entry) /\ \A i, j \in DOMAIN disk : disk[i].msg = disk[j].msg => i = j
    BY DEF IInv, TypeOK, Once, Entry
  <2>2. CASE disk' = disk
    BY <2>1, <2>2 DEF OnDisk
  <2>3. CASE disk' = <<>>
    BY <2>3 DEF OnDisk
  <2> QED
    BY <1>1, <2>2, <2>3
<1>3. /\ Walking' = Walking /\ Open' = Open /\ Done' = Done
      /\ \A d \in Walking : InHand(d)' = InHand(d) /\ Behind(d)' = Behind(d)
    BY <1>1 DEF Walking, Open, Done, Settled, InHand, Ahead, Behind, hist
<1>4. faults' \in 0..MaxFaults
    BY <1>1, QueueAssumption DEF IInv, TypeOK
<1>5. TypeOK'
    BY <1>1, <1>2, <1>4 DEF IInv, TypeOK, Entry, hist, Array
<1>6. Walks' /\ Once'
    BY <1>1, <1>2, <1>3 DEF IInv, Walks, Once, Array
<1>7. Kept4Retry' /\ LeftAlone'
    BY <1>1, <1>3 DEF IInv, Kept4Retry, LeftAlone, hist
<1> QED
    BY <1>5, <1>6, <1>7 DEF IInv

\* A drain begins with the queue in hand; if others are on their way, it shares
\* the whole of it (drain).
LEMMA StartKeeps ==
    ASSUME IInv, NEW d \in Drain, StartDrain(d)
    PROVE  IInv'
<1>1. PICK q \in Seq(Msg) : q = content[queue] /\ queue \in Array /\ Distinct(q) /\ Elements(q) \subseteq failed
    BY DEF IInv, TypeOK, Once
<1> DEFINE w == [list |-> queue, at |-> 1, kept |-> <<>>]
<1>2. /\ up /\ drain[d] = Off /\ q # <<>> /\ drain' = [drain EXCEPT ![d] = w]
      /\ Attempt(Head(q)) /\ file # "saving"
      /\ shared' = IF Walking = {} THEN shared ELSE shared \cup Elements(q)
      /\ UNCHANGED <<up, failed, queue, content, delivered, dlq, disk, file, faults, exposed, revived>>
    BY <1>1 DEF StartDrain, Idle
<1>3. /\ DOMAIN q = 1..Len(q) /\ Len(q) \in Nat /\ 1 <= Len(q) /\ Head(q) \in Msg
    BY <1>1, <1>2
<1>4. w \in Walk /\ w # Off
  <2>1. w \in Walk
    BY <1>1 DEF Walk
  <2>2. w.list # 0
    BY <1>1, OffIsNone
  <2> QED
    BY <2>1, <2>2 DEF Off
<1>5. drain \in [Drain -> {Off} \cup Walk]
    BY DEF IInv, TypeOK, Walk
<1>6. drain'[d] = w /\ (\A e \in Drain \ {d} : drain'[e] = drain[e]) /\ drain' \in [Drain -> {Off} \cup Walk]
    BY <1>2, <1>4, <1>5
<1>7. Walking' = Walking \cup {d} /\ d \notin Walking
    BY <1>2, <1>4, <1>6 DEF Walking
<1>8. \A e \in Walking : InHand(e)' = InHand(e) /\ Behind(e)' = Behind(e) /\ drain'[e] = drain[e]
    BY <1>2, <1>6, <1>7 DEF InHand, Ahead, Behind, Walking
<1>9. InHand(d)' = Elements(q) /\ Elements(drain'[d].kept) = {} /\ Distinct(drain'[d].kept)
  <2>1. drain'[d].list = queue /\ drain'[d].at = 1 /\ drain'[d].kept = <<>>
    BY <1>6
  <2>2. Elements(<<>>) = {} /\ Distinct(<<>>)
    BY DEF Elements, Distinct
  <2>3. Ahead(d)' = {q[i] : i \in 1..Len(q)}
    BY <1>1, <1>2, <2>1 DEF Ahead
  <2>4. Ahead(d)' = Elements(q)
    BY <1>3, <2>3 DEF Elements
  <2> QED
    BY <2>1, <2>2, <2>4 DEF InHand
<1>10. Open' = Open /\ OnDisk' = OnDisk /\ Done' \subseteq Done /\ shared \subseteq shared'
    BY <1>2 DEF Open, OnDisk, Done, Settled
<1> HIDE DEF w
<1>11. TypeOK'
  <2>1. attempts' \in [Msg -> Nat]
    BY <1>2, <1>3 DEF Attempt, IInv, TypeOK
  <2>2. shared' \subseteq failed
    BY <1>1, <1>2 DEF IInv, TypeOK
  <2> QED
    BY <1>2, <1>6, <2>1, <2>2 DEF IInv, TypeOK, Walk, Array
<1>12. Walks'
  <2>1. drain'[d].list = queue /\ drain'[d].at = 1
    BY <1>6 DEF w
  <2> QED
    BY <1>1, <1>2, <1>3, <1>7, <1>8, <2>1 DEF IInv, Walks
<1>13. Once'
    BY <1>2, <1>7, <1>8, <1>9, <1>10 DEF IInv, Once, Array
<1>14. Kept4Retry'
    BY <1>1, <1>2, <1>7, <1>8, <1>9, <1>10 DEF IInv, Kept4Retry
<1>15. LeftAlone'
  <2>1. \A e \in Walking : InHand(e)' \cap Done' = {} /\ Elements(q) \subseteq shared'
    BY <1>2, <1>8, <1>10 DEF IInv, LeftAlone
  <2>2. Elements(q) \cap Done' = {}
    <3>1. CASE Walking = {}
        BY <1>1, <1>2, <1>10, <3>1 DEF IInv, LeftAlone
    <3>2. CASE Walking # {}
        BY <1>2, <3>2 DEF Done
    <3> QED
        BY <3>1, <3>2
  <2>3. \A e, f \in Walking : e # f => InHand(e)' \cap InHand(f)' \subseteq shared'
    BY <1>8, <1>10 DEF IInv, LeftAlone
  <2> QED
    BY <1>7, <1>9, <2>1, <2>2, <2>3 DEF LeftAlone
<1> QED
    BY <1>11, <1>12, <1>13, <1>14, <1>15 DEF IInv

\* The drain goes on with what is left in hand (the loop of drain).
LEMMA NextMessageKeeps ==
    ASSUME IInv, NEW d \in Drain, NEW ok \in BOOLEAN, NextMessage(d, ok)
    PROVE  IInv'
<1>1. d \in Walking
    BY DEF NextMessage, Walking
<1>2. PICK c \in Seq(Msg) : c = content[drain[d].list] /\ Distinct(c) /\ drain[d].list \in Array
    BY <1>1, WalkOf, OffIsNone
<1>3. PICK p \in 1..Len(c) : p = drain[d].at /\ p \in Nat /\ DOMAIN c = 1..Len(c) /\ Len(c) \in Nat
    BY <1>1, <1>2, WalkOf
<1>4. PICK k \in Seq(Msg) : k = Kept(d, ok) /\ Distinct(k) /\ Elements(k) \subseteq {c[i] : i \in 1..p}
    BY <1>1, <1>2, <1>3, AnswerHand
<1> DEFINE w == [list |-> drain[d].list, at |-> p + 1, kept |-> k]
<1>5. /\ up /\ p < Len(c) /\ Settle(d, ok) /\ Attempt(c[p + 1]) /\ file # "saving"
      /\ drain' = [drain EXCEPT ![d] = w]
      /\ UNCHANGED <<up, failed, queue, content, disk, file, faults, hist>>
    BY <1>2, <1>3, <1>4 DEF NextMessage, Idle
<1>6. w \in Walk /\ w # Off /\ drain \in [Drain -> {Off} \cup Walk]
  <2>1. w \in Walk
    BY <1>2, <1>3 DEF Walk
  <2>2. drain \in [Drain -> {Off} \cup Walk]
    BY DEF IInv, TypeOK, Walk
  <2> QED
    BY <2>1, <2>2, OffIsNone
<1>7. drain'[d] = w /\ (\A e \in Drain \ {d} : drain'[e] = drain[e]) /\ drain' \in [Drain -> {Off} \cup Walk]
    BY <1>5, <1>6
<1>8. Walking' = Walking /\ OnDisk' = OnDisk
    BY <1>1, <1>5, <1>6, <1>7 DEF Walking, OnDisk
<1>9. \A e \in Walking \ {d} : InHand(e)' = InHand(e) /\ Behind(e)' = Behind(e) /\ drain'[e] = drain[e]
    BY <1>5, <1>7 DEF InHand, Ahead, Behind, Walking
<1>10. InHand(d)' = After(d, ok) /\ Behind(d)' = {c[i] : i \in 1..p} /\ drain'[d].kept = k
  <2>1. drain'[d].list = drain[d].list /\ drain'[d].at = p + 1 /\ drain'[d].kept = k /\ p + 1 - 1 = p
    BY <1>3, <1>7
  <2>2. Ahead(d)' = {c[i] : i \in (p + 1)..Len(c)}
    BY <1>2, <1>5, <2>1 DEF Ahead
  <2>3. Behind(d)' = {c[i] : i \in 1..p}
    BY <1>2, <1>5, <2>1 DEF Behind
  <2>4. After(d, ok) = Elements(k) \cup {c[i] : i \in (p + 1)..Len(c)}
    BY <1>2, <1>3, <1>4 DEF After
  <2> QED
    BY <2>1, <2>2, <2>3, <2>4 DEF InHand
<1>11. /\ delivered' \subseteq failed /\ dlq' \subseteq failed
       /\ Open' \subseteq Open /\ Open' \cap InHand(d) \subseteq After(d, ok)
       /\ Done' \subseteq Done \cup {Current(d)}
       /\ Current(d) \in Done' \ Done => Current(d) \notin After(d, ok)
       /\ After(d, ok) \subseteq InHand(d) /\ Current(d) \in InHand(d)
    BY <1>1, <1>5, AnswerSettles, AnswerHand, WalkOf
<1> HIDE DEF w
<1>12. TypeOK'
  <2>1. c[p + 1] \in Msg
    BY <1>3, <1>5
  <2>2. attempts' \in [Msg -> Nat]
    BY <1>5, <2>1 DEF Attempt, IInv, TypeOK
  <2> QED
    BY <1>5, <1>7, <1>11, <2>2 DEF IInv, TypeOK, Walk, Array, hist
<1>13. Walks'
  <2>1. drain'[d].list = drain[d].list /\ drain'[d].at = p + 1 /\ p + 1 <= Len(c)
    BY <1>3, <1>5, <1>7 DEF w
  <2> QED
    BY <1>2, <1>5, <1>7, <1>8, <1>9, <2>1 DEF IInv, Walks
<1>14. Once'
    BY <1>4, <1>5, <1>8, <1>9, <1>10 DEF IInv, Once, Array
<1>15. Kept4Retry'
    BY <1>1, <1>5, <1>8, <1>9, <1>10, <1>11 DEF IInv, Kept4Retry
<1>16. LeftAlone'
  <2>1. \A e \in Walking \ {d} : InHand(e)' \cap InHand(d) \subseteq shared /\ InHand(e)' \cap Done = {}
    BY <1>1, <1>9 DEF IInv, LeftAlone
  <2>2. InHand(d) \cap Done = {} /\ shared' = shared /\ Done' \cap shared' = {}
    BY <1>1, <1>5 DEF IInv, LeftAlone, hist, Done
  <2>3. \A e \in Walking : InHand(e)' \cap Done' = {}
    BY <1>1, <1>10, <1>11, <2>1, <2>2
  <2>4. \A e, f \in Walking : e # f => InHand(e)' \cap InHand(f)' \subseteq shared'
    BY <1>9, <1>10, <1>11, <2>1, <2>2 DEF IInv, LeftAlone
  <2> QED
    BY <1>1, <1>8, <2>3, <2>4 DEF LeftAlone
<1> QED
    BY <1>12, <1>13, <1>14, <1>15, <1>16 DEF IInv

\* What the drain kept becomes the queue: every open message is among it, and no
\* other drain walks that array (this.queue = remaining).
LEMMA FinishKeeps ==
    ASSUME IInv, NEW d \in Drain, NEW ok \in BOOLEAN, FinishDrain(d, ok)
    PROVE  IInv'
<1>1. d \in Walking
    BY DEF FinishDrain, Walking
<1>2. PICK c \in Seq(Msg) : c = content[drain[d].list] /\ Distinct(c) /\ drain[d].list \in Array
                            /\ DOMAIN c = 1..Len(c) /\ Len(c) \in Nat /\ Elements(c) \subseteq failed
    BY <1>1, WalkOf, OffIsNone
<1>3. PICK k \in Seq(Msg) : k = Kept(d, ok) /\ Distinct(k) /\ Elements(k) \subseteq Elements(c)
  <2>1. drain[d].at = Len(c) /\ Elements(c) = {c[i] : i \in 1..Len(c)}
    BY <1>2 DEF FinishDrain, Elements
  <2> QED
    BY <1>1, <1>2, <2>1, AnswerHand
<1>4. /\ FreshArray(d) \in Array
      /\ \A e \in Walking \ {d} : drain[e].list # FreshArray(d)
    BY <1>1, FreshExists
<1>5. /\ up /\ drain[d].at = Len(c) /\ Settle(d, ok) /\ queue' = FreshArray(d)
      /\ content' = [content EXCEPT ![FreshArray(d)] = k] /\ file' = "saving"
      /\ drain' = [drain EXCEPT ![d] = Off]
      /\ UNCHANGED <<up, failed, attempts, disk, faults, hist>>
    BY <1>2, <1>3 DEF FinishDrain, Idle
<1>6. drain \in [Drain -> {Off} \cup Walk] /\ content \in [Array -> Seq(Msg)]
    BY DEF IInv, TypeOK, Walk
<1>7. /\ drain'[d] = Off /\ (\A e \in Drain \ {d} : drain'[e] = drain[e])
      /\ drain' \in [Drain -> {Off} \cup Walk]
    BY <1>5, <1>6
<1>8. /\ content'[queue'] = k /\ queue' \in Array /\ content' \in [Array -> Seq(Msg)]
      /\ \A a \in Array : a # queue' => content'[a] = content[a]
    BY <1>3, <1>4, <1>5, <1>6
<1>9. Walking' = Walking \ {d} /\ OnDisk' = OnDisk
    BY <1>5, <1>7 DEF Walking, OnDisk
<1>10. ASSUME NEW e \in Walking'
       PROVE  /\ e \in Walking /\ e # d /\ InHand(e)' = InHand(e) /\ Behind(e)' = Behind(e)
              /\ drain'[e] = drain[e] /\ content'[drain[e].list] = content[drain[e].list]
  <2>1. e \in Walking /\ e \in Drain /\ e # d /\ drain[e].list \in Array /\ drain'[e] = drain[e]
    BY <1>7, <1>9, <1>10, WalkOf, OffIsNone
  <2>2. content'[drain[e].list] = content[drain[e].list]
    BY <1>4, <1>5, <1>8, <2>1
  <2> QED
    BY <2>1, <2>2 DEF InHand, Ahead, Behind
<1>11. Elements(k) = After(d, ok)
  <2>1. {c[i] : i \in (Len(c) + 1)..Len(c)} = {}
    BY <1>2
  <2> QED
    BY <1>2, <1>3, <1>5, <2>1 DEF After
<1>12. /\ delivered' \subseteq failed /\ dlq' \subseteq failed
       /\ Open' \subseteq Open /\ Open' \cap InHand(d) \subseteq After(d, ok)
       /\ Done' \subseteq Done \cup {Current(d)}
       /\ Current(d) \in Done' \ Done => Current(d) \notin After(d, ok)
       /\ After(d, ok) \subseteq InHand(d) /\ Current(d) \in InHand(d)
    BY <1>1, <1>5, AnswerSettles, AnswerHand, WalkOf
<1>13. TypeOK'
    BY <1>5, <1>7, <1>8, <1>12 DEF IInv, TypeOK, Walk, Array, hist
<1>14. Walks'
    BY <1>5, <1>10 DEF IInv, Walks
<1>15. Once'
  <2>1. \A a \in Array : Distinct(content'[a]) /\ Elements(content'[a]) \subseteq failed
    BY <1>2, <1>3, <1>8 DEF IInv, Once
  <2>2. \A e \in Walking' : Distinct(drain'[e].kept) /\ Elements(drain'[e].kept) \subseteq Behind(e)'
    BY <1>10 DEF IInv, Once
  <2> QED
    BY <1>5, <1>9, <2>1, <2>2 DEF IInv, Once, Array
<1>16. Kept4Retry'
  <2>1. Open' \subseteq Elements(k)
    BY <1>1, <1>11, <1>12 DEF IInv, Kept4Retry
  <2> QED
    BY <1>5, <1>8, <1>10, <1>12, <2>1 DEF IInv, Kept4Retry
<1>17. LeftAlone'
  <2>1. \A e \in Walking' : InHand(e)' \cap InHand(d) \subseteq shared /\ InHand(e)' \cap Done = {}
    BY <1>1, <1>10 DEF IInv, LeftAlone
  <2>2. InHand(d) \cap Done = {} /\ shared' = shared /\ Done' \cap shared' = {}
    BY <1>1, <1>5 DEF IInv, LeftAlone, hist, Done
  <2>3. \A e \in Walking' : InHand(e)' \cap Done' = {}
    BY <1>12, <2>1, <2>2
  <2>4. \A e, f \in Walking' : e # f => InHand(e)' \cap InHand(f)' \subseteq shared'
    BY <1>10, <2>2 DEF IInv, LeftAlone
  <2>5. Elements(k) \cap Done' = {}
    BY <1>11, <1>12, <2>2
  <2> QED
    BY <1>8, <2>3, <2>4, <2>5 DEF LeftAlone
<1> QED
    BY <1>13, <1>14, <1>15, <1>16, <1>17 DEF IInv

\* A crash ends every drain; if the file was not saved, nothing is promised of
\* the messages that failed so far.
LEMMA CrashKeeps == ASSUME IInv, Crash PROVE IInv'
<1>1. /\ up' = FALSE /\ file' = "saved" /\ faults' = faults + 1 /\ faults < MaxFaults
      /\ drain' = [d \in Drain |-> Off] /\ disk' \in {disk, <<>>}
      /\ (file = "saved" => disk' = disk /\ exposed' = exposed)
      /\ (file # "saved" => exposed' = exposed \cup failed)
      /\ UNCHANGED <<failed, queue, content, attempts, delivered, dlq, shared, revived>>
    BY DEF Crash
<1>2. Walking' = {}
    BY <1>1 DEF Walking
<1>3. /\ disk' \in Seq(Entry) /\ OnDisk' \subseteq failed
      /\ \A i, j \in DOMAIN disk' : disk'[i].msg = disk'[j].msg => i = j
  <2>1. /\ disk \in Seq(Entry) /\ OnDisk \subseteq failed
        /\ \A i, j \in DOMAIN disk : disk[i].msg = disk[j].msg => i = j
    BY DEF IInv, TypeOK, Once, Entry
  <2>2. CASE disk' = disk
    BY <2>1, <2>2 DEF OnDisk
  <2>3. CASE disk' = <<>>
    BY <2>3 DEF OnDisk
  <2> QED
    BY <1>1, <2>2, <2>3
<1>4. TypeOK'
  <2>1. faults' \in 0..MaxFaults
    BY <1>1, QueueAssumption DEF IInv, TypeOK
  <2>2. exposed' \subseteq failed
    BY <1>1 DEF IInv, TypeOK
  <2>3. drain' \in [Drain -> {Off} \cup Walk]
    BY <1>1
  <2> QED
    BY <1>1, <1>3, <2>1, <2>2, <2>3 DEF IInv, TypeOK, Entry, Walk, Array
<1>5. Walks' /\ Once'
    BY <1>1, <1>2, <1>3 DEF IInv, Walks, Once, Array
<1>6. Kept4Retry'
  <2>1. CASE file = "saved"
    <3>1. Open' = Open /\ OnDisk' = OnDisk
        BY <1>1, <2>1 DEF Open, Settled, OnDisk
    <3> QED
        BY <1>1, <1>2, <2>1, <3>1 DEF IInv, Kept4Retry
  <2>2. CASE file # "saved"
    <3>1. Open' = {}
        BY <1>1, <2>2 DEF Open
    <3> QED
        BY <1>2, <3>1 DEF Kept4Retry
  <2> QED
    BY <2>1, <2>2
<1>7. LeftAlone'
    BY <1>1, <1>2 DEF LeftAlone
<1> QED
    BY <1>4, <1>5, <1>6, <1>7 DEF IInv

\* A start makes the queue of the file; what it reads back is revived (load).
LEMMA LoadKeeps == ASSUME IInv, Load PROVE IInv'
<1> DEFINE loaded == [i \in DOMAIN disk |-> disk[i].msg]
<1>1. /\ ~up /\ up' = TRUE /\ content' = [content EXCEPT ![queue] = loaded]
      /\ revived' = revived \cup (OnDisk \cap Settled)
      /\ UNCHANGED <<failed, queue, drain, delivered, dlq, disk, file, faults, exposed, shared>>
    BY DEF Load
<1>2. /\ disk \in Seq(Entry) /\ OnDisk \subseteq failed /\ queue \in Array /\ content \in [Array -> Seq(Msg)]
      /\ \A i, j \in DOMAIN disk : disk[i].msg = disk[j].msg => i = j
      /\ Walking = {} /\ file = "saved"
    BY <1>1 DEF IInv, TypeOK, Once, Walks, Entry
<1>3. /\ DOMAIN disk = 1..Len(disk) /\ Len(disk) \in Nat
      /\ \A i \in 1..Len(disk) : disk[i].msg \in Msg /\ disk[i].attempts \in Nat
  <2>1. \A e \in Entry : e.msg \in Msg /\ e.attempts \in Nat
    BY DEF Entry
  <2> QED
    BY <1>2, <2>1
<1>4. loaded \in Seq(Msg) /\ Elements(loaded) = OnDisk /\ Distinct(loaded)
  <2>1. DOMAIN loaded = 1..Len(disk) /\ \A i \in 1..Len(disk) : loaded[i] = disk[i].msg
    BY <1>3
  <2>2. loaded = [i \in 1..Len(disk) |-> disk[i].msg]
    BY <1>3
  <2>3. loaded \in Seq(Msg)
    BY <1>3, <2>2
  <2> HIDE DEF loaded
  <2>4. Elements(loaded) = OnDisk
    BY <1>3, <2>1 DEF Elements, OnDisk
  <2>5. Distinct(loaded)
    BY <1>2, <1>3, <2>1 DEF Distinct
  <2> QED
    BY <2>3, <2>4, <2>5
<1> HIDE DEF loaded
<1>5. /\ content'[queue] = loaded /\ content' \in [Array -> Seq(Msg)]
      /\ \A a \in Array : a # queue => content'[a] = content[a]
    BY <1>1, <1>2, <1>4
<1>6. Walking' = {} /\ OnDisk' = OnDisk /\ Settled' = Settled /\ Open' = Open
    BY <1>1, <1>2 DEF Walking, OnDisk, Settled, Open
<1>7. attempts' \in [Msg -> Nat]
  <2>1. ASSUME NEW m \in Msg, \E i \in DOMAIN disk : disk[i].msg = m
        PROVE  disk[CHOOSE i \in DOMAIN disk : disk[i].msg = m].attempts \in Nat
    BY <1>3, <2>1
  <2>2. attempts \in [Msg -> Nat]
    BY DEF IInv, TypeOK
  <2> QED
    BY <2>1, <2>2 DEF Load
<1>8. TypeOK'
  <2>1. revived' \subseteq failed
    BY <1>1, <1>2 DEF IInv, TypeOK
  <2> QED
    BY <1>1, <1>5, <1>7, <2>1 DEF IInv, TypeOK, Array
<1>9. Walks'
    BY <1>1, <1>6 DEF Walks
<1>10. Once'
  <2>1. \A a \in Array : Distinct(content'[a]) /\ Elements(content'[a]) \subseteq failed
    BY <1>2, <1>4, <1>5 DEF IInv, Once
  <2> QED
    BY <1>1, <1>2, <1>6, <2>1 DEF Once, Array
<1>11. Kept4Retry'
  <2>1. Open \subseteq OnDisk
    BY <1>2 DEF IInv, Kept4Retry
  <2> QED
    BY <1>1, <1>4, <1>5, <1>6, <2>1 DEF Kept4Retry
<1>12. LeftAlone'
  <2>1. OnDisk \cap Done' = {}
    BY <1>1, <1>6 DEF Done
  <2> QED
    BY <1>1, <1>4, <1>5, <1>6, <2>1 DEF LeftAlone
<1> QED
    BY <1>8, <1>9, <1>10, <1>11, <1>12 DEF IInv

\* Every step keeps the invariant.
LEMMA StepKeeps == IInv /\ [Next]_vars => IInv'
<1> SUFFICES ASSUME IInv, [Next]_vars PROVE IInv'
    OBVIOUS
<1>1. ASSUME NEW m \in Msg, Enqueue(m) PROVE IInv'
    BY <1>1, EnqueueKeeps
<1>2. ASSUME NEW d \in Drain, StartDrain(d) PROVE IInv'
    BY <1>2, StartKeeps
<1>3. ASSUME NEW d \in Drain, Answer(d) PROVE IInv'
    BY <1>3, NextMessageKeeps, FinishKeeps DEF Answer
<1>4. CASE Save
    BY <1>4, SaveKeeps
<1>5. CASE SaveFails
    BY <1>5, SaveFailsKeeps
<1>6. CASE Crash
    BY <1>6, CrashKeeps
<1>7. CASE Load
    BY <1>7, LoadKeeps
<1>8. CASE UNCHANGED vars
  <2>1. UNCHANGED <<up, failed, queue, content, drain, attempts, delivered, dlq, disk, file, faults, exposed, shared, revived>>
    BY <1>8 DEF vars, hist
  <2>2. /\ Walking' = Walking /\ Open' = Open /\ Done' = Done /\ OnDisk' = OnDisk
        /\ \A d \in Walking : InHand(d)' = InHand(d) /\ Behind(d)' = Behind(d)
    BY <2>1 DEF Walking, Open, Done, Settled, OnDisk, InHand, Ahead, Behind
  <2>3. TypeOK'
    BY <2>1 DEF IInv, TypeOK, Array
  <2>4. Walks' /\ Once'
    BY <2>1, <2>2 DEF IInv, Walks, Once, Array
  <2>5. Kept4Retry' /\ LeftAlone'
    BY <2>1, <2>2 DEF IInv, Kept4Retry, LeftAlone
  <2> QED
    BY <2>3, <2>4, <2>5 DEF IInv
<1> QED
    BY <1>1, <1>2, <1>3, <1>4, <1>5, <1>6, <1>7, <1>8 DEF Next

-----------------------------------------------------------------------------
(* The theorems: no assumption but that drains are finitely many.          *)

\* The variables stay in their types (gateway/delivery-queue.ts).
THEOREM TypeCorrect == Spec => []TypeOK
<1>1. IInv => TypeOK
    BY DEF IInv
<1> QED
    BY <1>1, InitInv, StepKeeps, PTL DEF Spec

\* A message that failed and is not settled is in the queue of the running daemon
\* and in every file that was saved, however drains overlap and wherever the
\* daemon crashes: only a fault of the file, or a drain of an older array than the
\* one it was queued in, can lose it (enqueue, drain, save, load).
THEOREM NeverLost == Spec => []NothingLost
<1>1. IInv => NothingLost
    BY DEF IInv, Kept4Retry, Open, NothingLost
<1> QED
    BY <1>1, InitInv, StepKeeps, PTL DEF Spec

\* No message stands twice in the queue of the running daemon, nor in the file.
QueuedOnce ==
    /\ Distinct(content[queue]) /\ Elements(content[queue]) \subseteq failed
    /\ \A i, j \in DOMAIN disk : disk[i].msg = disk[j].msg => i = j

\* Overlapping drains replace each other's queue, and yet no message is queued
\* twice by it, nor by a restart (enqueue, drain, load).
THEOREM NeverTwiceInQueue == Spec => []QueuedOnce
<1>1. IInv => QueuedOnce
    BY DEF IInv, TypeOK, Once, QueuedOnce
<1> QED
    BY <1>1, InitInv, StepKeeps, PTL DEF Spec

\* A message that was delivered or given up is not sent again, unless two drains
\* had it in hand together or a restart read it back from the file (drain, load).
THEOREM NeverResent == Spec => []SentOnce
<1>1. IInv => SentOnce
  <2> SUFFICES ASSUME IInv, NEW d \in Walking, Current(d) \in Settled
               PROVE  Current(d) \in shared \cup revived
    BY DEF SentOnce
  <2>1. Current(d) \in InHand(d)
    BY WalkOf
  <2> QED
    BY <2>1 DEF IInv, LeftAlone, Done
<1> QED
    BY <1>1, InitInv, StepKeeps, PTL DEF Spec
=============================================================================
