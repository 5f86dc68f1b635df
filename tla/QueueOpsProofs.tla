--------------------------- MODULE QueueOpsProofs ---------------------------
(***************************************************************************)
(* What the queue operators do to the members of the queues, stated once   *)
(* for the proofs about the kernel: types, exclusiveness, membership and   *)
(* lengths.                                                                *)
(***************************************************************************)
EXTENDS QueueOps, SequenceTheorems, TLAPS

LEMMA PositionOf ==
  ASSUME NEW s, NEW e \in ToSet(s)
  PROVE  Position(s, e) \in DOMAIN s /\ s[Position(s, e)] = e
BY DEF Position, ToSet

LEMMA RemoveAtProperties ==
  ASSUME NEW T, NEW s \in Seq(T), NEW k \in 1..Len(s)
  PROVE  /\ RemoveAt(s, k) \in Seq(T)
         /\ Len(RemoveAt(s, k)) = Len(s) - 1
         /\ \A i \in 1..(Len(s) - 1) :
              RemoveAt(s, k)[i] = IF i < k THEN s[i] ELSE s[i + 1]
<1> DEFINE a == SubSeq(s, 1, k - 1)
           b == SubSeq(s, k + 1, Len(s))
<1>1. \A i \in 1..Len(s) : s[i] \in T
  BY ElementOfSeq
<1>2. Len(s) \in Nat
  BY LenProperties
<1>3. /\ a \in Seq(T) /\ Len(a) = k - 1
      /\ \A i \in 1..(k - 1) : a[i] = s[i]
  <2>1. \A i \in 1..(k - 1) : s[i] \in T
    BY <1>1, <1>2
  <2>2. 1 \in Int /\ k - 1 \in Int
    BY <1>2
  <2>3. /\ a \in Seq(T)
        /\ Len(a) = IF 1 <= k - 1 THEN k - 1 - 1 + 1 ELSE 0
        /\ \A i \in 1..(k - 1 - 1 + 1) : a[i] = s[1 + i - 1]
    BY <2>1, <2>2, SubSeqProperties
  <2> QED BY <1>2, <2>3
<1>4. /\ b \in Seq(T) /\ Len(b) = Len(s) - k
      /\ \A i \in 1..(Len(s) - k) : b[i] = s[k + i]
  <2>1. \A i \in (k + 1)..Len(s) : s[i] \in T
    BY <1>1, <1>2
  <2>2. k + 1 \in Int /\ Len(s) \in Int
    BY <1>2
  <2>3. /\ b \in Seq(T)
        /\ Len(b) = IF k + 1 <= Len(s) THEN Len(s) - (k + 1) + 1 ELSE 0
        /\ \A i \in 1..(Len(s) - (k + 1) + 1) : b[i] = s[k + 1 + i - 1]
    BY <2>1, <2>2, SubSeqProperties
  <2>4. Len(b) = Len(s) - k
    BY <1>2, <2>3
  <2>5. ASSUME NEW i \in 1..(Len(s) - k) PROVE b[i] = s[k + i]
    <3>1. i \in 1..(Len(s) - (k + 1) + 1) /\ k + 1 + i - 1 = k + i
      BY <1>2
    <3> QED BY <2>3, <3>1
  <2> QED BY <2>3, <2>4, <2>5
<1> HIDE DEF a, b
<1>5. RemoveAt(s, k) = a \o b
  BY DEF RemoveAt, a, b
<1>6. /\ a \o b \in Seq(T) /\ Len(a \o b) = Len(a) + Len(b)
      /\ \A i \in 1..(Len(a) + Len(b)) :
           (a \o b)[i] = IF i <= Len(a) THEN a[i] ELSE b[i - Len(a)]
  BY <1>3, <1>4, ConcatProperties
<1>7. ASSUME NEW i \in 1..(Len(s) - 1)
      PROVE  (a \o b)[i] = IF i < k THEN s[i] ELSE s[i + 1]
  <2>1. i \in 1..(Len(a) + Len(b))
    BY <1>2, <1>3, <1>4
  <2>2. CASE i < k
    BY <1>2, <1>3, <1>6, <2>1, <2>2
  <2>3. CASE ~(i < k)
    <3>1. i - Len(a) \in 1..(Len(s) - k) /\ k + (i - Len(a)) = i + 1
          /\ ~(i <= Len(a))
      BY <1>2, <1>3, <2>3
    <3> QED BY <1>4, <1>6, <2>1, <2>3, <3>1
  <2> QED BY <2>2, <2>3
<1> QED BY <1>2, <1>3, <1>4, <1>5, <1>6, <1>7

LEMMA NoRepeatsRemoveAt ==
  ASSUME NEW T, NEW s \in Seq(T), NEW k \in 1..Len(s), NoRepeats(s)
  PROVE  /\ NoRepeats(RemoveAt(s, k))
         /\ ToSet(RemoveAt(s, k)) = ToSet(s) \ {s[k]}
<1> DEFINE r == RemoveAt(s, k)
<1>1. /\ r \in Seq(T) /\ Len(r) = Len(s) - 1
      /\ \A i \in 1..(Len(s) - 1) : r[i] = IF i < k THEN s[i] ELSE s[i + 1]
  BY RemoveAtProperties
<1>2. Len(s) \in Nat /\ DOMAIN s = 1..Len(s) /\ DOMAIN r = 1..(Len(s) - 1)
  BY <1>1, LenProperties
<1> HIDE DEF r
<1>3. NoRepeats(r)
  <2> SUFFICES ASSUME NEW i \in DOMAIN r, NEW j \in DOMAIN r, r[i] = r[j]
               PROVE  i = j
    BY DEF NoRepeats
  <2> DEFINE up(n) == IF n < k THEN n ELSE n + 1
  <2>1. up(i) \in DOMAIN s /\ up(j) \in DOMAIN s
    BY <1>2
  <2>2. r[i] = s[up(i)] /\ r[j] = s[up(j)]
    BY <1>1, <1>2
  <2>3. up(i) = up(j)
    BY <2>1, <2>2 DEF NoRepeats
  <2> QED BY <1>2, <2>3
<1>4. ASSUME NEW x \in ToSet(r) PROVE x \in ToSet(s) \ {s[k]}
  <2>1. PICK i \in DOMAIN r : r[i] = x
    BY DEF ToSet
  <2> DEFINE j == IF i < k THEN i ELSE i + 1
  <2>2. j \in DOMAIN s /\ j # k /\ x = s[j]
    BY <1>1, <1>2, <2>1
  <2>3. s[j] # s[k]
    BY <1>2, <2>2 DEF NoRepeats
  <2> QED BY <2>2, <2>3 DEF ToSet
<1>5. ASSUME NEW x \in ToSet(s) \ {s[k]} PROVE x \in ToSet(r)
  <2>1. PICK i \in DOMAIN s : s[i] = x /\ i # k
    BY DEF ToSet
  <2> DEFINE j == IF i < k THEN i ELSE i - 1
  <2>2. j \in DOMAIN r /\ r[j] = x
    BY <1>1, <1>2, <2>1
  <2> QED BY <2>2 DEF ToSet
<1> QED BY <1>3, <1>4, <1>5 DEF r

LEMMA NoRepeatsConcat ==
  ASSUME NEW T, NEW s \in Seq(T), NEW r \in Seq(T),
         NoRepeats(s), NoRepeats(r), ToSet(s) \cap ToSet(r) = {}
  PROVE  /\ s \o r \in Seq(T) /\ Len(s \o r) = Len(s) + Len(r)
         /\ NoRepeats(s \o r)
         /\ ToSet(s \o r) = ToSet(s) \cup ToSet(r)
<1>1. /\ s \o r \in Seq(T) /\ Len(s \o r) = Len(s) + Len(r)
      /\ \A i \in 1..(Len(s) + Len(r)) :
           (s \o r)[i] = IF i <= Len(s) THEN s[i] ELSE r[i - Len(s)]
  BY ConcatProperties
<1>2. /\ Len(s) \in Nat /\ Len(r) \in Nat
      /\ DOMAIN s = 1..Len(s) /\ DOMAIN r = 1..Len(r)
      /\ DOMAIN (s \o r) = 1..(Len(s) + Len(r))
  BY <1>1, LenProperties
<1> DEFINE c == s \o r
<1> HIDE DEF c
<1>3. \A i \in DOMAIN c :
        \/ i \in DOMAIN s /\ c[i] = s[i]
        \/ i - Len(s) \in DOMAIN r /\ c[i] = r[i - Len(s)] /\ i > Len(s)
  BY <1>1, <1>2 DEF c
<1>4. NoRepeats(c)
  <2> SUFFICES ASSUME NEW i \in DOMAIN c, NEW j \in DOMAIN c, c[i] = c[j]
               PROVE  i = j
    BY DEF NoRepeats
  <2>1. i \in Int /\ j \in Int
    BY <1>2 DEF c
  <2>2. \/ i \in DOMAIN s /\ c[i] = s[i]
        \/ i - Len(s) \in DOMAIN r /\ c[i] = r[i - Len(s)]
    BY <1>3
  <2>3. \/ j \in DOMAIN s /\ c[j] = s[j]
        \/ j - Len(s) \in DOMAIN r /\ c[j] = r[j - Len(s)]
    BY <1>3
  <2>4. CASE i \in DOMAIN s /\ j \in DOMAIN s /\ c[i] = s[i] /\ c[j] = s[j]
    BY <2>4 DEF NoRepeats
  <2>5. CASE /\ i - Len(s) \in DOMAIN r /\ c[i] = r[i - Len(s)]
             /\ j - Len(s) \in DOMAIN r /\ c[j] = r[j - Len(s)]
    <3>1. i - Len(s) = j - Len(s)
      BY <2>5 DEF NoRepeats
    <3> QED BY <1>2, <2>1, <3>1
  <2>6. ASSUME NEW m \in DOMAIN s, NEW n \in DOMAIN r PROVE s[m] # r[n]
    BY DEF ToSet
  <2> QED BY <2>2, <2>3, <2>4, <2>5, <2>6
<1>5. ToSet(c) \subseteq ToSet(s) \cup ToSet(r)
  BY <1>3 DEF ToSet
<1>6. ASSUME NEW x \in ToSet(s) PROVE x \in ToSet(c)
  <2>1. PICK i \in DOMAIN s : s[i] = x
    BY DEF ToSet
  <2>2. i \in DOMAIN c /\ c[i] = x
    BY <1>1, <1>2, <2>1 DEF c
  <2> QED BY <2>2 DEF ToSet
<1>7. ASSUME NEW x \in ToSet(r) PROVE x \in ToSet(c)
  <2>1. PICK i \in DOMAIN r : r[i] = x
    BY DEF ToSet
  <2>2. i + Len(s) \in DOMAIN c /\ c[i + Len(s)] = x
    <3>1. /\ i + Len(s) \in 1..(Len(s) + Len(r)) /\ ~(i + Len(s) <= Len(s))
          /\ i + Len(s) - Len(s) = i
      BY <1>2
    <3> QED BY <1>1, <1>2, <2>1, <3>1 DEF c
  <2> QED BY <2>2 DEF ToSet
<1> QED BY <1>1, <1>4, <1>5, <1>6, <1>7 DEF c

LEMMA NoRepeatsAppend ==
  ASSUME NEW T, NEW s \in Seq(T), NEW e \in T, NoRepeats(s), e \notin ToSet(s)
  PROVE  /\ Append(s, e) \in Seq(T) /\ Len(Append(s, e)) = Len(s) + 1
         /\ NoRepeats(Append(s, e))
         /\ ToSet(Append(s, e)) = ToSet(s) \cup {e}
<1>1. << e >> \in Seq(T) /\ NoRepeats(<< e >>) /\ ToSet(<< e >>) = {e}
      /\ Len(<< e >>) = 1
  BY DEF NoRepeats, ToSet
<1>2. Append(s, e) = s \o << e >>
  BY AppendIsConcat
<1> DEFINE r == << e >>
<1> HIDE DEF r
<1>3. /\ s \o r \in Seq(T) /\ Len(s \o r) = Len(s) + Len(r)
      /\ NoRepeats(s \o r) /\ ToSet(s \o r) = ToSet(s) \cup ToSet(r)
  <2>1. r \in Seq(T) /\ NoRepeats(r) /\ ToSet(s) \cap ToSet(r) = {}
    BY <1>1 DEF r
  <2> QED BY <2>1, NoRepeatsConcat
<1> QED BY <1>1, <1>2, <1>3 DEF r
-----------------------------------------------------------------------------
(* The effects, as relations between the queues before and after. *)
Appended(D, T, qs, q, e, new) ==
  /\ new \in [D -> Seq(T)] /\ Exclusive(new)
  /\ new[q] = Append(qs[q], e) /\ Len(new[q]) = Len(qs[q]) + 1
  /\ ToSet(new[q]) = ToSet(qs[q]) \cup {e}
  /\ \A p \in D \ {q} : new[p] = qs[p]

Removed(D, T, qs, q, e, new) ==
  /\ new \in [D -> Seq(T)] /\ Exclusive(new)
  /\ new[q] = RemoveAt(qs[q], Position(qs[q], e))
  /\ Len(new[q]) = Len(qs[q]) - 1
  /\ ToSet(new[q]) = ToSet(qs[q]) \ {e}
  /\ \A p \in D \ {q} : new[p] = qs[p]
  /\ \A p \in D : e \notin ToSet(new[p])

Moved(D, T, qs, from, to, e, new) ==
  /\ new \in [D -> Seq(T)] /\ Exclusive(new)
  /\ new[to] = Append(qs[to], e)
  /\ new[from] = RemoveAt(qs[from], Position(qs[from], e))
  /\ Len(new[to]) = Len(qs[to]) + 1
  /\ Len(new[from]) = Len(qs[from]) - 1
  /\ ToSet(new[to]) = ToSet(qs[to]) \cup {e}
  /\ ToSet(new[from]) = ToSet(qs[from]) \ {e}
  /\ \A p \in D \ {from, to} : new[p] = qs[p]

MovedAll(D, T, qs, from, to, new) ==
  /\ new \in [D -> Seq(T)] /\ Exclusive(new)
  /\ new[from] = << >> /\ ToSet(new[from]) = {}
  /\ ToSet(new[to]) = ToSet(qs[to]) \cup ToSet(qs[from])
  /\ \A p \in D \ {from, to} : new[p] = qs[p]

(* queue_append of an element that is in no queue. *)
LEMMA AppendEffect ==
  ASSUME NEW D, NEW T, NEW qs \in [D -> Seq(T)], Exclusive(qs),
         NEW q \in D, NEW e \in T, \A p \in D : e \notin ToSet(qs[p])
  PROVE  Appended(D, T, qs, q, e, queue_append(qs, q, e))
<1> DEFINE new == queue_append(qs, q, e)
<1>1. new = [qs EXCEPT ![q] = Append(qs[q], e)]
  BY DEF queue_append, InSomeQueue
<1>2. /\ Append(qs[q], e) \in Seq(T) /\ Len(Append(qs[q], e)) = Len(qs[q]) + 1
      /\ NoRepeats(Append(qs[q], e))
      /\ ToSet(Append(qs[q], e)) = ToSet(qs[q]) \cup {e}
  BY NoRepeatsAppend DEF Exclusive
<1> HIDE DEF new
<1>3. new \in [D -> Seq(T)] /\ new[q] = Append(qs[q], e)
      /\ \A p \in D \ {q} : new[p] = qs[p]
  BY <1>1, <1>2
<1>4. \A p \in D : NoRepeats(new[p])
  BY <1>2, <1>3 DEF Exclusive
<1>5. ASSUME NEW p \in D, NEW r \in D, p # r
      PROVE  ToSet(new[p]) \cap ToSet(new[r]) = {}
  <2>1. ToSet(qs[p]) \cap ToSet(qs[r]) = {}
    BY <1>5 DEF Exclusive
  <2>2. e \notin ToSet(qs[p]) /\ e \notin ToSet(qs[r])
    OBVIOUS
  <2>3. /\ ToSet(new[p]) = IF p = q THEN ToSet(qs[p]) \cup {e} ELSE ToSet(qs[p])
        /\ ToSet(new[r]) = IF r = q THEN ToSet(qs[r]) \cup {e} ELSE ToSet(qs[r])
    BY <1>2, <1>3
  <2> QED BY <1>5, <2>1, <2>2, <2>3
<1>6. Exclusive(new)
  BY <1>3, <1>4, <1>5 DEF Exclusive
<1> QED BY <1>2, <1>3, <1>6 DEF new, Appended

(* queue_remove of an element of the queue. *)
LEMMA RemoveEffect ==
  ASSUME NEW D, NEW T, NEW qs \in [D -> Seq(T)], Exclusive(qs),
         NEW q \in D, NEW e \in ToSet(qs[q])
  PROVE  Removed(D, T, qs, q, e, queue_remove(qs, q, e))
<1> DEFINE new == queue_remove(qs, q, e)
           k   == Position(qs[q], e)
           s   == RemoveAt(qs[q], k)
<1>1. qs[q] \in Seq(T) /\ NoRepeats(qs[q])
  BY DEF Exclusive
<1>2. k \in 1..Len(qs[q]) /\ qs[q][k] = e
  BY <1>1, PositionOf, LenProperties
<1>3. /\ s \in Seq(T) /\ Len(s) = Len(qs[q]) - 1
      /\ NoRepeats(s) /\ ToSet(s) = ToSet(qs[q]) \ {e}
  BY <1>1, <1>2, RemoveAtProperties, NoRepeatsRemoveAt
<1>4. new = [qs EXCEPT ![q] = s]
  BY DEF queue_remove
<1> HIDE DEF new, k, s
<1>5. new \in [D -> Seq(T)] /\ new[q] = s /\ \A p \in D \ {q} : new[p] = qs[p]
  BY <1>3, <1>4
<1>6. \A p \in D : NoRepeats(new[p])
  BY <1>3, <1>5 DEF Exclusive
<1>7. \A p \in D : ToSet(new[p]) \subseteq ToSet(qs[p])
  BY <1>3, <1>5
<1>8. \A p, r \in D : p # r => ToSet(qs[p]) \cap ToSet(qs[r]) = {}
  BY DEF Exclusive
<1>9. \A p, r \in D : p # r => ToSet(new[p]) \cap ToSet(new[r]) = {}
  BY <1>7, <1>8
<1>10. \A p \in D : e \notin ToSet(new[p])
  BY <1>3, <1>5, <1>7, <1>8
<1>11. Exclusive(new)
  BY <1>5, <1>6, <1>9 DEF Exclusive
<1> QED BY <1>3, <1>5, <1>10, <1>11 DEF new, s, k, Removed

(* How a task is blocked or woken. *)
LEMMA MoveEffect ==
  ASSUME NEW D, NEW T, NEW qs \in [D -> Seq(T)], Exclusive(qs),
         NEW from \in D, NEW to \in D, from # to, NEW e \in ToSet(qs[from])
  PROVE  Moved(D, T, qs, from, to, e, Move(qs, from, to, e))
<1> DEFINE mid == queue_remove(qs, from, e)
           new == queue_append(mid, to, e)
<1>1. /\ mid \in [D -> Seq(T)] /\ Exclusive(mid)
      /\ mid[from] = RemoveAt(qs[from], Position(qs[from], e))
      /\ Len(mid[from]) = Len(qs[from]) - 1
      /\ ToSet(mid[from]) = ToSet(qs[from]) \ {e}
      /\ \A p \in D \ {from} : mid[p] = qs[p]
      /\ \A p \in D : e \notin ToSet(mid[p])
  BY RemoveEffect DEF Removed
<1>2. e \in T
  <2>1. qs[from] \in Seq(T)
    OBVIOUS
  <2> QED BY <2>1, ElementOfSeq, LenProperties DEF ToSet
<1> HIDE DEF mid
<1>3. Appended(D, T, mid, to, e, new)
  <2>1. mid \in [D -> Seq(T)] /\ Exclusive(mid)
        /\ \A p \in D : e \notin ToSet(mid[p])
    BY <1>1
  <2> QED BY <1>2, <2>1, AppendEffect
<1>4. mid[to] = qs[to] /\ new[from] = mid[from]
      /\ \A p \in D \ {from, to} : new[p] = qs[p]
  BY <1>1, <1>3 DEF Appended
<1> HIDE DEF new
<1>5. Move(qs, from, to, e) = new
  BY DEF Move, mid, new
<1> QED BY <1>1, <1>3, <1>4, <1>5 DEF Moved, Appended

(* How a whole queue is woken. *)
LEMMA MoveAllEffect ==
  ASSUME NEW D, NEW T, NEW qs \in [D -> Seq(T)], Exclusive(qs),
         NEW from \in D, NEW to \in D, from # to
  PROVE  MovedAll(D, T, qs, from, to, MoveAll(qs, from, to))
<1> DEFINE new == MoveAll(qs, from, to)
           all == qs[to] \o qs[from]
<1>1. /\ all \in Seq(T) /\ NoRepeats(all)
      /\ ToSet(all) = ToSet(qs[to]) \cup ToSet(qs[from])
  <2>1. /\ qs[to] \in Seq(T) /\ qs[from] \in Seq(T)
        /\ NoRepeats(qs[to]) /\ NoRepeats(qs[from])
        /\ ToSet(qs[to]) \cap ToSet(qs[from]) = {}
    BY DEF Exclusive
  <2> QED BY <2>1, NoRepeatsConcat
<1>2. << >> \in Seq(T) /\ NoRepeats(<< >>) /\ ToSet(<< >>) = {}
  BY DEF NoRepeats, ToSet
<1>3. new = [[qs EXCEPT ![from] = << >>] EXCEPT ![to] = all]
  BY DEF MoveAll
<1> HIDE DEF new, all
<1>4. /\ new \in [D -> Seq(T)] /\ new[to] = all /\ new[from] = << >>
      /\ \A p \in D \ {from, to} : new[p] = qs[p]
  BY <1>1, <1>2, <1>3
<1>5. \A p \in D : NoRepeats(new[p])
  BY <1>1, <1>2, <1>4 DEF Exclusive
<1>6. ASSUME NEW p \in D, NEW r \in D, p # r
      PROVE  ToSet(new[p]) \cap ToSet(new[r]) = {}
  <2>1. \A x, y \in D : x # y => ToSet(qs[x]) \cap ToSet(qs[y]) = {}
    BY DEF Exclusive
  <2>2. CASE p = from \/ r = from
    BY <1>2, <1>4, <2>2
  <2>3. CASE p = to /\ r \notin {from, to}
    BY <1>1, <1>4, <2>1, <2>3
  <2>4. CASE r = to /\ p \notin {from, to}
    BY <1>1, <1>4, <2>1, <2>4
  <2>5. CASE p \notin {from, to} /\ r \notin {from, to}
    BY <1>4, <1>6, <2>1, <2>5
  <2> QED BY <1>6, <2>2, <2>3, <2>4, <2>5
<1>7. Exclusive(new)
  BY <1>4, <1>5, <1>6 DEF Exclusive
<1> QED BY <1>1, <1>2, <1>4, <1>7 DEF new, MovedAll
=============================================================================
