-------------------------- MODULE StreamListProofs --------------------------
(***************************************************************************)
(* Proofs about StreamList, for any set of nodes.                          *)
(*                                                                         *)
(* The pointers are tied to the ghost order: IInv says that a node is in   *)
(* one place, that next and prev spell order forwards and backwards, and   *)
(* how far the two kinds of walk have come.                                *)
(***************************************************************************)
EXTENDS StreamList, TLAPS

Pointers == Nodes \cup {Null}

TypeOK == /\ head \in [Lists -> Pointers]
          /\ next \in [Nodes -> Pointers] /\ prev \in [Nodes -> Pointers]
          /\ adding \in [Lists -> Pointers] /\ cursor \in [Lists -> Pointers]
          /\ target \in Pointers /\ seek \in Pointers
          /\ found \subseteq Nodes /\ hand \subseteq Nodes /\ fresh \subseteq Nodes
          /\ order \in [Lists -> Seq(Nodes)]

Injective(s) == \A i, j \in 1..Len(s) : s[i] = s[j] => i = j

In(l) == Elements(order[l])

\* A node is in one list, in a hand, fresh, or on its way into a list.
Places ==
    /\ \A l \in Lists : Injective(order[l])
    /\ \A l, m \in Lists : l # m => In(l) \cap In(m) = {}
    /\ \A l \in Lists : In(l) \cap hand = {} /\ In(l) \cap fresh = {}
    /\ hand \cap fresh = {}
    /\ \A l \in Lists : adding[l] # Null =>
           /\ adding[l] \notin hand /\ adding[l] \notin fresh
           /\ \A m \in Lists : adding[l] \notin In(m) /\ (m # l => adding[m] # adding[l])
    /\ adding["pool"] = Null

\* A pointer's value in a list s: the elements in front and behind.
Behind(s, i) == IF i = Len(s) THEN Null ELSE s[i + 1]
Before(s, i) == IF i = 1 THEN Null ELSE s[i - 1]

Spells(s, first, nx, pv) ==
    /\ first = IF s = <<>> THEN Null ELSE s[1]
    /\ \A i \in 1..Len(s) : nx[s[i]] = Behind(s, i) /\ pv[s[i]] = Before(s, i)

Spelled == \A l \in Lists : Spells(order[l], head[l], next, prev)

\* A walk to the end is at an element of its list, unless that is empty.
Walking ==
    \A l \in Lists : adding[l] # Null =>
        IF order[l] = <<>> THEN cursor[l] = Null
                           ELSE \E i \in 1..Len(order[l]) : cursor[l] = order[l][i]

\* A search has passed no element that is the one it looks for.
Searching ==
    target # Null =>
        /\ adding["release"] = Null
        /\ seek = Null => target \notin In("release")
        /\ seek # Null => \E i \in 1..Len(order["release"]) :
               seek = order["release"][i] /\ \A j \in 1..(i - 1) : order["release"][j] # target

IInv == /\ TypeOK /\ Places /\ Spelled /\ Walking /\ Searching
        /\ found \subseteq In("release")
-----------------------------------------------------------------------------
(* What the operations do to a list without repetition.                    *)

\* t is s with n behind it, or in front.
Appended(s, n, t) == /\ Len(t) = Len(s) + 1 /\ t # <<>> /\ t[Len(t)] = n
                     /\ \A i \in 1..Len(s) : t[i] = s[i]
Prepended(s, n, t) == /\ Len(t) = Len(s) + 1 /\ t # <<>> /\ t[1] = n
                      /\ \A i \in 1..Len(s) : t[i + 1] = s[i]

LEMMA AppendList ==
    ASSUME NEW s \in Seq(Nodes), NEW n \in Nodes, Injective(s), n \notin Elements(s),
           NEW t, t = Append(s, n)
    PROVE  /\ t \in Seq(Nodes) /\ Appended(s, n, t)
           /\ Elements(t) = Elements(s) \cup {n} /\ Injective(t)
<1>1. /\ t \in Seq(Nodes) /\ Len(t) = Len(s) + 1 /\ t # <<>>
      /\ t[Len(t)] = n /\ \A i \in 1..Len(s) : t[i] = s[i]
  OBVIOUS
<1>2. /\ DOMAIN t = 1..Len(t) /\ DOMAIN s = 1..Len(s) /\ Len(s) \in Nat
  BY <1>1
<1>3. Elements(t) = Elements(s) \cup {n}
  <2>1. \A x \in Elements(t) : x \in Elements(s) \cup {n}
    BY <1>1, <1>2 DEF Elements
  <2>2. \A x \in Elements(s) : x \in Elements(t)
    <3>1. TAKE x \in Elements(s)
    <3>2. PICK i \in 1..Len(s) : x = s[i]  BY <1>2 DEF Elements
    <3>3. i \in 1..Len(t) /\ t[i] = x  BY <1>1, <1>2, <3>2
    <3>4. QED BY <1>2, <3>3 DEF Elements
  <2>3. n \in Elements(t)
    <3>1. Len(t) \in 1..Len(t)  BY <1>1, <1>2
    <3>2. QED BY <1>1, <1>2, <3>1 DEF Elements
  <2>4. QED BY <2>1, <2>2, <2>3
<1>4. Injective(t)
  <2>1. SUFFICES ASSUME NEW i \in 1..Len(t), NEW j \in 1..Len(t), t[i] = t[j]
                 PROVE  i = j
    BY DEF Injective
  <2>2. \A k \in 1..Len(s) : s[k] # n  BY <1>2 DEF Elements
  <2>3. QED BY <1>1, <1>2, <2>1, <2>2 DEF Injective
<1>5. QED BY <1>1, <1>3, <1>4 DEF Appended

LEMMA PrependList ==
    ASSUME NEW s \in Seq(Nodes), NEW n \in Nodes, Injective(s), n \notin Elements(s),
           NEW t, t = <<n>> \o s
    PROVE  /\ t \in Seq(Nodes) /\ Prepended(s, n, t)
           /\ Elements(t) = Elements(s) \cup {n} /\ Injective(t)
<1>1. /\ t \in Seq(Nodes) /\ Len(t) = Len(s) + 1 /\ t # <<>>
      /\ t[1] = n /\ \A i \in 1..Len(s) : t[i + 1] = s[i]
  OBVIOUS
<1>2. /\ DOMAIN t = 1..Len(t) /\ DOMAIN s = 1..Len(s) /\ Len(s) \in Nat
  BY <1>1
<1>3. \A i \in 1..Len(t) : t[i] = IF i = 1 THEN n ELSE s[i - 1]
  <2>1. TAKE i \in 1..Len(t)
  <2>2. CASE i = 1  BY <1>1, <2>2
  <2>3. CASE i # 1
    <3>1. i - 1 \in 1..Len(s) /\ (i - 1) + 1 = i  BY <1>1, <1>2, <2>3
    <3>2. QED BY <1>1, <2>3, <3>1
  <2>4. QED BY <2>2, <2>3
<1>4. Elements(t) = Elements(s) \cup {n}
  <2>1. \A x \in Elements(t) : x \in Elements(s) \cup {n}
    <3>1. TAKE x \in Elements(t)
    <3>2. PICK i \in 1..Len(t) : x = t[i]  BY <1>2 DEF Elements
    <3>3. i # 1 => i - 1 \in 1..Len(s)  BY <1>1, <1>2
    <3>4. QED BY <1>2, <1>3, <3>2, <3>3 DEF Elements
  <2>2. \A x \in Elements(s) : x \in Elements(t)
    <3>1. TAKE x \in Elements(s)
    <3>2. PICK i \in 1..Len(s) : x = s[i]  BY <1>2 DEF Elements
    <3>3. i + 1 \in 1..Len(t) /\ t[i + 1] = x  BY <1>1, <1>2, <3>2
    <3>4. QED BY <1>2, <3>3 DEF Elements
  <2>3. n \in Elements(t)
    <3>1. 1 \in 1..Len(t)  BY <1>1, <1>2
    <3>2. QED BY <1>1, <1>2, <3>1 DEF Elements
  <2>4. QED BY <2>1, <2>2, <2>3
<1>5. Injective(t)
  <2>1. SUFFICES ASSUME NEW i \in 1..Len(t), NEW j \in 1..Len(t), t[i] = t[j]
                 PROVE  i = j
    BY DEF Injective
  <2>2. \A k \in 1..Len(s) : s[k] # n  BY <1>2 DEF Elements
  <2>3. (i # 1 => i - 1 \in 1..Len(s)) /\ (j # 1 => j - 1 \in 1..Len(s))  BY <1>1, <1>2
  <2>4. CASE i = 1 \/ j = 1
    BY <1>3, <2>1, <2>2, <2>3, <2>4
  <2>5. CASE i # 1 /\ j # 1
    <3>1. s[i - 1] = s[j - 1]  BY <1>3, <2>1, <2>5
    <3>2. i - 1 = j - 1  BY <2>3, <2>5, <3>1 DEF Injective
    <3>3. QED BY <3>2
  <2>6. QED BY <2>4, <2>5
<1>6. QED BY <1>1, <1>4, <1>5 DEF Prepended

\* t is s without its element k.
Taken(s, k, t) ==
    /\ Len(t) = Len(s) - 1
    /\ \A i \in 1..Len(t) : t[i] = IF i < k THEN s[i] ELSE s[i + 1]

LEMMA WithoutList ==
    ASSUME NEW s \in Seq(Nodes), Injective(s), NEW k \in 1..Len(s),
           NEW t, t = Without(s, s[k])
    PROVE  /\ t \in Seq(Nodes) /\ Taken(s, k, t)
           /\ Elements(t) = Elements(s) \ {s[k]} /\ Injective(t)
<1>1. DOMAIN s = 1..Len(s) /\ Len(s) \in Nat /\ s[k] \in Elements(s)
  BY DEF Elements
<1>2. (CHOOSE i \in DOMAIN s : s[i] = s[k]) = k
  BY <1>1 DEF Injective
<1>3. t = [i \in 1..(Len(s) - 1) |-> IF i < k THEN s[i] ELSE s[i + 1]]
  BY <1>1, <1>2 DEF Without
<1>4. Len(s) - 1 \in Nat /\ \A i \in 1..(Len(s) - 1) : s[i] \in Nodes /\ s[i + 1] \in Nodes
  BY <1>1
<1>5. t \in [1..(Len(s) - 1) -> Nodes]
  BY <1>3, <1>4
<1>6. /\ t \in Seq(Nodes) /\ Len(t) = Len(s) - 1 /\ DOMAIN t = 1..Len(t)
      /\ \A i \in 1..Len(t) : t[i] = IF i < k THEN s[i] ELSE s[i + 1]
  BY <1>3, <1>4, <1>5
<1>. k \in Nat /\ 1 <= k /\ k <= Len(s)  BY <1>1
<1>. Len(t) \in Nat /\ Len(s) = Len(t) + 1
  <2>1. Len(t) = Len(s) - 1 /\ Len(t) \in Nat  BY <1>4, <1>6
  <2>2. Len(s) \in Nat  BY <1>1
  <2>3. QED BY <2>1, <2>2
<1>. DEFINE at(i) == IF i < k THEN i ELSE i + 1
<1>7. \A i \in 1..Len(t) : at(i) \in 1..Len(s) /\ at(i) # k /\ t[i] = s[at(i)]
  <2>1. TAKE i \in 1..Len(t)
  <2>2. i \in Nat /\ 1 <= i /\ i <= Len(t)  OBVIOUS
  <2>3. at(i) \in 1..Len(s) /\ at(i) # k  BY <2>2
  <2>4. QED BY <1>6, <2>3
<1>8. Injective(t)
  <2>1. SUFFICES ASSUME NEW i \in 1..Len(t), NEW j \in 1..Len(t), t[i] = t[j]
                 PROVE  i = j
    BY DEF Injective
  <2>2. s[at(i)] = s[at(j)] /\ at(i) \in 1..Len(s) /\ at(j) \in 1..Len(s)
    BY <1>7, <2>1
  <2>3. at(i) = at(j)  BY <2>2 DEF Injective
  <2>4. i \in Nat /\ j \in Nat  OBVIOUS
  <2>5. QED BY <2>3, <2>4
<1>9. Elements(t) = Elements(s) \ {s[k]}
  <2>1. \A x \in Elements(t) : x \in Elements(s) /\ x # s[k]
    <3>1. TAKE x \in Elements(t)
    <3>2. PICK i \in 1..Len(t) : x = t[i]  BY <1>6 DEF Elements
    <3>3. at(i) \in 1..Len(s) /\ at(i) # k /\ x = s[at(i)]  BY <1>7, <3>2
    <3>4. s[at(i)] # s[k]  BY <3>3 DEF Injective
    <3>5. QED BY <1>1, <3>3, <3>4 DEF Elements
  <2>2. \A x \in Elements(s) : x # s[k] => x \in Elements(t)
    <3>1. TAKE x \in Elements(s)
    <3>2. HAVE x # s[k]
    <3>3. PICK i \in 1..Len(s) : x = s[i]  BY <1>1 DEF Elements
    <3>. i \in Nat /\ 1 <= i /\ i <= Len(s) /\ i # k  BY <3>2, <3>3
    <3>4. CASE i < k
      <4>1. i \in 1..Len(t)  BY <3>4
      <4>2. t[i] = x  BY <1>6, <3>3, <3>4, <4>1
      <4>3. QED BY <1>6, <4>1, <4>2 DEF Elements
    <3>5. CASE i > k
      <4>1. i - 1 \in 1..Len(t) /\ (i - 1) + 1 = i /\ ~(i - 1 < k)  BY <3>5
      <4>2. t[i - 1] = x  BY <1>6, <3>3, <4>1
      <4>3. QED BY <1>6, <4>1, <4>2 DEF Elements
    <3>6. QED BY <3>4, <3>5
  <2>3. QED BY <2>1, <2>2
<1>10. QED BY <1>6, <1>8, <1>9 DEF Taken
-----------------------------------------------------------------------------
(* The actions, those that relink nodes first.                             *)

USE NullAssumption

\* What IInv says of one list.
LEMMA ListFacts ==
    ASSUME IInv, NEW l \in Lists
    PROVE  /\ order[l] \in Seq(Nodes) /\ Injective(order[l]) /\ Len(order[l]) \in Nat
           /\ head[l] = IF order[l] = <<>> THEN Null ELSE order[l][1]
           /\ \A i \in 1..Len(order[l]) :
                 /\ order[l][i] \in Nodes /\ order[l][i] \in In(l)
                 /\ next[order[l][i]] = Behind(order[l], i)
                 /\ prev[order[l][i]] = Before(order[l], i)
           /\ \A x \in In(l) : \E i \in 1..Len(order[l]) : x = order[l][i]
           /\ In(l) \subseteq Nodes
<1>1. order[l] \in Seq(Nodes)  BY DEF IInv, TypeOK
<1>2. DOMAIN order[l] = 1..Len(order[l]) /\ Len(order[l]) \in Nat  BY <1>1
<1>3. Injective(order[l]) /\ Spells(order[l], head[l], next, prev)  BY DEF IInv, Places, Spelled
<1>4. \A i \in 1..Len(order[l]) : order[l][i] \in Nodes  BY <1>1
<1>5. QED BY <1>1, <1>2, <1>3, <1>4 DEF Spells, In, Elements

\* Lists that an action does not touch stay spelled.
LEMMA OtherLists ==
    ASSUME IInv, NEW m \in Lists, order'[m] = order[m], head'[m] = head[m],
           \A x \in In(m) : next'[x] = next[x] /\ prev'[x] = prev[x]
    PROVE  Spells(order[m], head[m], next, prev)'
<1>1. Spells(order[m], head[m], next, prev)  BY DEF IInv, Spelled
<1>2. \A i \in 1..Len(order[m]) : order[m][i] \in In(m)  BY ListFacts
<1>3. QED BY <1>1, <1>2 DEF Spells

LEMMA PushPoolIInv == ASSUME IInv, NEW n \in Nodes, PushPool(n) PROVE IInv'
<1>. DEFINE s == order["pool"]  t == order'["pool"]  h == head["pool"]
<1>1. "pool" \in Lists /\ "release" \in Lists  BY DEF Lists
<1>2. /\ s \in Seq(Nodes) /\ Injective(s) /\ Len(s) \in Nat
      /\ h = IF s = <<>> THEN Null ELSE s[1]
      /\ \A i \in 1..Len(s) : /\ s[i] \in Nodes /\ s[i] \in In("pool")
                              /\ next[s[i]] = Behind(s, i) /\ prev[s[i]] = Before(s, i)
  BY <1>1, ListFacts
<1>3. TypeOK /\ Places /\ n \in hand \cup fresh /\ \A l \in Lists : n \notin In(l)
  BY DEF IInv, PushPool, Places
<1>4. h \in Pointers /\ (h # Null => h \in In("pool") /\ s # <<>>)
  <2>1. CASE s = <<>>  BY <1>2, <2>1 DEF Pointers
  <2>2. CASE s # <<>>
    <3>1. 1 \in 1..Len(s)  BY <1>2, <2>2
    <3>2. QED BY <1>2, <2>2, <3>1 DEF Pointers
  <2>3. QED BY <2>1, <2>2
<1>5. /\ \A l \in Lists : order'[l] = IF l = "pool" THEN <<n>> \o s ELSE order[l]
      /\ \A l \in Lists : head'[l] = IF l = "pool" THEN n ELSE head[l]
      /\ \A x \in Nodes : next'[x] = IF x = n THEN h ELSE next[x]
      /\ \A x \in Nodes : prev'[x] = IF x = n THEN Null ELSE IF x = h THEN n ELSE prev[x]
      /\ hand' = hand \ {n} /\ fresh' = fresh \ {n}
      /\ UNCHANGED <<pushVars, searchVars>>
  BY <1>1, <1>3, <1>4 DEF PushPool, TypeOK, Assign, Pointers
<1>6. /\ t \in Seq(Nodes) /\ Len(t) = Len(s) + 1 /\ t # <<>>
      /\ t[1] = n /\ \A i \in 1..Len(s) : t[i + 1] = s[i]
      /\ Elements(t) = Elements(s) \cup {n} /\ Injective(t)
  <2>1. n \notin Elements(s)  BY <1>1, <1>3 DEF In
  <2>2. t = <<n>> \o s  BY <1>1, <1>5
  <2>3. /\ t \in Seq(Nodes) /\ Prepended(s, n, t)
        /\ Elements(t) = Elements(s) \cup {n} /\ Injective(t)
    BY <1>2, <2>1, <2>2, PrependList
  <2>4. QED BY <2>3 DEF Prepended
<1>7. \A l \in Lists : In(l)' = IF l = "pool" THEN In(l) \cup {n} ELSE In(l)
  BY <1>5, <1>6 DEF In
<1>8. TypeOK'
  <2>1. order' \in [Lists -> Seq(Nodes)] /\ head' \in [Lists -> Pointers]
    BY <1>3, <1>5, <1>6 DEF PushPool, TypeOK, Pointers
  <2>2. next' \in [Nodes -> Pointers] /\ prev' \in [Nodes -> Pointers]
    BY <1>3, <1>4 DEF PushPool, TypeOK, Assign, Pointers
  <2>3. QED BY <1>3, <1>5, <2>1, <2>2 DEF TypeOK, pushVars, searchVars
<1>9. Places'
  <2>1. \A l \in Lists : Injective(order'[l])
    BY <1>3, <1>5, <1>6 DEF Places
  <2>2. \A m \in Lists : adding[m] # n \/ adding[m] = Null  BY <1>3 DEF Places
  <2>3. QED BY <1>1, <1>3, <1>5, <1>7, <2>1, <2>2 DEF Places, pushVars
<1>10. Spelled'
  <2>1. SUFFICES ASSUME NEW l \in Lists PROVE Spells(order[l], head[l], next, prev)'
    BY DEF Spelled
  <2>2. CASE l # "pool"
    <3>1. \A x \in In(l) : x \in Nodes /\ x # n /\ x # h
      BY <1>1, <1>3, <1>4, <2>2, ListFacts DEF Places
    <3>2. QED BY <1>5, <2>2, <3>1, OtherLists
  <2>3. CASE l = "pool"
    <3>1. head'["pool"] = t[1]  BY <1>1, <1>5, <1>6
    <3>2. ASSUME NEW i \in 1..Len(t) PROVE next'[t[i]] = Behind(t, i) /\ prev'[t[i]] = Before(t, i)
      <4>1. i \in Nat /\ 1 <= i /\ i <= Len(s) + 1 /\ Len(t) = Len(s) + 1  BY <1>2, <1>6
      <4>2. CASE i = 1
        <5>1. next'[n] = h /\ prev'[n] = Null  BY <1>5
        <5>2. CASE s = <<>>  BY <1>2, <1>6, <4>2, <5>1, <5>2 DEF Behind, Before
        <5>3. CASE s # <<>>
          <6>1. 1 \in 1..Len(s) /\ Len(t) # 1  BY <1>2, <4>1, <5>3
          <6>2. t[1 + 1] = s[1]  BY <1>6, <6>1
          <6>3. QED BY <1>2, <1>6, <4>2, <5>1, <5>3, <6>1, <6>2 DEF Behind, Before
        <5>4. QED BY <5>2, <5>3
      <4>3. CASE i # 1
        <5>. DEFINE j == i - 1
        <5>1. j \in 1..Len(s) /\ j + 1 = i  BY <1>2, <4>1, <4>3
        <5>2. t[i] = s[j] /\ s[j] \in Nodes /\ s[j] # n  BY <1>1, <1>2, <1>3, <1>6, <5>1
        <5>3. next'[t[i]] = Behind(s, j)  BY <1>2, <1>5, <5>1, <5>2
        <5>4. Behind(s, j) = Behind(t, i)
          <6>1. CASE j = Len(s)  BY <1>2, <4>1, <5>1, <6>1 DEF Behind
          <6>2. CASE j # Len(s)
            <7>1. j + 1 \in 1..Len(s) /\ i # Len(t)  BY <1>2, <4>1, <5>1, <6>2
            <7>2. t[(j + 1) + 1] = s[j + 1]  BY <1>6, <7>1
            <7>3. QED BY <5>1, <6>2, <7>1, <7>2 DEF Behind
          <6>3. QED BY <6>1, <6>2
        <5>5. prev'[t[i]] = Before(t, i)
          <6>1. Len(s) # 0 /\ s # <<>> /\ h = s[1]  BY <1>2, <5>1
          <6>2. CASE j = 1
            <7>1. prev'[t[i]] = n  BY <1>5, <5>2, <6>1, <6>2
            <7>2. QED BY <1>6, <4>3, <5>1, <6>2, <7>1 DEF Before
          <6>3. CASE j # 1
            <7>1. j - 1 \in 1..Len(s) /\ (j - 1) + 1 = i - 1 /\ 1 \in 1..Len(s)
              BY <1>2, <4>1, <5>1, <6>3
            <7>2. s[j] # h  BY <1>2, <5>1, <6>1, <6>3, <7>1 DEF Injective
            <7>3. prev'[t[i]] = s[j - 1]  BY <1>2, <1>5, <5>1, <5>2, <6>3, <7>2 DEF Before
            <7>4. t[i - 1] = s[j - 1]  BY <1>6, <7>1
            <7>5. QED BY <4>3, <7>3, <7>4 DEF Before
          <6>4. QED BY <6>2, <6>3
        <5>6. QED BY <5>3, <5>4, <5>5
      <4>4. QED BY <4>2, <4>3
    <3>3. QED BY <1>6, <2>3, <3>1, <3>2 DEF Spells
  <2>4. QED BY <2>2, <2>3
<1>11. Walking'
  <2>1. \A l \in Lists : adding[l] # Null => l # "pool"  BY <1>3 DEF Places
  <2>2. QED BY <1>5, <2>1 DEF IInv, Walking, pushVars
<1>12. Searching'
  BY <1>1, <1>5, <1>7 DEF IInv, Searching, pushVars, searchVars
<1>13. found' \subseteq In("release")'
  BY <1>1, <1>5, <1>7 DEF IInv, searchVars
<1>14. QED BY <1>8, <1>9, <1>10, <1>11, <1>12, <1>13 DEF IInv

\* mx, qv and the head last are nx, pv and first after element k was unlinked.
Unlinked(s, k, first, nx, pv, last, mx, qv) ==
    /\ last = IF k = 1 THEN Behind(s, k) ELSE first
    /\ \A x \in Nodes : mx[x] = IF x = s[k] THEN Null
                                ELSE IF x = Before(s, k) THEN Behind(s, k) ELSE nx[x]
    /\ \A x \in Nodes : qv[x] = IF x = s[k] THEN Null
                                ELSE IF x = Behind(s, k) THEN Before(s, k) ELSE pv[x]

LEMMA UnlinkSpells ==
    ASSUME NEW s \in Seq(Nodes), Injective(s), NEW k \in 1..Len(s), NEW t \in Seq(Nodes),
           NEW first, NEW last, NEW nx, NEW pv, NEW mx, NEW qv,
           Spells(s, first, nx, pv), Taken(s, k, t),
           Unlinked(s, k, first, nx, pv, last, mx, qv)
    PROVE  Spells(t, last, mx, qv)
<1>. USE DEF Taken, Unlinked
<1>1. /\ Len(s) \in Nat /\ first = IF s = <<>> THEN Null ELSE s[1]
      /\ \A i \in 1..Len(s) : s[i] \in Nodes /\ nx[s[i]] = Behind(s, i) /\ pv[s[i]] = Before(s, i)
  BY DEF Spells
<1>2. Len(t) \in Nat /\ Len(s) = Len(t) + 1
  <2>1. Len(t) \in Nat  OBVIOUS
  <2>2. QED BY <1>1, <2>1
<1>3. k \in Nat /\ 1 <= k /\ k <= Len(s)  BY <1>1
<1>4. s # <<>>
  <2>1. Len(s) # 0  BY <1>1, <1>3
  <2>2. QED BY <2>1
<1>. USE <1>3, <1>4
<1>5. last = IF t = <<>> THEN Null ELSE t[1]
  <2>1. CASE t = <<>>
    <3>0. Len(t) = 0  BY <2>1
    <3>1. Len(s) = 1 /\ k = 1  BY <1>1, <1>2, <3>0
    <3>2. QED BY <2>1, <3>1 DEF Behind
  <2>2. CASE t # <<>>
    <3>0. Len(t) \in Nat /\ Len(t) # 0  BY <1>2, <2>2
    <3>1. 1 \in 1..Len(t) /\ Len(s) # 1  BY <1>1, <1>2, <3>0
    <3>2. t[1] = IF k = 1 THEN s[2] ELSE s[1]  BY <1>2, <3>1
    <3>3. QED BY <1>1, <2>2, <3>1, <3>2 DEF Behind
  <2>3. QED BY <2>1, <2>2
<1>6. ASSUME NEW i \in 1..Len(t) PROVE mx[t[i]] = Behind(t, i) /\ qv[t[i]] = Before(t, i)
  <2>1. i \in Nat /\ 1 <= i /\ i <= Len(s) - 1 /\ Len(t) = Len(s) - 1 /\ Len(s) \in Nat
    BY <1>1, <1>2
  <2>2. CASE i < k
    <3>1. i \in 1..Len(s) /\ k \in 1..Len(s) /\ t[i] = s[i]  BY <1>2, <2>1, <2>2
    <3>2. s[i] \in Nodes /\ s[i] # s[k] /\ nx[s[i]] = Behind(s, i) /\ pv[s[i]] = Before(s, i)
      BY <1>1, <2>2, <3>1 DEF Injective
    <3>3. mx[s[i]] = Behind(t, i)
      <4>1. CASE i = k - 1
        <5>1. Before(s, k) = s[i]  BY <2>1, <4>1 DEF Before
        <5>2. mx[s[i]] = Behind(s, k)  BY <3>2, <5>1
        <5>3. CASE i = Len(t)  BY <2>1, <4>1, <5>2, <5>3 DEF Behind
        <5>4. CASE i # Len(t)
          <6>1. i + 1 \in 1..Len(t) /\ ~(i + 1 < k) /\ (i + 1) + 1 = k + 1  BY <2>1, <4>1, <5>4
          <6>2. t[i + 1] = s[k + 1]  BY <1>2, <6>1
          <6>3. QED BY <2>1, <4>1, <5>2, <5>4, <6>2 DEF Behind
        <5>5. QED BY <5>3, <5>4
      <4>2. CASE i # k - 1
        <5>1. k # 1 /\ k - 1 \in 1..Len(s) /\ i + 1 \in 1..Len(t) /\ i + 1 < k
          BY <2>1, <2>2, <4>2
        <5>2. Before(s, k) # s[i]  BY <1>1, <3>1, <4>2, <5>1 DEF Before, Injective
        <5>3. mx[s[i]] = s[i + 1]  BY <2>1, <2>2, <3>2, <5>2 DEF Behind
        <5>4. t[i + 1] = s[i + 1] /\ i # Len(t)  BY <1>2, <2>1, <5>1
        <5>5. QED BY <5>3, <5>4 DEF Behind
      <4>3. QED BY <4>1, <4>2
    <3>4. qv[s[i]] = Before(t, i)
      <4>1. s[i] # Behind(s, k)
        <5>1. CASE k = Len(s)  BY <3>2, <5>1 DEF Behind
        <5>2. CASE k # Len(s)
          <6>1. k + 1 \in 1..Len(s) /\ k + 1 # i  BY <2>1, <2>2, <5>2
          <6>2. QED BY <1>1, <3>1, <5>2, <6>1 DEF Behind, Injective
        <5>3. QED BY <5>1, <5>2
      <4>2. qv[s[i]] = Before(s, i)  BY <3>2, <4>1
      <4>3. i # 1 => i - 1 \in 1..Len(t) /\ i - 1 < k  BY <2>1, <2>2
      <4>4. QED BY <1>2, <4>2, <4>3 DEF Before
    <3>5. QED BY <3>1, <3>3, <3>4
  <2>3. CASE ~(i < k)
    <3>. DEFINE j == i + 1
    <3>1. j \in 1..Len(s) /\ k \in 1..Len(s) /\ j # k /\ t[i] = s[j]  BY <1>2, <2>1, <2>3
    <3>2. s[j] \in Nodes /\ s[j] # s[k] /\ nx[s[j]] = Behind(s, j) /\ pv[s[j]] = Before(s, j)
      BY <1>1, <3>1 DEF Injective
    <3>3. mx[s[j]] = Behind(t, i)
      <4>1. s[j] # Before(s, k)
        <5>1. k # 1 => k - 1 \in 1..Len(s) /\ k - 1 # j  BY <2>1, <2>3
        <5>2. QED BY <1>1, <3>1, <3>2, <5>1 DEF Before, Injective
      <4>2. mx[s[j]] = Behind(s, j)  BY <3>2, <4>1
      <4>3. CASE i = Len(t)  BY <2>1, <4>2, <4>3 DEF Behind
      <4>4. CASE i # Len(t)
        <5>1. i + 1 \in 1..Len(t) /\ ~(i + 1 < k) /\ j # Len(s)  BY <2>1, <2>3, <4>4
        <5>2. t[i + 1] = s[j + 1]  BY <1>2, <5>1
        <5>3. QED BY <4>2, <4>4, <5>1, <5>2 DEF Behind
      <4>5. QED BY <4>3, <4>4
    <3>4. qv[s[j]] = Before(t, i)
      <4>1. CASE i = k
        <5>1. Behind(s, k) = s[j]  BY <2>1, <4>1 DEF Behind
        <5>2. qv[s[j]] = Before(s, k)  BY <3>2, <5>1
        <5>3. i # 1 => i - 1 \in 1..Len(t) /\ i - 1 < k  BY <2>1, <4>1
        <5>4. QED BY <1>2, <4>1, <5>2, <5>3 DEF Before
      <4>2. CASE i # k
        <5>1. s[j] # Behind(s, k)
          <6>1. k # Len(s) /\ k + 1 \in 1..Len(s) /\ k + 1 # j  BY <2>1, <2>3, <4>2
          <6>2. QED BY <1>1, <3>1, <6>1 DEF Behind, Injective
        <5>2. j # 1 /\ j - 1 = i  BY <2>1
        <5>3. qv[s[j]] = s[i]  BY <3>2, <5>1, <5>2 DEF Before
        <5>4. i # 1 /\ i - 1 \in 1..Len(t) /\ ~(i - 1 < k) /\ (i - 1) + 1 = i
          BY <2>1, <2>3, <4>2
        <5>5. t[i - 1] = s[i]  BY <1>2, <5>4
        <5>6. QED BY <5>3, <5>4, <5>5 DEF Before
      <4>3. QED BY <4>1, <4>2
    <3>5. QED BY <3>1, <3>3, <3>4
  <2>4. QED BY <2>2, <2>3
<1>7. QED BY <1>5, <1>6 DEF Spells

\* Taking element k out of list l: pop_* for k = 1, remove_release_list for any.
LEMMA UnlinkList ==
    ASSUME IInv, NEW l \in Lists, NEW k \in 1..Len(order[l]),
           order'[l] = Without(order[l], order[l][k]),
           \A m \in Lists : m # l => order'[m] = order[m] /\ head'[m] = head[m],
           Unlinked(order[l], k, head[l], next, prev, head'[l], next', prev')
    PROVE  /\ order'[l] \in Seq(Nodes) /\ Injective(order'[l]) /\ order[l][k] \in In(l)
           /\ \A m \in Lists : In(m)' = IF m = l THEN In(m) \ {order[l][k]} ELSE In(m)
           /\ Spelled'
<1>. DEFINE s == order[l]  t == order'[l]
<1>1. /\ s \in Seq(Nodes) /\ Injective(s) /\ Len(s) \in Nat
      /\ \A i \in 1..Len(s) : s[i] \in Nodes /\ s[i] \in In(l)
  BY ListFacts
<1>2. t \in Seq(Nodes) /\ Taken(s, k, t) /\ Elements(t) = Elements(s) \ {s[k]} /\ Injective(t)
  BY <1>1, WithoutList
<1>3. \A m \in Lists : In(m)' = IF m = l THEN In(m) \ {s[k]} ELSE In(m)
  BY <1>2 DEF In
<1>4. Spells(t, head'[l], next', prev')
  <2>1. Spells(s, head[l], next, prev)  BY DEF IInv, Spelled
  <2>2. QED BY <1>1, <1>2, <2>1, UnlinkSpells
<1>5. ASSUME NEW m \in Lists, m # l PROVE Spells(order[m], head[m], next, prev)'
  <2>1. In(m) \cap In(l) = {} /\ In(m) \subseteq Nodes  BY <1>5, ListFacts DEF IInv, Places
  <2>2. k \in Nat /\ 1 <= k /\ k <= Len(s)  BY <1>1
  <2>3. k # 1 => k - 1 \in 1..Len(s)  BY <1>1, <2>2
  <2>4. k # Len(s) => k + 1 \in 1..Len(s)  BY <1>1, <2>2
  <2>5. \A x \in {s[k], Before(s, k), Behind(s, k)} : x = Null \/ x \in In(l)
    BY <1>1, <2>3, <2>4 DEF Before, Behind
  <2>6. \A x \in In(m) : x # s[k] /\ x # Before(s, k) /\ x # Behind(s, k)
    BY <2>1, <2>5
  <2>7. \A x \in In(m) : next'[x] = next[x] /\ prev'[x] = prev[x]
    BY <2>1, <2>6 DEF Unlinked
  <2>8. QED BY <1>5, <2>7, OtherLists
<1>6. Spelled'
  BY <1>4, <1>5 DEF Spelled
<1>7. QED BY <1>1, <1>2, <1>3, <1>6

\* What remains of the invariant when element k of list l goes to a hand.
LEMMA TakenIInv ==
    ASSUME IInv, NEW l \in Lists, NEW k \in 1..Len(order[l]), ~Busy(l),
           order' = [order EXCEPT ![l] = Without(@, order[l][k])],
           head' \in [Lists -> Pointers], next' \in [Nodes -> Pointers], prev' \in [Nodes -> Pointers],
           \A m \in Lists : m # l => head'[m] = head[m],
           Unlinked(order[l], k, head[l], next, prev, head'[l], next', prev'),
           hand' = hand \cup {order[l][k]}, found' \subseteq found,
           l = "release" => order[l][k] \notin found',
           UNCHANGED <<pushVars, target, seek, fresh>>
    PROVE  IInv'
<1>. DEFINE n == order[l][k]
<1>1. /\ TypeOK /\ Places /\ found \subseteq In("release") /\ n \in Nodes
      /\ "pool" \in Lists /\ "release" \in Lists
  BY ListFacts DEF IInv, Lists
<1>2. /\ order'[l] = Without(order[l], n)
      /\ \A m \in Lists : m # l => order'[m] = order[m]
  BY <1>1 DEF TypeOK
<1>3. /\ order'[l] \in Seq(Nodes) /\ Injective(order'[l]) /\ n \in In(l)
      /\ \A m \in Lists : In(m)' = IF m = l THEN In(m) \ {n} ELSE In(m)
      /\ Spelled'
  BY <1>2, UnlinkList
<1>4. TypeOK'
  <2>1. order' \in [Lists -> Seq(Nodes)]  BY <1>1, <1>2, <1>3 DEF TypeOK
  <2>2. QED BY <1>1, <2>1 DEF TypeOK, pushVars
<1>5. Places'
  <2>1. \A m \in Lists : Injective(order'[m])  BY <1>1, <1>2, <1>3 DEF Places
  <2>2. n \notin fresh /\ n \notin hand /\ \A m \in Lists : adding[m] # Null => adding[m] # n
    BY <1>1, <1>3 DEF Places
  <2>3. \A m \in Lists : m # l => n \notin In(m)  BY <1>1, <1>3 DEF Places
  <2>4. QED BY <1>1, <1>3, <2>1, <2>2, <2>3 DEF Places, pushVars
<1>6. Walking'
  BY <1>2 DEF IInv, Walking, Busy, pushVars
<1>7. Searching'
  <2>1. SUFFICES ASSUME target # Null PROVE Searching'
    BY DEF Searching
  <2>2. l # "release"  BY <2>1 DEF Busy
  <2>3. order'["release"] = order["release"] /\ In("release")' = In("release")
    BY <1>1, <1>2, <1>3, <2>2
  <2>4. QED BY <2>3 DEF IInv, Searching, pushVars
<1>8. found' \subseteq In("release")'
  BY <1>1, <1>3
<1>9. QED BY <1>3, <1>4, <1>5, <1>6, <1>7, <1>8 DEF IInv

LEMMA PopIInv == ASSUME IInv, NEW l \in Lists, Pop(l) PROVE IInv'
<1>. DEFINE s == order[l]  h == head[l]
<1>1. /\ s \in Seq(Nodes) /\ Len(s) \in Nat /\ h = IF s = <<>> THEN Null ELSE s[1]
      /\ \A i \in 1..Len(s) : s[i] \in Nodes /\ next[s[i]] = Behind(s, i) /\ prev[s[i]] = Before(s, i)
  BY ListFacts
<1>2. h # Null /\ ~Busy(l) /\ (l = "release" => found = {})  BY DEF Pop
<1>3. s # <<>> /\ h = s[1]  BY <1>1, <1>2
<1>4. 1 \in 1..Len(s)  BY <1>1, <1>3
<1>5. /\ h \in Nodes /\ next[h] = Behind(s, 1) /\ Before(s, 1) = Null
      /\ TypeOK
  BY <1>1, <1>3, <1>4 DEF Before, IInv
<1>6. next[h] \in Pointers  BY <1>5 DEF TypeOK
<1>7. /\ head' = [head EXCEPT ![l] = next[h]]
      /\ next' = [next EXCEPT ![h] = Null]
      /\ prev' = Assign([prev EXCEPT ![h] = Null], next[h], Null)
  BY DEF Pop, PrevAfterPop
<1>8. /\ head' \in [Lists -> Pointers] /\ next' \in [Nodes -> Pointers]
      /\ prev' \in [Nodes -> Pointers]
  BY <1>5, <1>6, <1>7 DEF TypeOK, Assign, Pointers
<1>9. Unlinked(s, 1, h, next, prev, head'[l], next', prev')
  <2>1. head'[l] = Behind(s, 1)  BY <1>5, <1>7 DEF TypeOK
  <2>2. \A x \in Nodes : next'[x] = IF x = s[1] THEN Null
                                    ELSE IF x = Before(s, 1) THEN Behind(s, 1) ELSE next[x]
    BY <1>3, <1>5, <1>7 DEF TypeOK
  <2>3. \A x \in Nodes : prev'[x] = IF x = s[1] THEN Null
                                    ELSE IF x = Behind(s, 1) THEN Before(s, 1) ELSE prev[x]
    BY <1>3, <1>5, <1>6, <1>7 DEF TypeOK, Assign, Pointers
  <2>4. QED BY <2>1, <2>2, <2>3 DEF Unlinked
<1>10. /\ order' = [order EXCEPT ![l] = Without(@, s[1])]
       /\ hand' = hand \cup {s[1]}
       /\ found' = found /\ UNCHANGED <<pushVars, target, seek, fresh>>
       /\ \A m \in Lists : m # l => head'[m] = head[m]
  BY <1>3, <1>5, <1>7 DEF Pop, searchVars, TypeOK
<1>11. QED BY <1>2, <1>4, <1>8, <1>9, <1>10, TakenIInv

LEMMA RemoveIInv == ASSUME IInv, NEW n \in Nodes, Remove(n) PROVE IInv'
<1>. DEFINE s == order["release"]  h == head["release"]
<1>1. "release" \in Lists  BY DEF Lists
<1>2. /\ s \in Seq(Nodes) /\ Len(s) \in Nat /\ h = IF s = <<>> THEN Null ELSE s[1]
      /\ \A i \in 1..Len(s) : s[i] \in Nodes /\ next[s[i]] = Behind(s, i) /\ prev[s[i]] = Before(s, i)
      /\ \A x \in In("release") : \E i \in 1..Len(s) : x = s[i]
  BY <1>1, ListFacts
<1>3. n \in In("release") /\ ~Busy("release")  BY DEF IInv, Remove
<1>4. PICK k \in 1..Len(s) : n = s[k]  BY <1>2, <1>3
<1>5. /\ next[n] = Behind(s, k) /\ prev[n] = Before(s, k) /\ TypeOK
      /\ prev[n] \in Pointers /\ next[n] \in Pointers
  BY <1>2, <1>4 DEF IInv, TypeOK
<1>6. prev[n] = Null <=> k = 1
  <2>1. k \in Nat /\ 1 <= k /\ k <= Len(s)  BY <1>2
  <2>2. k # 1 => k - 1 \in 1..Len(s)  BY <1>2, <2>1
  <2>3. QED BY <1>2, <1>5, <2>2 DEF Before
<1>7. /\ head' = IF prev[n] = Null THEN [head EXCEPT !["release"] = next[n]] ELSE head
      /\ next' = Assign([next EXCEPT ![n] = Null], prev[n], next[n])
      /\ prev' = Assign([prev EXCEPT ![n] = Null], next[n], prev[n])
  BY DEF Remove, PrevAfterRemove
<1>8. /\ head' \in [Lists -> Pointers] /\ next' \in [Nodes -> Pointers]
      /\ prev' \in [Nodes -> Pointers]
  BY <1>5, <1>7 DEF TypeOK, Assign, Pointers
<1>9. next[n] # n /\ prev[n] # n
  <2>1. Injective(s)  BY <1>1, ListFacts
  <2>2. k \in Nat /\ 1 <= k /\ k <= Len(s)  BY <1>2
  <2>3. k # 1 => k - 1 \in 1..Len(s) /\ k - 1 # k  BY <1>2, <2>2
  <2>4. k # Len(s) => k + 1 \in 1..Len(s) /\ k + 1 # k  BY <1>2, <2>2
  <2>5. prev[n] # n  BY <1>4, <1>5, <2>1, <2>3 DEF Before, Injective
  <2>6. next[n] # n  BY <1>4, <1>5, <2>1, <2>4 DEF Behind, Injective
  <2>7. QED BY <2>5, <2>6
<1>10. Unlinked(s, k, h, next, prev, head'["release"], next', prev')
  <2>1. head'["release"] = IF k = 1 THEN Behind(s, k) ELSE h
    BY <1>1, <1>5, <1>6, <1>7 DEF TypeOK
  <2>2. \A x \in Nodes : next'[x] = IF x = s[k] THEN Null
                                    ELSE IF x = Before(s, k) THEN Behind(s, k) ELSE next[x]
    BY <1>4, <1>5, <1>7, <1>9 DEF TypeOK, Assign, Pointers
  <2>3. \A x \in Nodes : prev'[x] = IF x = s[k] THEN Null
                                    ELSE IF x = Behind(s, k) THEN Before(s, k) ELSE prev[x]
    BY <1>4, <1>5, <1>7, <1>9 DEF TypeOK, Assign, Pointers
  <2>4. QED BY <2>1, <2>2, <2>3 DEF Unlinked
<1>11. /\ order' = [order EXCEPT !["release"] = Without(@, s[k])]
       /\ hand' = hand \cup {s[k]}
       /\ found' \subseteq found /\ s[k] \notin found'
       /\ UNCHANGED <<pushVars, target, seek, fresh>>
       /\ \A m \in Lists : m # "release" => head'[m] = head[m]
  BY <1>4, <1>5, <1>7 DEF Remove, TypeOK
<1>12. QED BY <1>1, <1>3, <1>8, <1>10, <1>11, TakenIInv

LEMMA LinkIInv == ASSUME IInv, NEW l \in Lists, Link(l) PROVE IInv'
<1>. DEFINE s == order[l]  t == order'[l]  n == adding[l]  c == cursor[l]
<1>1. /\ s \in Seq(Nodes) /\ Injective(s) /\ Len(s) \in Nat
      /\ head[l] = IF s = <<>> THEN Null ELSE s[1]
      /\ \A i \in 1..Len(s) : /\ s[i] \in Nodes /\ s[i] \in In(l)
                              /\ next[s[i]] = Behind(s, i) /\ prev[s[i]] = Before(s, i)
  BY ListFacts
<1>2. /\ n # Null /\ n \in Nodes /\ TypeOK /\ Places /\ l # "pool"
      /\ \A m \in Lists : n \notin In(m)
      /\ "release" \in Lists
  BY DEF Link, IInv, TypeOK, Places, Pointers, Lists
<1>3. IF s = <<>> THEN c = Null ELSE Len(s) \in 1..Len(s) /\ c = s[Len(s)]
  <2>1. CASE s = <<>>  BY <1>2, <2>1 DEF IInv, Walking
  <2>2. CASE s # <<>>
    <3>1. PICK i \in 1..Len(s) : c = s[i]  BY <1>2, <2>2 DEF IInv, Walking
    <3>2. i \in Nat /\ 1 <= i /\ i <= Len(s)  BY <1>1
    <3>3. next[c] = Null /\ c # Null  BY <1>1, <3>1 DEF Link, AtEnd
    <3>4. CASE i # Len(s)
      <4>1. i + 1 \in 1..Len(s)  BY <1>1, <3>2, <3>4
      <4>2. next[c] = s[i + 1]  BY <1>1, <3>1, <3>4 DEF Behind
      <4>3. s[i + 1] \in Nodes  BY <1>1, <4>1
      <4>4. QED BY <3>3, <4>2, <4>3, NullAssumption
    <3>5. QED BY <2>2, <3>1, <3>2, <3>4
  <2>3. QED BY <2>1, <2>2
<1>4. c \in Pointers /\ (c # Null => c \in In(l) /\ s # <<>>)
  BY <1>1, <1>3 DEF Pointers
<1>5. /\ \A m \in Lists : order'[m] = IF m = l THEN Append(s, n) ELSE order[m]
      /\ \A m \in Lists : head'[m] = IF m = l /\ c = Null THEN n ELSE head[m]
      /\ \A x \in Nodes : next'[x] = IF x = n THEN Null ELSE IF x = c THEN n ELSE next[x]
      /\ \A x \in Nodes : prev'[x] = IF x = n THEN c ELSE prev[x]
      /\ \A m \in Lists : adding'[m] = IF m = l THEN Null ELSE adding[m]
      /\ \A m \in Lists : cursor'[m] = IF m = l THEN Null ELSE cursor[m]
      /\ UNCHANGED <<searchVars, hand, fresh>>
  BY <1>2, <1>4 DEF Link, NextAfterLink, TypeOK, Assign, Pointers
<1>6. /\ t \in Seq(Nodes) /\ Appended(s, n, t)
      /\ Elements(t) = Elements(s) \cup {n} /\ Injective(t)
  <2>1. n \notin Elements(s)  BY <1>2 DEF In
  <2>2. t = Append(s, n)  BY <1>5
  <2>3. QED BY <1>1, <1>2, <2>1, <2>2, AppendList
<1>7. \A m \in Lists : In(m)' = IF m = l THEN In(m) \cup {n} ELSE In(m)
  BY <1>5, <1>6 DEF In
<1>8. TypeOK'
  <2>1. order' \in [Lists -> Seq(Nodes)]
    BY <1>2, <1>5, <1>6 DEF Link, TypeOK
  <2>2. /\ head' \in [Lists -> Pointers] /\ adding' \in [Lists -> Pointers]
        /\ cursor' \in [Lists -> Pointers]
    BY <1>2 DEF Link, TypeOK, Pointers
  <2>3. next' \in [Nodes -> Pointers] /\ prev' \in [Nodes -> Pointers]
    BY <1>2, <1>4 DEF Link, NextAfterLink, TypeOK, Assign, Pointers
  <2>4. QED BY <1>2, <1>5, <2>1, <2>2, <2>3 DEF TypeOK, searchVars
<1>9. Places'
  <2>1. \A m \in Lists : Injective(order'[m])
    BY <1>2, <1>5, <1>6 DEF Places
  <2>2. n \notin hand /\ n \notin fresh /\ \A m \in Lists : m # l => adding[m] # n \/ adding[m] = Null
    BY <1>2 DEF Places
  <2>3. QED BY <1>2, <1>5, <1>7, <2>1, <2>2 DEF Places, Lists
<1>10. Spelled'
  <2>1. SUFFICES ASSUME NEW m \in Lists PROVE Spells(order[m], head[m], next, prev)'
    BY DEF Spelled
  <2>2. CASE m # l
    <3>1. \A x \in In(m) : x \in Nodes /\ x # n /\ x # c
      BY <1>2, <1>4, <2>2, ListFacts DEF Places
    <3>2. QED BY <1>5, <2>2, <3>1, OtherLists
  <2>3. CASE m = l
    <3>. Len(t) = Len(s) + 1 /\ t # <<>> /\ t[Len(t)] = n /\ \A i \in 1..Len(s) : t[i] = s[i]
      BY <1>6 DEF Appended
    <3>1. head'[l] = t[1]
      <4>1. CASE s = <<>>
        <5>1. Len(s) = 0  BY <4>1
        <5>2. Len(t) = 1  BY <5>1
        <5>3. QED BY <1>3, <1>5, <4>1, <5>2
      <4>2. CASE s # <<>>
        <5>1. 1 \in 1..Len(s)  BY <1>1, <1>3, <4>2
        <5>2. QED BY <1>1, <1>3, <1>5, <4>2, <5>1
      <4>3. QED BY <4>1, <4>2
    <3>2. ASSUME NEW i \in 1..Len(t) PROVE next'[t[i]] = Behind(t, i) /\ prev'[t[i]] = Before(t, i)
      <4>1. i \in Nat /\ 1 <= i /\ i <= Len(s) + 1  BY <1>1
      <4>2. CASE i = Len(s) + 1
        <5>1. t[i] = n /\ next'[n] = Null /\ prev'[n] = c  BY <1>2, <1>5, <4>2
        <5>2. CASE s = <<>>
          <6>1. i = 1  BY <4>2, <5>2
          <6>2. QED BY <1>3, <4>2, <5>1, <5>2, <6>1 DEF Behind, Before
        <5>3. CASE s # <<>>
          <6>1. i # 1 /\ i - 1 = Len(s) /\ Len(s) \in 1..Len(s)  BY <1>1, <1>3, <4>2, <5>3
          <6>2. QED BY <1>3, <4>2, <5>1, <5>3, <6>1 DEF Behind, Before
        <5>4. QED BY <5>2, <5>3
      <4>3. CASE i # Len(s) + 1
        <5>1. i \in 1..Len(s) /\ i # Len(t) /\ s # <<>>  BY <1>1, <4>1, <4>3
        <5>2. t[i] = s[i] /\ s[i] \in Nodes /\ s[i] # n  BY <1>1, <1>2, <5>1
        <5>3. prev'[t[i]] = Before(s, i)  BY <1>1, <1>5, <5>1, <5>2
        <5>4. Before(s, i) = Before(t, i)
          <6>1. i # 1 => i - 1 \in 1..Len(s)  BY <4>1, <5>1
          <6>2. QED BY <6>1 DEF Before
        <5>5. next'[t[i]] = Behind(t, i)
          <6>1. CASE i = Len(s)
            <7>1. next'[t[i]] = n  BY <1>3, <1>5, <5>1, <5>2, <6>1
            <7>2. t[i + 1] = n  BY <6>1
            <7>3. QED BY <5>1, <7>1, <7>2 DEF Behind
          <6>2. CASE i # Len(s)
            <7>1. i + 1 \in 1..Len(s)  BY <1>1, <4>1, <5>1, <6>2
            <7>2. s[i] # c  BY <1>1, <1>3, <5>1, <6>2 DEF Injective
            <7>3. next'[t[i]] = s[i + 1]  BY <1>1, <1>5, <5>1, <5>2, <6>2, <7>2 DEF Behind
            <7>4. QED BY <5>1, <7>1, <7>3 DEF Behind
          <6>3. QED BY <6>1, <6>2
        <5>6. QED BY <5>3, <5>4, <5>5
      <4>4. QED BY <4>2, <4>3
    <3>3. QED BY <2>3, <3>1, <3>2 DEF Spells
  <2>4. QED BY <2>2, <2>3
<1>11. Walking'
  BY <1>5 DEF IInv, Walking
<1>12. Searching'
  <2>1. l = "release" => target = Null  BY <1>2 DEF IInv, Searching
  <2>2. QED BY <1>2, <1>5, <1>7, <2>1 DEF IInv, Searching, searchVars
<1>13. found' \subseteq In("release")'
  BY <1>2, <1>5, <1>7 DEF IInv, searchVars
<1>14. QED BY <1>8, <1>9, <1>10, <1>11, <1>12, <1>13 DEF IInv
-----------------------------------------------------------------------------
(* The actions that relink nothing.                                        *)

LEMMA StartPushIInv == ASSUME IInv, NEW l \in Lists, NEW n \in Nodes, StartPush(l, n) PROVE IInv'
<1>1. /\ TypeOK /\ Places /\ l # "pool" /\ ~Busy(l) /\ n \in hand /\ n \in Nodes
      /\ hand' = hand \ {n}
      /\ adding' = [adding EXCEPT ![l] = n] /\ cursor' = [cursor EXCEPT ![l] = head[l]]
      /\ UNCHANGED <<head, next, prev, searchVars, fresh, order>>
  BY DEF IInv, StartPush
<1>2. \A m \in Lists : In(m)' = In(m)  BY <1>1 DEF In
<1>3. TypeOK'  BY <1>1 DEF TypeOK, searchVars, Pointers
<1>4. Places'
  <2>1. \A m \in Lists : adding'[m] = IF m = l THEN n ELSE adding[m]  BY <1>1 DEF TypeOK
  <2>2. \A m \in Lists : n \notin In(m) /\ adding[m] # n  BY <1>1 DEF Places, Busy
  <2>3. n \notin fresh  BY <1>1 DEF Places
  <2>4. QED BY <1>1, <1>2, <2>1, <2>2, <2>3 DEF Places, Lists
<1>5. Spelled'  BY <1>1 DEF IInv, Spelled
<1>6. Walking'
  <2>1. SUFFICES ASSUME NEW m \in Lists, adding'[m] # Null
                 PROVE  IF order[m] = <<>> THEN cursor'[m] = Null
                        ELSE \E i \in 1..Len(order[m]) : cursor'[m] = order[m][i]
    BY <1>1 DEF Walking
  <2>2. CASE m # l  BY <1>1, <2>1, <2>2 DEF IInv, Walking, TypeOK
  <2>3. CASE m = l
    <3>1. /\ cursor'[m] = IF order[m] = <<>> THEN Null ELSE order[m][1]
          /\ Len(order[m]) \in Nat /\ order[m] \in Seq(Nodes)
      BY <1>1, <2>3, ListFacts DEF TypeOK
    <3>2. order[m] # <<>> => 1 \in 1..Len(order[m])  BY <3>1
    <3>3. QED BY <3>1, <3>2
  <2>4. QED BY <2>2, <2>3
<1>7. Searching'
  <2>1. target # Null => l # "release" /\ adding'["release"] = adding["release"]
    BY <1>1 DEF Busy, TypeOK, Lists
  <2>2. QED BY <1>1, <1>2, <2>1 DEF IInv, Searching, searchVars, Lists
<1>8. QED BY <1>1, <1>2, <1>3, <1>4, <1>5, <1>6, <1>7 DEF IInv, searchVars, Lists

LEMMA WalkIInv == ASSUME IInv, NEW l \in Lists, Walk(l) PROVE IInv'
<1>1. /\ TypeOK /\ Places /\ adding[l] # Null /\ ~AtEnd(l)
      /\ cursor' = [cursor EXCEPT ![l] = next[cursor[l]]]
      /\ UNCHANGED <<head, next, prev, adding, searchVars, hand, fresh, order>>
  BY DEF IInv, Walk
<1>2. cursor[l] \in Nodes /\ next[cursor[l]] \in Nodes /\ next[cursor[l]] # Null
  BY <1>1 DEF AtEnd, TypeOK, Pointers
<1>3. \A m \in Lists : In(m)' = In(m)  BY <1>1 DEF In
<1>4. TypeOK'  BY <1>1, <1>2 DEF TypeOK, searchVars, Pointers
<1>5. Places'  BY <1>1, <1>3 DEF Places
<1>6. Spelled'  BY <1>1 DEF IInv, Spelled
<1>7. Walking'
  <2>1. SUFFICES ASSUME NEW m \in Lists, adding[m] # Null
                 PROVE  IF order[m] = <<>> THEN cursor'[m] = Null
                        ELSE \E i \in 1..Len(order[m]) : cursor'[m] = order[m][i]
    BY <1>1 DEF Walking
  <2>2. CASE m # l  BY <1>1, <2>1, <2>2 DEF IInv, Walking, TypeOK
  <2>3. CASE m = l
    <3>. DEFINE s == order[l]
    <3>1. s # <<>> /\ \E i \in 1..Len(s) : cursor[l] = s[i]
      BY <1>1, <1>2 DEF IInv, Walking
    <3>2. PICK i \in 1..Len(s) : cursor[l] = s[i]  BY <3>1
    <3>3. next[s[i]] = Behind(s, i) /\ Len(s) \in Nat  BY ListFacts
    <3>4. i # Len(s) /\ next[cursor[l]] = s[i + 1]  BY <1>2, <3>2, <3>3 DEF Behind
    <3>5. i + 1 \in 1..Len(s)  BY <3>3, <3>4
    <3>6. cursor'[l] = s[i + 1]  BY <1>1, <3>4 DEF TypeOK
    <3>7. QED BY <2>3, <3>1, <3>5, <3>6
  <2>4. QED BY <2>2, <2>3
<1>8. Searching'  BY <1>1, <1>3 DEF IInv, Searching, searchVars, Lists
<1>9. QED BY <1>1, <1>3, <1>4, <1>5, <1>6, <1>7, <1>8 DEF IInv, searchVars, Lists

LEMMA FreeIInv == ASSUME IInv, NEW n \in Nodes, Free(n) PROVE IInv'
<1>1. /\ TypeOK /\ Places /\ n \in hand
      /\ hand' = hand \ {n} /\ fresh' = fresh \cup {n}
      /\ UNCHANGED <<head, pushVars, searchVars, order>>
  BY DEF IInv, Free
<1>2. PICK v \in Junk, w \in Junk :
          next' = [next EXCEPT ![n] = v] /\ prev' = [prev EXCEPT ![n] = w]
  BY DEF Free
<1>3. \A m \in Lists : In(m)' = In(m)  BY <1>1 DEF In
<1>4. TypeOK'  BY <1>1, <1>2 DEF TypeOK, pushVars, searchVars, Pointers
<1>5. Places'
  <2>1. \A m \in Lists : n \notin In(m) /\ (adding[m] # Null => adding[m] # n)
    BY <1>1 DEF Places
  <2>2. QED BY <1>1, <1>3, <2>1 DEF Places, pushVars
<1>6. Spelled'
  <2>1. SUFFICES ASSUME NEW m \in Lists PROVE Spells(order[m], head[m], next, prev)'
    BY DEF Spelled
  <2>2. \A x \in In(m) : x \in Nodes /\ x # n  BY <1>1, ListFacts DEF Places
  <2>3. \A x \in In(m) : next'[x] = next[x] /\ prev'[x] = prev[x]
    BY <1>1, <1>2, <2>2 DEF TypeOK
  <2>4. QED BY <1>1, <2>3, OtherLists
<1>7. Walking' /\ Searching'
  BY <1>1, <1>3 DEF IInv, Walking, Searching, pushVars, searchVars, Lists
<1>8. QED BY <1>1, <1>3, <1>4, <1>5, <1>6, <1>7 DEF IInv, searchVars, Lists

\* StartSearch, SearchNext and SearchEnd.
SearchStep == (\E n \in Nodes : StartSearch(n)) \/ SearchNext \/ SearchEnd

LEMMA SearchIInv == ASSUME IInv, SearchStep PROVE IInv'
<1>. DEFINE s == order["release"]
<1>1. /\ TypeOK /\ Places /\ "release" \in Lists
      /\ UNCHANGED <<head, next, prev, pushVars, hand, fresh, order>>
  BY DEF IInv, SearchStep, StartSearch, SearchNext, SearchEnd, Lists
<1>2. \A m \in Lists : In(m)' = In(m)  BY <1>1 DEF In
<1>3. /\ Len(s) \in Nat /\ head["release"] = IF s = <<>> THEN Null ELSE s[1]
      /\ \A i \in 1..Len(s) : s[i] \in Nodes /\ s[i] \in In("release") /\ next[s[i]] = Behind(s, i)
      /\ \A x \in In("release") : \E i \in 1..Len(s) : x = s[i]
      /\ s \in Seq(Nodes)
  BY <1>1, ListFacts
<1>4. Places' /\ Spelled' /\ Walking'
  BY <1>1, <1>2 DEF IInv, Places, Spelled, Walking, pushVars
<1>5. TypeOK' /\ found' \subseteq In("release")' /\ Searching'
  <2>1. CASE \E n \in Nodes : StartSearch(n)
    <3>1. PICK n \in Nodes : StartSearch(n)  BY <2>1
    <3>2. target' = n /\ seek' = head["release"] /\ found' = found /\ adding["release"] = Null
      BY <3>1 DEF StartSearch, Busy
    <3>3. TypeOK'  BY <1>1, <3>2 DEF TypeOK, pushVars, Pointers
    <3>4. Searching'
      <4>1. CASE s = <<>>
        <5>1. In("release") = {}
          <6>1. Len(s) = 0  BY <4>1
          <6>2. \A x \in In("release") : FALSE  BY <1>3, <6>1
          <6>3. QED BY <6>2
        <5>2. QED BY <1>1, <1>2, <1>3, <3>2, <4>1, <5>1 DEF Searching, pushVars
      <4>2. CASE s # <<>>
        <5>1. 1 \in 1..Len(s) /\ seek' = s[1] /\ s[1] # Null  BY <1>3, <3>2, <4>2
        <5>2. \A j \in 1..(1 - 1) : s[j] # n  OBVIOUS
        <5>3. QED BY <1>1, <3>2, <5>1, <5>2 DEF Searching, pushVars
      <4>3. QED BY <4>1, <4>2
    <3>5. QED BY <1>1, <1>2, <3>2, <3>3, <3>4 DEF IInv
  <2>2. CASE SearchNext
    <3>1. /\ target # Null /\ seek # Null /\ seek # target
          /\ seek' = next[seek] /\ target' = target /\ found' = found
      BY <2>2 DEF SearchNext, SearchOver
    <3>2. TypeOK'
      <4>1. seek' \in Pointers  BY <1>1, <3>1 DEF TypeOK, Pointers
      <4>2. QED BY <1>1, <3>1, <4>1 DEF TypeOK, pushVars
    <3>3. PICK i \in 1..Len(s) : seek = s[i] /\ \A j \in 1..(i - 1) : s[j] # target
      BY <3>1 DEF IInv, Searching
    <3>4. i \in Nat /\ 1 <= i /\ i <= Len(s) /\ next[s[i]] = Behind(s, i)  BY <1>3
    <3>5. \A j \in 1..i : s[j] # target
      <4>1. TAKE j \in 1..i
      <4>2. j \in 1..(i - 1) \/ j = i  BY <3>4
      <4>3. QED BY <3>1, <3>3, <4>2
    <3>6. adding["release"] = Null  BY <3>1 DEF IInv, Searching
    <3>7. Searching'
      <4>1. CASE i = Len(s)
        <5>1. seek' = Null  BY <3>1, <3>3, <3>4, <4>1 DEF Behind
        <5>2. target \notin In("release")  BY <1>3, <3>5, <4>1
        <5>3. QED BY <1>1, <1>2, <3>1, <3>6, <5>1, <5>2 DEF Searching, pushVars
      <4>2. CASE i # Len(s)
        <5>1. i + 1 \in 1..Len(s) /\ (i + 1) - 1 = i  BY <1>3, <3>4, <4>2
        <5>2. seek' = s[i + 1] /\ s[i + 1] # Null  BY <1>3, <3>1, <3>3, <3>4, <4>2, <5>1 DEF Behind
        <5>3. QED BY <1>1, <3>1, <3>5, <3>6, <5>1, <5>2 DEF Searching, pushVars
      <4>3. QED BY <4>1, <4>2
    <3>8. QED BY <1>1, <1>2, <3>1, <3>2, <3>7 DEF IInv
  <2>3. CASE SearchEnd
    <3>1. /\ target # Null /\ target' = Null /\ seek' = Null
          /\ found' = found \/ (seek = target /\ found' = found \cup {seek})
      BY <2>3 DEF SearchEnd
    <3>2. seek = target => seek \in In("release")
      <4>1. HAVE seek = target
      <4>2. \E i \in 1..Len(s) : seek = s[i]  BY <3>1, <4>1 DEF IInv, Searching
      <4>3. QED BY <1>3, <4>2
    <3>3. found' \subseteq In("release") /\ In("release") \subseteq Nodes
      BY <1>1, <3>1, <3>2, ListFacts DEF IInv
    <3>4. TypeOK'  BY <1>1, <3>1, <3>3 DEF TypeOK, pushVars, Pointers
    <3>5. QED BY <1>1, <1>2, <3>1, <3>3, <3>4 DEF Searching
  <2>4. QED BY <2>1, <2>2, <2>3 DEF SearchStep
<1>6. QED BY <1>4, <1>5 DEF IInv
-----------------------------------------------------------------------------
(* The theorems.                                                           *)

LEMMA InitIInv == Init => IInv
<1>1. SUFFICES ASSUME Init PROVE IInv
  OBVIOUS
<1>2. \A l \in Lists : order[l] = <<>> /\ head[l] = Null /\ adding[l] = Null /\ In(l) = {}
  BY <1>1 DEF Init, In, Elements
<1>3. TypeOK
  BY <1>1 DEF Init, TypeOK, Pointers
<1>4. Places
  BY <1>1, <1>2 DEF Init, Places, Injective, Lists
<1>5. Spelled
  BY <1>2 DEF Spelled, Spells
<1>6. QED BY <1>1, <1>2, <1>3, <1>4, <1>5 DEF Init, IInv, Walking, Searching

LEMMA NextIInv == IInv /\ [Next]_vars => IInv'
<1>1. SUFFICES ASSUME IInv, [Next]_vars PROVE IInv'
  OBVIOUS
<1>2. CASE \E n \in Nodes : PushPool(n) \/ Free(n) \/ StartSearch(n) \/ Remove(n)
  BY <1>1, <1>2, PushPoolIInv, FreeIInv, SearchIInv, RemoveIInv DEF SearchStep
<1>3. CASE \E l \in Lists, n \in Nodes : StartPush(l, n)
  BY <1>1, <1>3, StartPushIInv
<1>4. CASE \E l \in Lists : Pop(l)
  BY <1>1, <1>4, PopIInv
<1>5. CASE WalkStep
  BY <1>1, <1>5, WalkIInv, LinkIInv, SearchIInv DEF WalkStep, SearchStep
<1>6. CASE UNCHANGED vars
  <2>1. \A l \in Lists : In(l)' = In(l)  BY <1>6 DEF In, vars
  <2>2. QED BY <1>1, <1>6, <2>1 DEF vars, pushVars, searchVars, IInv, TypeOK, Places, Spelled,
                  Walking, Searching, Lists
<1>7. QED BY <1>1, <1>2, <1>3, <1>4, <1>5, <1>6 DEF Next

\* The invariant the other theorems rest on holds in every reachable state.
THEOREM Invariant == Spec => []IInv
  BY InitIInv, NextIInv, PTL DEF Spec

\* The pointers of the three lists, relinked by several threads, spell the
\* order in which nodes were pushed: push_*, pop_* and remove_release_list.
THEOREM ListsStayInOrder == Spec => []ListsKeepOrder
<1>1. IInv => ListsKeepOrder
  BY DEF IInv, Spelled, Spells, ListsKeepOrder, Behind
<1>2. QED BY <1>1, Invariant, PTL

\* search_release_list finds its node exactly if it is in the release list.
THEOREM SearchesAreRight == Spec => []SearchRight
<1>1. IInv => SearchRight
  <2>1. SUFFICES ASSUME IInv, target # Null, SearchOver
                 PROVE  seek = target <=> target \in In("release")
    BY DEF SearchRight, In
  <2>2. "release" \in Lists  BY DEF Lists
  <2>3. seek # Null => seek \in In("release")
    BY <2>1, <2>2, ListFacts DEF IInv, Searching
  <2>4. QED BY <2>1, <2>3 DEF SearchOver, IInv, Searching
<1>2. QED BY <1>1, Invariant, PTL
=============================================================================
