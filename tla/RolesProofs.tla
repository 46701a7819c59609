---------------------------- MODULE RolesProofs ----------------------------
(***************************************************************************)
(* Theorems about Roles, for any actions, roles, servers and requests.     *)
(***************************************************************************)
EXTENDS Roles, TLAPS

-----------------------------------------------------------------------------
(* Pointers and the objects they point to.                                 *)

\* The memory al of pointers and ob of objects: no holder points to nothing, the
\* holders of one object are one set, hold it for one role, and see it alike.
Pointers(al, ob) ==
  /\ al \in [Holders -> SUBSET Holders]
  /\ ob \in [Holders -> MaybeSets]
  /\ \A h \in Holders :
       /\ al[h] # {} <=> ob[h] # Absent
       /\ al[h] # {} => h \in al[h]
       /\ \A g \in al[h] : al[g] = al[h] /\ ob[g] = ob[h] /\ g[2] = h[2]

\* A set of actions is not the mark of what is absent.
LEMMA AbsentIsNoSet == Absent \notin Sets /\ Absent \in MaybeSets /\ \A A \in Sets : A \in MaybeSets
<1>1. None \notin Actions
  BY RolesAssumption
<1>2. QED
  BY <1>1 DEF Absent, Sets, MaybeSets

\* The holders of a server and of a request are different, one for each role.
LEMMA HolderFacts ==
  /\ \A x \in Servers \cup Requests, i \in Ids : <<x, i>> \in Holders
  /\ \A h \in Holders : h[1] \in Servers \cup Requests /\ h[2] \in Ids /\ h = <<h[1], h[2]>>
  /\ \A s \in Servers, r \in Requests : s # r
BY RolesAssumption DEF Holders

\* What the invariants of the module say of the memory.
LEMMA PointersOfInv ==
  ASSUME TypeOK, PointersSound
  PROVE  Pointers(alias, object)
BY DEF TypeOK, PointersSound, Pointers, Cached

\* And back.
LEMMA InvOfPointers ==
  ASSUME Pointers(alias', object')
  PROVE  /\ PointersSound'
         /\ alias' \in [Holders -> SUBSET Holders]
         /\ object' \in [Holders -> MaybeSets]
         /\ \A h \in Holders :
              /\ alias'[h] # {} <=> object'[h] # Absent
              /\ \A g \in alias'[h] : alias'[g] = alias'[h] /\ object'[g] = object'[h]
BY DEF PointersSound, Pointers, Cached

\* Holders that let go of their objects leave the others as they were.
LEMMA DetachedPointers ==
  ASSUME Pointers(alias, object), NEW H \in SUBSET Holders, Detached(H)
  PROVE  /\ Pointers(alias', object')
         /\ \A h \in Holders \ H : object'[h] = object[h] /\ (alias[h] # {} => alias'[h] # {})
         /\ \A h \in H : object'[h] = Absent /\ alias'[h] = {}
<1>1. /\ alias' = [h \in Holders |-> IF h \in H THEN {} ELSE alias[h] \ H]
      /\ object' = [h \in Holders |-> IF h \in H THEN Absent ELSE object[h]]
  BY DEF Detached
<1>2. alias' \in [Holders -> SUBSET Holders] /\ object' \in [Holders -> MaybeSets]
  BY <1>1, AbsentIsNoSet DEF Pointers
<1>3. ASSUME NEW h \in Holders
      PROVE  /\ h \in H => alias'[h] = {} /\ object'[h] = Absent
             /\ h \notin H => alias'[h] = alias[h] \ H /\ object'[h] = object[h]
             /\ h \notin H /\ alias[h] # {} => h \in alias'[h]
  BY <1>1 DEF Pointers
<1>4. ASSUME NEW h \in Holders
      PROVE  /\ alias'[h] # {} <=> object'[h] # Absent
             /\ alias'[h] # {} => h \in alias'[h]
  BY <1>3 DEF Pointers
<1>5. ASSUME NEW h \in Holders, NEW g \in alias'[h]
      PROVE  alias'[g] = alias'[h] /\ object'[g] = object'[h] /\ g[2] = h[2]
  <2>1. h \notin H /\ g \in alias[h] /\ g \notin H /\ g \in Holders
    BY <1>3, <1>5 DEF Pointers
  <2>2. alias[g] = alias[h] /\ object[g] = object[h] /\ g[2] = h[2]
    BY <2>1 DEF Pointers
  <2>3. QED
    BY <1>3, <2>1, <2>2
<1>6. QED
  BY <1>2, <1>3, <1>4, <1>5 DEF Pointers

\* A request that gets roles points to the objects of its server, or to new ones
\* that hold what the table holds.
LEMMA FetchedPointers ==
  ASSUME Pointers(alias, object), role \in [Ids -> MaybeSets],
         NEW r \in Requests, NEW s \in Servers, NEW I \in SUBSET Ids,
         \A i \in Ids : alias[<<r, i>>] = {},
         \A i \in I : ActionsOf(s, i) # Absent,
         Fetched(r, s, I)
  PROVE  /\ Pointers(alias', object')
         /\ \A h \in Holders :
              /\ object'[h] = object[h] \/ (h[2] \in I /\ object'[h] = ActionsOf(s, h[2]))
              /\ alias[h] # {} => alias'[h] # {}
              /\ h[1] # r => (alias'[h] = {} <=> alias[h] = {})
         /\ \A i \in I : alias'[<<r, i>>] # {}
<1> DEFINE Mine(i) == IF i \in I THEN {<<r, i>>} ELSE {}
           Hit(i) == i \in I /\ Cached(<<s, i>>)
<1>1. /\ alias' = [h \in Holders |->
                     IF Hit(h[2]) /\ h \in alias[<<s, h[2]>>] \cup Mine(h[2])
                     THEN alias[<<s, h[2]>>] \cup Mine(h[2])
                     ELSE IF h \in Mine(h[2]) THEN {h} ELSE alias[h]]
      /\ object' = [h \in Holders |->
                      IF h \notin Mine(h[2]) THEN object[h]
                      ELSE IF Hit(h[2]) THEN object[<<s, h[2]>>] ELSE role[h[2]]]
  BY DEF Fetched
<1>h. \A i \in Ids : <<r, i>> \in Holders /\ <<s, i>> \in Holders /\ <<r, i>> # <<s, i>>
  BY HolderFacts
<1>2. alias' \in [Holders -> SUBSET Holders] /\ object' \in [Holders -> MaybeSets]
  <2>1. ASSUME NEW h \in Holders
        PROVE  /\ alias[<<s, h[2]>>] \cup Mine(h[2]) \in SUBSET Holders
               /\ alias[h] \in SUBSET Holders /\ {h} \in SUBSET Holders
               /\ object[h] \in MaybeSets /\ object[<<s, h[2]>>] \in MaybeSets
               /\ role[h[2]] \in MaybeSets
    BY <1>h, HolderFacts DEF Pointers
  <2> HIDE DEF Mine, Hit
  <2>2. QED
    BY <1>1, <2>1
\* Three kinds of holders: those of an object r now shares, r with an object of its
\* own, and the others.
<1>3. ASSUME NEW h \in Holders, Hit(h[2]), h \in alias[<<s, h[2]>>] \cup {<<r, h[2]>>}
      PROVE  /\ alias'[h] = alias[<<s, h[2]>>] \cup {<<r, h[2]>>}
             /\ object'[h] = object[<<s, h[2]>>]
             /\ object[<<s, h[2]>>] # Absent
  <2>1. <<s, h[2]>> \in Holders /\ alias[<<s, h[2]>>] # {}
    BY <1>3, <1>h, HolderFacts DEF Cached
  <2>2. h \in alias[<<s, h[2]>>] => object[h] = object[<<s, h[2]>>]
    BY <2>1 DEF Pointers
  <2>3. QED
    BY <1>1, <1>3, <2>1, <2>2 DEF Pointers
<1>4. ASSUME NEW i \in I, ~Hit(i)
      PROVE  /\ alias'[<<r, i>>] = {<<r, i>>} /\ object'[<<r, i>>] = role[i]
             /\ role[i] # Absent /\ role[i] = ActionsOf(s, i)
  <2>1. <<r, i>> \in Holders /\ <<r, i>>[2] = i
    BY <1>h
  <2>2. role[i] = ActionsOf(s, i)
    BY <1>4 DEF ActionsOf
  <2>3. QED
    BY <1>1, <1>4, <2>1, <2>2
<1>5. ASSUME NEW h \in Holders,
             ~(Hit(h[2]) /\ h \in alias[<<s, h[2]>>] \cup {<<r, h[2]>>}),
             ~(h[2] \in I /\ h = <<r, h[2]>>)
      PROVE  alias'[h] = alias[h] /\ object'[h] = object[h]
  BY <1>1, <1>5
<1>r. ASSUME NEW h \in Holders, NEW i \in Ids, <<r, i>> \in alias[h]
      PROVE  FALSE
  <2>1. alias[<<r, i>>] = alias[h]
    BY <1>r DEF Pointers
  <2>2. QED
    BY <1>r, <2>1
<1> HIDE DEF Mine, Hit
<1>6. ASSUME NEW h \in Holders
      PROVE  /\ alias'[h] # {} <=> object'[h] # Absent
             /\ alias'[h] # {} => h \in alias'[h]
             /\ \A g \in alias'[h] :
                  alias'[g] = alias'[h] /\ object'[g] = object'[h] /\ g[2] = h[2]
  <2>i. h[2] \in Ids /\ h = <<h[1], h[2]>>
    BY HolderFacts
  <2>1. CASE Hit(h[2]) /\ h \in alias[<<s, h[2]>>] \cup {<<r, h[2]>>}
    <3> DEFINE i == h[2]
    <3>1. /\ alias'[h] = alias[<<s, i>>] \cup {<<r, i>>}
          /\ object'[h] = object[<<s, i>>]
          /\ object[<<s, i>>] # Absent
      BY <1>3, <2>1
    <3>2. ASSUME NEW g \in alias'[h]
          PROVE  alias'[g] = alias'[h] /\ object'[g] = object'[h] /\ g[2] = i
      <4>2. g \in alias[<<s, i>>] \/ g = <<r, i>>
        BY <3>1, <3>2
      <4>1. g \in Holders /\ g[2] = i
        <5>1. CASE g = <<r, i>>
          BY <5>1, <1>h, <2>i
        <5>2. CASE g \in alias[<<s, i>>]
          <6>1. <<s, i>> \in Holders /\ <<s, i>>[2] = i
            BY <1>h, <2>i
          <6> HIDE DEF i
          <6>2. g \in Holders /\ g[2] = <<s, i>>[2]
            BY <5>2, <6>1 DEF Pointers
          <6>3. QED
            BY <6>1, <6>2
        <5> HIDE DEF i
        <5>3. QED
          BY <4>2, <5>1, <5>2
      <4>3. Hit(g[2]) /\ g \in alias[<<s, g[2]>>] \cup {<<r, g[2]>>}
        BY <2>1, <4>1, <4>2
      <4>4. /\ alias'[g] = alias[<<s, g[2]>>] \cup {<<r, g[2]>>}
            /\ object'[g] = object[<<s, g[2]>>]
        BY <1>3, <4>1, <4>3
      <4>5. QED
        BY <3>1, <4>1, <4>4
    <3>3. QED
      BY <2>1, <3>1, <3>2
  <2>2. CASE h[2] \in I /\ ~Hit(h[2]) /\ h = <<r, h[2]>>
    BY <1>4, <2>2, <2>i
  <2>3. CASE /\ ~(Hit(h[2]) /\ h \in alias[<<s, h[2]>>] \cup {<<r, h[2]>>})
             /\ ~(h[2] \in I /\ h = <<r, h[2]>>)
    <3>1. alias'[h] = alias[h] /\ object'[h] = object[h]
      BY <1>5, <2>3
    <3>2. ASSUME NEW g \in alias[h]
          PROVE  alias'[g] = alias[h] /\ object'[g] = object[h] /\ g[2] = h[2]
      <4>1. g \in Holders /\ g[2] = h[2] /\ alias[g] = alias[h] /\ object[g] = object[h]
        BY <3>2 DEF Pointers
      <4>2. g # <<r, h[2]>>
        BY <1>r, <2>i, <3>2
      <4>3. ~(Hit(g[2]) /\ g \in alias[<<s, g[2]>>])
        <5>1. SUFFICES ASSUME Hit(h[2]), g \in alias[<<s, h[2]>>]
                       PROVE  FALSE
          BY <4>1
        <5>2. alias[g] = alias[<<s, h[2]>>]
          <6>1. <<s, h[2]>> \in Holders
            BY <1>h, <2>i
          <6>2. QED
            BY <5>1, <6>1 DEF Pointers
        <5>3. h \in alias[h]
          BY <3>2 DEF Pointers
        <5>4. h \in alias[<<s, h[2]>>]
          BY <4>1, <5>2, <5>3
        <5>5. QED
          BY <2>3, <5>1, <5>4
      <4>4. QED
        BY <1>5, <4>1, <4>2, <4>3
    <3>3. QED
      BY <3>1, <3>2 DEF Pointers
  <2>4. QED
    BY <2>1, <2>2, <2>3 DEF Hit
<1>7. ASSUME NEW h \in Holders
      PROVE  /\ object'[h] = object[h] \/ (h[2] \in I /\ object'[h] = ActionsOf(s, h[2]))
             /\ alias[h] # {} => alias'[h] # {}
             /\ h[1] # r => (alias'[h] = {} <=> alias[h] = {})
  <2>1. CASE Hit(h[2]) /\ h \in alias[<<s, h[2]>>] \cup {<<r, h[2]>>}
    <3>1. object'[h] = object[<<s, h[2]>>] /\ alias'[h] # {}
      BY <1>3, <2>1
    <3>2. ActionsOf(s, h[2]) = object[<<s, h[2]>>] /\ h[2] \in I
      BY <2>1 DEF Hit, ActionsOf
    <3>3. h[1] # r => h \in alias[<<s, h[2]>>]
      BY <2>1
    <3>4. h[1] # r => alias[h] # {}
      BY <3>3, <1>h, HolderFacts DEF Pointers
    <3>5. QED
      BY <3>1, <3>2, <3>4
  <2>2. CASE h[2] \in I /\ ~Hit(h[2]) /\ h = <<r, h[2]>>
    BY <1>4, <2>2
  <2>3. CASE /\ ~(Hit(h[2]) /\ h \in alias[<<s, h[2]>>] \cup {<<r, h[2]>>})
             /\ ~(h[2] \in I /\ h = <<r, h[2]>>)
    BY <1>5, <2>3
  <2>4. QED
    BY <2>1, <2>2, <2>3 DEF Hit
<1>8. ASSUME NEW i \in I
      PROVE  alias'[<<r, i>>] # {}
  <2>1. <<r, i>> \in Holders /\ <<r, i>>[2] = i
    BY <1>h
  <2>2. CASE Hit(i)
    BY <1>3, <2>1, <2>2
  <2>3. CASE ~Hit(i)
    BY <1>4, <2>3
  <2>4. QED
    BY <2>2, <2>3
<1>9. QED
  BY <1>2, <1>6, <1>7, <1>8 DEF Pointers

\* A request that puts its objects in the cache of its server shares them with it; the
\* server lets go of the objects it had.
LEMMA SetCachePointers ==
  ASSUME Pointers(alias, object), NEW r \in Requests, NEW s \in Servers, NEW I \in SUBSET Ids,
         \A i \in I : alias[<<r, i>>] # {}, NEW H, H = {} \/ H = Entries(r), SetCache(r, s, I, H)
  PROVE  /\ Pointers(alias', object')
         /\ \A h \in Holders :
              object'[h] = IF h[1] = s /\ h[2] \in I THEN object[<<r, h[2]>>]
                           ELSE IF h \in H THEN Absent ELSE object[h]
<1> DEFINE All(i) == (alias[<<r, i>>] \cup {<<s, i>>}) \ H
           Out == H \cup {s} \X I
<1>1. /\ alias' = [h \in Holders |-> IF h[2] \in I /\ h \in All(h[2]) THEN All(h[2])
                                     ELSE IF h \in H THEN {} ELSE alias[h] \ Out]
      /\ object' = [h \in Holders |-> IF h \in {s} \X I THEN object[<<r, h[2]>>]
                                      ELSE IF h \in H THEN Absent ELSE object[h]]
  BY DEF SetCache
<1>h. /\ \A i \in Ids : <<r, i>> \in Holders /\ <<s, i>> \in Holders
      /\ \A i \in Ids : <<s, i>> \notin H
      /\ \A i \in Ids : <<s, i>>[2] = i
  BY HolderFacts DEF Entries
<1>i. \A h \in Holders : h[2] \in Ids /\ h = <<h[1], h[2]>> /\ (h \in {s} \X I <=> h[1] = s /\ h[2] \in I)
  BY HolderFacts
<1>2. alias' \in [Holders -> SUBSET Holders] /\ object' \in [Holders -> MaybeSets]
  <2>1. ASSUME NEW h \in Holders
        PROVE  /\ All(h[2]) \in SUBSET Holders /\ alias[h] \ Out \in SUBSET Holders
               /\ object[h] \in MaybeSets /\ object[<<r, h[2]>>] \in MaybeSets
               /\ Absent \in MaybeSets
    <3>1. <<r, h[2]>> \in Holders /\ <<s, h[2]>> \in Holders
      BY <1>h, <1>i
    <3>2. /\ alias[<<r, h[2]>>] \in SUBSET Holders /\ alias[h] \in SUBSET Holders
          /\ object[h] \in MaybeSets /\ object[<<r, h[2]>>] \in MaybeSets
      BY <3>1 DEF Pointers
    <3>3. QED
      BY <3>1, <3>2, AbsentIsNoSet
  <2> HIDE DEF All, Out
  <2>2. QED
    BY <1>1, <2>1
\* The holders of an object that r has put in the cache, those that have let go, and
\* the others.
<1>3. ASSUME NEW h \in Holders, h[2] \in I, h \in All(h[2])
      PROVE  alias'[h] = All(h[2]) /\ object'[h] = object[<<r, h[2]>>] /\ object'[h] # Absent
  <2>1. object[<<r, h[2]>>] # Absent
    BY <1>3, <1>h, <1>i DEF Pointers
  <2>2. CASE h \in {s} \X I
    BY <1>1, <1>3, <2>1, <2>2
  <2>3. CASE h \notin {s} \X I
    <3>1. h \in alias[<<r, h[2]>>] /\ h \notin H
      BY <1>3, <1>i, <2>3
    <3>2. object[h] = object[<<r, h[2]>>]
      BY <3>1, <1>h, <1>i DEF Pointers
    <3>3. QED
      BY <1>1, <1>3, <2>1, <2>3, <3>1, <3>2
  <2>4. QED
    BY <2>2, <2>3
<1>4. ASSUME NEW h \in Holders, h \in H
      PROVE  alias'[h] = {} /\ object'[h] = Absent
  <2>1. h \notin All(h[2]) /\ h \notin {s} \X I
    BY <1>4, <1>h, <1>i
  <2>2. QED
    BY <1>1, <1>4, <2>1
<1>5. ASSUME NEW h \in Holders, ~(h[2] \in I /\ h \in All(h[2])), h \notin H
      PROVE  /\ alias'[h] = alias[h] \ Out /\ object'[h] = object[h]
             /\ h \notin {s} \X I
  <2>1. h \notin {s} \X I
    BY <1>5, <1>i, <1>h
  <2>2. QED
    BY <1>1, <1>5, <2>1
<1>6. ASSUME NEW h \in Holders
      PROVE  /\ alias'[h] # {} <=> object'[h] # Absent
             /\ alias'[h] # {} => h \in alias'[h]
             /\ \A g \in alias'[h] :
                  alias'[g] = alias'[h] /\ object'[g] = object'[h] /\ g[2] = h[2]
  <2>1. CASE h[2] \in I /\ h \in All(h[2])
    <3>1. alias'[h] = All(h[2]) /\ object'[h] = object[<<r, h[2]>>] /\ object'[h] # Absent
      BY <1>3, <2>1
    <3>2. ASSUME NEW g \in All(h[2])
          PROVE  alias'[g] = alias'[h] /\ object'[g] = object'[h] /\ g[2] = h[2]
      <4>1. g \in Holders /\ g[2] = h[2]
        <5>1. CASE g = <<s, h[2]>>
          BY <5>1, <1>h, <1>i
        <5>2. CASE g \in alias[<<r, h[2]>>]
          <6>1. g \in Holders /\ g[2] = <<r, h[2]>>[2]
            BY <5>2, <1>h, <1>i DEF Pointers
          <6>2. QED
            BY <6>1
        <5>3. QED
          BY <3>2, <5>1, <5>2
      <4>2. g[2] \in I /\ g \in All(g[2])
        BY <2>1, <3>2, <4>1
      <4> HIDE DEF All
      <4>3. alias'[g] = All(g[2]) /\ object'[g] = object[<<r, g[2]>>]
        BY <1>3, <4>1, <4>2
      <4>4. QED
        BY <3>1, <4>1, <4>3
    <3>3. QED
      BY <2>1, <3>1, <3>2
  <2>2. CASE h \in H
    BY <1>4, <2>2
  <2>3. CASE ~(h[2] \in I /\ h \in All(h[2])) /\ h \notin H
    <3>1. alias'[h] = alias[h] \ Out /\ object'[h] = object[h] /\ h \notin Out
      BY <1>5, <2>3
    <3>2. ASSUME NEW g \in alias[h] \ Out
          PROVE  alias'[g] = alias'[h] /\ object'[g] = object'[h] /\ g[2] = h[2]
      <4>1. /\ g \in Holders /\ g[2] = h[2] /\ alias[g] = alias[h] /\ object[g] = object[h]
            /\ h \in alias[h]
        BY <3>2 DEF Pointers
      <4>2. ~(g[2] \in I /\ g \in All(g[2]))
        <5>1. SUFFICES ASSUME h[2] \in I, g \in All(h[2])
                       PROVE  FALSE
          BY <4>1
        <5>2. g \in alias[<<r, h[2]>>]
          BY <1>i, <3>2, <5>1
        <5>3. alias[g] = alias[<<r, h[2]>>]
          BY <1>h, <1>i, <5>2 DEF Pointers
        <5>4. h \in alias[<<r, h[2]>>]
          BY <4>1, <5>3
        <5>5. QED
          BY <2>3, <5>1, <5>4
      <4>3. g \notin H
        BY <3>2
      <4> HIDE DEF All
      <4>4. alias'[g] = alias[g] \ Out /\ object'[g] = object[g]
        BY <1>5, <4>1, <4>2, <4>3
      <4>5. QED
        BY <3>1, <4>1, <4>4
    <3>3. alias'[h] # {} <=> object'[h] # Absent
      BY <3>1 DEF Pointers
    <3>4. alias'[h] # {} => h \in alias'[h]
      BY <3>1 DEF Pointers
    <3>5. QED
      BY <3>1, <3>2, <3>3, <3>4
  <2>4. QED
    BY <2>1, <2>2, <2>3
<1>7. \A h \in Holders :
        object'[h] = IF h[1] = s /\ h[2] \in I THEN object[<<r, h[2]>>]
                     ELSE IF h \in H THEN Absent ELSE object[h]
  BY <1>1, <1>i
<1>8. QED
  BY <1>2, <1>6, <1>7 DEF Pointers

\* The refresh puts an object of its own under every role it has read.
LEMMA SetEntriesPointers ==
  ASSUME TypeOK, Pointers(alias, object), NEW s \in Servers, SetEntries(s)
  PROVE  /\ Pointers(alias', object')
         /\ \A h \in Holders :
              object'[h] = IF h[1] = s /\ refresh[s].read[h[2]] # Absent
                           THEN refresh[s].read[h[2]] ELSE object[h]
<1> DEFINE t   == refresh[s].read
           set == {h \in Entries(s) : t[h[2]] # Absent}
<1>1. /\ alias' = [h \in Holders |-> IF h \in set THEN {h} ELSE alias[h] \ set]
      /\ object' = [h \in Holders |-> IF h \in set THEN t[h[2]] ELSE object[h]]
  BY DEF SetEntries
<1>2. \A h \in Holders : t[h[2]] \in MaybeSets
  BY HolderFacts DEF TypeOK, Refresh
<1>3. \A h \in Holders : h \in set <=> h[1] = s /\ t[h[2]] # Absent
  BY HolderFacts DEF Entries
<1> HIDE DEF t, set
<1>4. alias' \in [Holders -> SUBSET Holders] /\ object' \in [Holders -> MaybeSets]
  BY <1>1, <1>2 DEF Pointers
<1>5. ASSUME NEW h \in Holders
      PROVE  /\ alias'[h] # {} <=> object'[h] # Absent
             /\ alias'[h] # {} => h \in alias'[h]
  BY <1>1, <1>3 DEF Pointers
<1>6. ASSUME NEW h \in Holders, NEW g \in alias'[h]
      PROVE  alias'[g] = alias'[h] /\ object'[g] = object'[h] /\ g[2] = h[2]
  <2>1. CASE h \in set
    BY <1>1, <1>6, <2>1
  <2>2. CASE h \notin set
    <3>1. g \in alias[h] /\ g \notin set
      BY <1>1, <1>6, <2>2
    <3>2. g \in Holders /\ alias[g] = alias[h] /\ object[g] = object[h] /\ g[2] = h[2]
      BY <3>1 DEF Pointers
    <3>3. QED
      BY <1>1, <2>2, <3>1, <3>2
  <2>3. QED
    BY <2>1, <2>2
<1>7. QED
  BY <1>1, <1>3, <1>4, <1>5, <1>6 DEF Pointers, t

-----------------------------------------------------------------------------
(* Requests.                                                               *)

\* A sequence of roles, what is left of it, and one more role.
LEMMA ListFacts ==
  /\ SetOf(<<>>) = {}
  /\ \A q \in Seq(Ids) : SetOf(q) \in SUBSET Ids
  /\ \A q \in Seq(Ids) : q # <<>> =>
       /\ Head(q) \in SetOf(q) /\ Head(q) \in Ids
       /\ Tail(q) \in Seq(Ids) /\ SetOf(Tail(q)) \subseteq SetOf(q)
  /\ \A q \in Seq(Ids), i \in Ids :
       Append(q, i) \in Seq(Ids) /\ SetOf(Append(q, i)) = SetOf(q) \cup {i}
<1>1. SetOf(<<>>) = {}
  BY DEF SetOf
<1>2. ASSUME NEW q \in Seq(Ids)
      PROVE  SetOf(q) \in SUBSET Ids
  BY DEF SetOf
<1>3. ASSUME NEW q \in Seq(Ids), q # <<>>
      PROVE  /\ Head(q) \in SetOf(q) /\ Head(q) \in Ids
             /\ Tail(q) \in Seq(Ids) /\ SetOf(Tail(q)) \subseteq SetOf(q)
  <2>1. 1 \in DOMAIN q /\ Head(q) = q[1]
    BY <1>3
  <2>2. Tail(q) \in Seq(Ids)
    BY <1>3
  <2>3. \A n \in DOMAIN Tail(q) : n + 1 \in DOMAIN q /\ Tail(q)[n] = q[n + 1]
    BY <1>3
  <2>4. QED
    BY <1>3, <2>1, <2>2, <2>3 DEF SetOf
<1>4. ASSUME NEW q \in Seq(Ids), NEW i \in Ids
      PROVE  Append(q, i) \in Seq(Ids) /\ SetOf(Append(q, i)) = SetOf(q) \cup {i}
  <2> DEFINE p == Append(q, i)
  <2>1. p \in Seq(Ids)
    OBVIOUS
  <2>2. /\ \A n \in DOMAIN p : IF n \in DOMAIN q THEN p[n] = q[n] ELSE p[n] = i
        /\ \A n \in DOMAIN q : n \in DOMAIN p /\ p[n] = q[n]
        /\ Len(q) + 1 \in DOMAIN p /\ p[Len(q) + 1] = i
    OBVIOUS
  <2> HIDE DEF p
  <2>3. SetOf(p) = SetOf(q) \cup {i}
    BY <2>2 DEF SetOf
  <2>4. QED
    BY <2>1, <2>3 DEF p
<1>5. QED
  BY <1>1, <1>2, <1>3, <1>4

\* Nothing under way is a request, and asks for nothing.
LEMMA NoRequestTyped ==
  /\ NoRequest \in Request
  /\ IdleRefresh \in Refresh
  /\ NoRequest.pc = "none" /\ NoRequest.todo = <<>> /\ NoRequest.updated = <<>>
  /\ \A i \in Ids : NoRequest.image[i] = Absent /\ NoRequest.new[i] = {}
BY AbsentIsNoSet DEF NoRequest, Request, NoActions, NoRoles, Sets, MaybeSets, IdleRefresh,
                     Refresh

\* The fields of a request.
LEMMA RequestFields ==
  ASSUME NEW q \in Request
  PROVE  /\ q.server \in Servers \cup {None}
         /\ q.todo \in Seq(Ids) /\ q.updated \in Seq(Ids)
         /\ q.new \in [Ids -> Sets] /\ q.image \in [Ids -> MaybeSets]
BY DEF Request

\* A request that is not concerned by a step stays sound: it still holds an object
\* for the same roles.
LEMMA OtherRequestSound ==
  ASSUME NEW r, NEW q \in Request, NEW ob, NEW new, RequestSound(r, q, ob),
         \A i \in Ids : new[<<r, i>>] = Absent <=> ob[<<r, i>>] = Absent
  PROVE  RequestSound(r, q, new)
<1>1. SetOf(q.todo) \cup SetOf(q.updated) \subseteq Ids
  BY RequestFields, ListFacts
<1>2. QED
  BY <1>1 DEF RequestSound

\* A step of request r that leaves every other request the objects it has.
LEMMA StepSound ==
  ASSUME TypeOK, RequestsSound, NEW r \in Requests, NEW q \in Request, Step(r, q),
         \A w \in Requests \ {r}, i \in Ids :
           object'[<<w, i>>] = Absent <=> object[<<w, i>>] = Absent,
         RequestSound(r, q, object')
  PROVE  /\ RequestsSound'
         /\ req' \in [Requests -> Request]
<1>1. req' = [req EXCEPT ![r] = q]
  BY DEF Step
<1>2. ASSUME NEW w \in Requests, w # r
      PROVE  RequestSound(w, req'[w], object')
  <2>1. req'[w] = req[w] /\ req[w] \in Request
    BY <1>1, <1>2 DEF TypeOK
  <2>2. RequestSound(w, req[w], object)
    BY DEF RequestsSound
  <2>3. QED
    BY <1>2, <2>1, <2>2, OtherRequestSound
<1>3. req'[r] = q
  BY <1>1 DEF TypeOK
<1>4. QED
  BY <1>1, <1>2, <1>3 DEF RequestsSound, TypeOK

\* What a step of request r has to see to for what it copies to be given: the table
\* and the refreshes as they were, and every object an old one, a row, or an object
\* of what r asks for.
LEMMA CopiesStay ==
  ASSUME CopiesGiven, TypeOK, given \subseteq given',
         \A i \in Ids : role'[i] = role[i] \/ Given(given', i, role'[i]),
         \A h \in Holders : object'[h] = object[h] \/ Given(given', h[2], object'[h]),
         \A s \in Servers, i \in Ids :
           \/ refresh'[s].read[i] = refresh[s].read[i]
           \/ Given(given', i, refresh'[s].read[i]),
         \A r \in Requests, i \in Ids :
           /\ req'[r].image[i] = req[r].image[i] \/ Given(given', i, req'[r].image[i])
           /\ req'[r].new[i] = req[r].new[i] \/ Given(given', i, req'[r].new[i])
  PROVE  CopiesGiven'
<1>1. \A i, A : Given(given, i, A) => Given(given', i, A)
  BY DEF Given
<1>2. QED
  BY <1>1 DEF CopiesGiven

\* The invariant of the next state, from its parts.
LEMMA InvOfParts ==
  ASSUME Pointers(alias', object'), RequestsSound', CopiesGiven',
         role' \in [Ids -> MaybeSets], refresh' \in [Servers -> Refresh],
         req' \in [Requests -> Request], given' \subseteq Ids \X Actions
  PROVE  RolesInv'
BY InvOfPointers DEF RolesInv, TypeOK, Cached

\* Who may edit roles was given the right to, so what it gives counts as given.
LEMMA GivesGiven ==
  ASSUME TypeOK, CopiesGiven, NEW s \in Servers, NEW u \in Ids, Allowed(s, u, EditRole),
         NEW pairs \in SUBSET (Ids \X Actions), Gives(u, pairs)
  PROVE  /\ given' = given \cup pairs
         /\ given' \subseteq Ids \X Actions
<1>1. Given(given, u, ActionsOf(s, u))
  <2>1. CASE Cached(<<s, u>>)
    <3>1. <<s, u>> \in Holders /\ <<s, u>>[2] = u
      BY HolderFacts
    <3>2. QED
      BY <2>1, <3>1 DEF CopiesGiven, ActionsOf
  <2>2. CASE ~Cached(<<s, u>>)
    BY <2>2 DEF CopiesGiven, ActionsOf
  <2>3. QED
    BY <2>1, <2>2
<1>2. <<u, EditRole>> \in given
  BY <1>1 DEF Allowed, Given
<1>3. QED
  BY <1>2 DEF Gives, TypeOK

-----------------------------------------------------------------------------
(* RolesInv is inductive.                                                  *)

\* The two roles of a new tenant, and nothing in memory.
LEMMA InitRolesInv == Init => RolesInv
<1> SUFFICES ASSUME Init PROVE RolesInv
  OBVIOUS
<1>1. Admin \in Ids /\ Member \in Ids /\ Admin # Member
  BY RolesAssumption DEF Ids, Admin, Member
<1>2. {EditRole, EditUser} \in Sets /\ {} \in Sets
  BY RolesAssumption DEF Sets
<1>3. TypeOK
  <2>1. role \in [Ids -> MaybeSets]
    BY <1>2, AbsentIsNoSet DEF Init
  <2>2. given \subseteq Ids \X Actions
    BY <1>1, <1>2 DEF Init, Sets
  <2>3. QED
    BY <2>1, <2>2, NoRequestTyped, AbsentIsNoSet DEF Init, TypeOK, Cached
<1>4. PointersSound
  BY DEF Init, PointersSound, Cached
<1>5. RequestsSound
  <2>1. ASSUME NEW r \in Requests
        PROVE  RequestSound(r, req[r], object)
    <3>1. req[r] = NoRequest /\ \A i \in Ids : object[<<r, i>>] = Absent
      BY HolderFacts DEF Init
    <3>2. QED
      BY <3>1, NoRequestTyped, ListFacts DEF RequestSound
  <2>2. QED
    BY <2>1 DEF RequestsSound
<1>6. CopiesGiven
  <2>1. \A i \in Ids : Given(given, i, role[i])
    BY <1>1 DEF Init, Given
  <2>2. \A h \in Holders : Given(given, h[2], object[h])
    BY DEF Init, Given
  <2>3. \A s \in Servers, i \in Ids : Given(given, i, refresh[s].read[i])
    BY DEF Init, Given, IdleRefresh, NoRoles
  <2>4. \A r \in Requests, i \in Ids :
          Given(given, i, req[r].image[i]) /\ Given(given, i, req[r].new[i])
    BY NoRequestTyped DEF Init, Given
  <2>5. QED
    BY <2>1, <2>2, <2>3, <2>4 DEF CopiesGiven
<1>7. QED
  BY <1>3, <1>4, <1>5, <1>6 DEF RolesInv

\* A role is created by somebody who may edit roles.
LEMMA CreateRoleInv ==
  ASSUME RolesInv, NEW s \in Servers, NEW u \in Ids, NEW A \in Choices, CreateRole(s, u, A)
  PROVE  RolesInv'
<1> DEFINE n == Cardinality({j \in Ids : role[j] # Absent}) + 1
<1>1. /\ Allowed(s, u, EditRole) /\ n \in Ids
      /\ role' = [role EXCEPT ![n] = A] /\ Gives(u, {n} \X A)
      /\ alias' = alias /\ object' = object /\ refresh' = refresh /\ req' = req
  BY DEF CreateRole, memory
<1> HIDE DEF n
<1>2. A \in Sets
  BY RolesAssumption DEF Sets
<1>3. {n} \X A \in SUBSET (Ids \X Actions)
  BY <1>1, <1>2 DEF Sets
<1>4. given' = given \cup ({n} \X A) /\ given' \subseteq Ids \X Actions
  BY <1>1, <1>3, GivesGiven DEF RolesInv
<1>5. role' \in [Ids -> MaybeSets]
  BY <1>1, <1>2, AbsentIsNoSet DEF RolesInv, TypeOK
<1>6. CopiesGiven'
  <2>1. \A i \in Ids : role'[i] = role[i] \/ Given(given', i, role'[i])
    BY <1>1, <1>4 DEF RolesInv, TypeOK, Given
  <2>2. QED
    BY <1>1, <1>4, <2>1, CopiesStay DEF RolesInv
<1>7. Pointers(alias', object') /\ RequestsSound'
  BY <1>1, PointersOfInv DEF RolesInv, RequestsSound
<1>8. QED
  BY <1>1, <1>4, <1>5, <1>6, <1>7, InvOfParts DEF RolesInv, TypeOK

\* A request comes in: it takes objects that hold what was given, and asks for what
\* its user may give.
LEMMA UpdateRolesInv ==
  ASSUME RolesInv, NEW r \in Requests, NEW s \in Servers, NEW u \in Ids,
         NEW ids \in ListsOf[r], NEW new \in [SetOf(ids) -> Choices],
         UpdateRoles(r, s, u, ids, [i \in Ids |-> IF i \in SetOf(ids) THEN new[i] ELSE {}])
  PROVE  RolesInv'
<1> DEFINE I    == SetOf(ids)
           N    == [i \in Ids |-> IF i \in SetOf(ids) THEN new[i] ELSE {}]
           q    == [NoRequest EXCEPT !.pc = "change", !.server = s, !.todo = ids, !.new = N]
           pairs == UNION {{i} \X N[i] : i \in I}
<1>1. /\ req[r] = NoRequest /\ Allowed(s, u, EditRole) /\ AllFound(s, I)
      /\ Fetched(r, s, I) /\ Step(r, q) /\ Gives(u, pairs)
      /\ role' = role /\ refresh' = refresh
  BY DEF UpdateRoles
<1>2. ids \in Seq(Ids) /\ I \in SUBSET Ids
  <2>1. ListsOf[r] \in SUBSET (Seq(Ids) \ {<<>>})
    BY RolesAssumption DEF Ids
  <2>2. ids \in Seq(Ids)
    BY <2>1
  <2>3. QED
    BY <2>2, ListFacts
<1>3. N \in [Ids -> Sets]
  BY RolesAssumption DEF Sets
<1>q. q \in Request /\ q.pc = "change" /\ q.server = s /\ q.todo = ids /\ q.new = N
      /\ q.updated = <<>> /\ q.image = NoRoles
  <2> HIDE DEF N
  <2>1. QED
    BY <1>2, <1>3, NoRequestTyped DEF Request, NoRequest
<1> HIDE DEF q
<1>4. /\ Pointers(alias', object')
      /\ \A h \in Holders :
           /\ object'[h] = object[h] \/ (h[2] \in I /\ object'[h] = ActionsOf(s, h[2]))
           /\ alias[h] # {} => alias'[h] # {}
           /\ h[1] # r => (alias'[h] = {} <=> alias[h] = {})
      /\ \A i \in I : alias'[<<r, i>>] # {}
  <2>1. Pointers(alias, object) /\ role \in [Ids -> MaybeSets]
    BY PointersOfInv DEF RolesInv, TypeOK
  <2>2. \A i \in Ids : alias[<<r, i>>] = {}
    <3>1. \A i \in Ids : object[<<r, i>>] = Absent /\ <<r, i>> \in Holders
      BY <1>1, NoRequestTyped, HolderFacts DEF RolesInv, RequestsSound, RequestSound
    <3>2. QED
      BY <2>1, <3>1 DEF Pointers
  <2>3. \A i \in I : ActionsOf(s, i) # Absent
    BY <1>1 DEF AllFound
  <2> HIDE DEF I
  <2>4. QED
    BY <1>1, <1>2, <2>1, <2>2, <2>3, FetchedPointers
<1>5. given' = given \cup pairs /\ given' \subseteq Ids \X Actions
  <2>1. pairs \in SUBSET (Ids \X Actions)
    BY <1>2, <1>3 DEF Sets
  <2> HIDE DEF pairs
  <2>2. QED
    BY <1>1, <2>1, GivesGiven DEF RolesInv
<1>6. RequestsSound' /\ req' \in [Requests -> Request]
  <2>1. ASSUME NEW w \in Requests \ {r}, NEW i \in Ids
        PROVE  object'[<<w, i>>] = Absent <=> object[<<w, i>>] = Absent
    <3>1. <<w, i>> \in Holders /\ <<w, i>>[1] # r
      BY HolderFacts
    <3>2. Pointers(alias, object)
      BY PointersOfInv DEF RolesInv
    <3>3. QED
      BY <1>4, <3>1, <3>2 DEF Pointers
  <2>2. RequestSound(r, q, object')
    <3>1. \A i \in I : object'[<<r, i>>] # Absent
      BY <1>2, <1>4, HolderFacts DEF Pointers
    <3> HIDE DEF I
    <3>2. QED
      BY <1>q, <3>1, ListFacts DEF RequestSound, I
  <2>3. QED
    BY <1>1, <1>q, <2>1, <2>2, StepSound DEF RolesInv
<1>7. CopiesGiven'
  <2>1. ASSUME NEW h \in Holders
        PROVE  object'[h] = object[h] \/ Given(given', h[2], object'[h])
    <3>1. SUFFICES ASSUME h[2] \in I, object'[h] = ActionsOf(s, h[2])
                   PROVE  Given(given', h[2], object'[h])
      BY <1>4
    <3>2. <<s, h[2]>> \in Holders /\ <<s, h[2]>>[2] = h[2] /\ h[2] \in Ids
      BY HolderFacts
    <3>3. Given(given, h[2], ActionsOf(s, h[2]))
      BY <3>2 DEF RolesInv, CopiesGiven, ActionsOf
    <3>4. QED
      BY <1>5, <3>1, <3>3 DEF Given
  <2>2. ASSUME NEW w \in Requests, NEW i \in Ids
        PROVE  /\ req'[w].image[i] = req[w].image[i] \/ Given(given', i, req'[w].image[i])
               /\ req'[w].new[i] = req[w].new[i] \/ Given(given', i, req'[w].new[i])
    <3>1. CASE w # r
      BY <1>1, <3>1 DEF Step, RolesInv, TypeOK
    <3>2. CASE w = r
      <4>1. req'[r] = q
        BY <1>1 DEF Step, RolesInv, TypeOK
      <4>2. Given(given', i, q.image[i])
        BY <1>q DEF NoRoles, Given
      <4>3. Given(given', i, q.new[i])
        <5>1. CASE i \in I
          <6>1. {i} \X N[i] \subseteq pairs
            BY <5>1
          <6> HIDE DEF pairs, N
          <6>2. QED
            BY <1>5, <1>q, <6>1 DEF Given
        <5>2. CASE i \notin I
          BY <5>2, <1>q DEF Given
        <5>3. QED
          BY <5>1, <5>2
      <4>4. QED
        BY <3>2, <4>1, <4>2, <4>3
    <3>3. QED
      BY <3>1, <3>2
  <2>3. given \subseteq given'
    BY <1>5
  <2>4. QED
    BY <1>1, <2>1, <2>2, <2>3, CopiesStay DEF RolesInv
<1>8. QED
  BY <1>1, <1>4, <1>5, <1>6, <1>7, InvOfParts DEF RolesInv, TypeOK

\* A step of the handler of request r preserves RolesInv if what it writes is sound.
LEMMA HandlerFrame ==
  ASSUME RolesInv, NEW r \in Requests, NEW q \in Request, Step(r, q),
         UNCHANGED <<refresh, given>>, Pointers(alias', object'),
         role' \in [Ids -> MaybeSets],
         \A i \in Ids : role'[i] = role[i] \/ Given(given, i, role'[i]),
         \A h \in Holders : object'[h] = object[h] \/ Given(given, h[2], object'[h]),
         \A w \in Requests \ {r}, i \in Ids :
           object'[<<w, i>>] = Absent <=> object[<<w, i>>] = Absent,
         RequestSound(r, q, object'),
         \A i \in Ids :
           /\ q.image[i] = req[r].image[i] \/ Given(given, i, q.image[i])
           /\ q.new[i] = req[r].new[i] \/ Given(given, i, q.new[i])
  PROVE  RolesInv'
<1>1. RequestsSound' /\ req' \in [Requests -> Request]
  BY StepSound DEF RolesInv
<1>2. ASSUME NEW w \in Requests
      PROVE  req'[w] = IF w = r THEN q ELSE req[w]
  BY DEF Step, RolesInv, TypeOK
<1>3. CopiesGiven'
  BY <1>2, CopiesStay DEF RolesInv
<1>4. QED
  BY <1>1, <1>3, InvOfParts DEF RolesInv, TypeOK

\* The handler of request r is where it is, with what it holds.
LEMMA HandlerFacts ==
  ASSUME RolesInv, NEW r \in Requests
  PROVE  /\ req[r] \in Request /\ RequestSound(r, req[r], object)
         /\ req[r].todo \in Seq(Ids) /\ req[r].updated \in Seq(Ids)
         /\ req[r].new \in [Ids -> Sets] /\ req[r].image \in [Ids -> MaybeSets]
         /\ Pointers(alias, object) /\ role \in [Ids -> MaybeSets]
         /\ \A i \in Ids : <<r, i>> \in Holders /\ <<r, i>>[2] = i
         /\ \A i \in Ids : Given(given, i, req[r].new[i]) /\ Given(given, i, req[r].image[i])
         /\ \A h \in Holders : Given(given, h[2], object[h])
BY RequestFields, PointersOfInv, HolderFacts DEF RolesInv, TypeOK, RequestsSound, CopiesGiven

\* Every holder of the object that is changed sees the actions that were asked for.
LEMMA ChangeRoleInv ==
  ASSUME RolesInv, NEW r \in Requests, ChangeRole(r)
  PROVE  RolesInv'
<1> DEFINE old == req[r]
           i == Head(old.todo)
           A == old.new[i]
<1>1. /\ old.pc = "change" /\ old.todo # <<>> /\ role' = role /\ alias' = alias
      /\ refresh' = refresh /\ given' = given
      /\ object' = [h \in Holders |-> IF h \in alias[<<r, i>>] THEN A ELSE object[h]]
  BY DEF ChangeRole
<1>2. PICK changed \in BOOLEAN :
        Step(r, [old EXCEPT !.todo = Tail(old.todo),
                   !.updated = IF changed THEN Append(old.updated, i) ELSE old.updated])
  BY DEF ChangeRole
<1> DEFINE q == [old EXCEPT !.todo = Tail(old.todo),
                   !.updated = IF changed THEN Append(old.updated, i) ELSE old.updated]
<1>3. /\ old \in Request /\ RequestSound(r, old, object)
      /\ old.todo \in Seq(Ids) /\ old.updated \in Seq(Ids) /\ old.new \in [Ids -> Sets]
      /\ Pointers(alias, object)
      /\ \A k \in Ids : <<r, k>> \in Holders /\ <<r, k>>[2] = k
      /\ \A k \in Ids : Given(given, k, old.new[k])
  BY HandlerFacts
<1>4. i \in Ids /\ i \in SetOf(old.todo)
  BY <1>1, <1>3, ListFacts
<1>5. A \in Sets /\ A # Absent /\ Given(given, i, A)
  BY <1>3, <1>4, AbsentIsNoSet
<1>6. Tail(old.todo) \in Seq(Ids) /\ SetOf(Tail(old.todo)) \subseteq SetOf(old.todo)
  BY <1>1, <1>3, ListFacts
<1> DEFINE up == IF changed THEN Append(old.updated, i) ELSE old.updated
<1>7. up \in Seq(Ids) /\ SetOf(up) \subseteq SetOf(old.updated) \cup {i}
  BY <1>3, <1>4, ListFacts
<1> HIDE DEF up
<1>8. /\ q \in Request /\ q.pc = "change" /\ q.server = old.server
      /\ q.todo = Tail(old.todo) /\ q.updated = up
      /\ q.new = old.new /\ q.image = old.image
  <2>1. q = [old EXCEPT !.todo = Tail(old.todo), !.updated = up]
    BY DEF up
  <2> HIDE DEF q
  <2>2. QED
    BY <1>1, <1>3, <1>6, <1>7, <2>1 DEF Request
<1> HIDE DEF q, A, i
<1>9. ASSUME NEW h \in Holders
      PROVE  object'[h] = IF h \in alias[<<r, i>>] THEN A ELSE object[h]
  BY <1>1 DEF A, i
<1>10. Pointers(alias', object')
  <2>1. object' \in [Holders -> MaybeSets]
    BY <1>1, <1>3, <1>5, AbsentIsNoSet DEF A, i, Pointers
  <2>2. ASSUME NEW h \in Holders
        PROVE  /\ alias[h] # {} <=> object'[h] # Absent
               /\ \A g \in alias[h] :
                    alias[g] = alias[h] /\ object'[g] = object'[h] /\ g[2] = h[2]
    <3>1. h \in alias[<<r, i>>] => alias[h] # {}
      BY <1>3, <1>4 DEF Pointers
    <3>2. ASSUME NEW g \in alias[h]
          PROVE  alias[g] = alias[h] /\ object'[g] = object'[h] /\ g[2] = h[2]
      <4>1. g \in Holders /\ alias[g] = alias[h] /\ object[g] = object[h] /\ g[2] = h[2]
            /\ h \in alias[h] /\ g \in alias[g]
        BY <1>3 DEF Pointers
      <4>2. h \in alias[<<r, i>>] => alias[h] = alias[<<r, i>>]
        BY <1>3, <1>4 DEF Pointers
      <4>3. g \in alias[<<r, i>>] => alias[g] = alias[<<r, i>>]
        BY <1>3, <1>4 DEF Pointers
      <4>4. g \in alias[<<r, i>>] <=> h \in alias[<<r, i>>]
        BY <4>1, <4>2, <4>3
      <4>5. QED
        BY <1>9, <4>1, <4>4
    <3>3. alias[h] # {} <=> object'[h] # Absent
      BY <1>3, <1>5, <1>9, <3>1 DEF Pointers
    <3>4. QED
      BY <3>2, <3>3
  <2>3. \A h \in Holders : alias[h] # {} => h \in alias[h]
    BY <1>3 DEF Pointers
  <2>4. alias' = alias /\ alias \in [Holders -> SUBSET Holders]
    BY <1>1, <1>3 DEF Pointers
  <2>5. QED
    BY <2>1, <2>2, <2>3, <2>4 DEF Pointers
<1>11. ASSUME NEW h \in Holders
       PROVE  /\ object'[h] = object[h] \/ Given(given, h[2], object'[h])
              /\ object'[h] = Absent <=> object[h] = Absent
  <2>1. CASE h \in alias[<<r, i>>]
    <3>1. h[2] = i /\ alias[h] # {}
      BY <1>3, <1>4, <2>1 DEF Pointers
    <3>2. object[h] # Absent
      BY <1>3, <3>1 DEF Pointers
    <3>3. QED
      BY <1>5, <1>9, <2>1, <3>1, <3>2
  <2>2. CASE h \notin alias[<<r, i>>]
    BY <1>9, <2>2
  <2>3. QED
    BY <2>1, <2>2
<1>12. RequestSound(r, q, object')
  <2>1. \A k \in SetOf(q.todo) \cup SetOf(q.updated) :
          k \in SetOf(old.todo) \cup SetOf(old.updated)
    BY <1>4, <1>6, <1>7, <1>8
  <2>2. \A k \in SetOf(old.todo) \cup SetOf(old.updated) :
          k \in Ids /\ object[<<r, k>>] # Absent
    BY <1>3, ListFacts DEF RequestSound
  <2>3. \A k \in SetOf(q.todo) \cup SetOf(q.updated) : object'[<<r, k>>] # Absent
    BY <1>3, <1>11, <2>1, <2>2
  <2>4. QED
    BY <1>1, <1>3, <1>8, <2>3 DEF RequestSound
<1>13. \A w \in Requests \ {r}, k \in Ids :
         object'[<<w, k>>] = Absent <=> object[<<w, k>>] = Absent
  BY <1>11, HolderFacts
<1>14. Step(r, q)
  BY <1>2 DEF q, i
<1>15. QED
  BY <1>1, <1>8, <1>10, <1>11, <1>12, <1>13, <1>14, HandlerFrame DEF RolesInv, TypeOK

\* The rows a transaction has written or is about to write hold what objects hold.
LEMMA MarshalInv ==
  ASSUME RolesInv, NEW r \in Requests, Marshal(r)
  PROVE  RolesInv'
<1> DEFINE old == req[r]
           b == BeginTx(old)
           i == Head(b.todo)
           q == [b EXCEPT !.pc = "write", !.image = [b.image EXCEPT ![i] = object[<<r, i>>]]]
<1>1. /\ b.pc = "marshal" /\ UNCHANGED <<role, alias, object, refresh, given>>
      /\ Step(r, [b EXCEPT !.pc = "write", !.image[i] = object[<<r, i>>]])
  BY DEF Marshal, memory
<1>2. /\ old \in Request /\ RequestSound(r, old, object)
      /\ old.todo \in Seq(Ids) /\ old.updated \in Seq(Ids)
      /\ old.new \in [Ids -> Sets] /\ old.image \in [Ids -> MaybeSets]
      /\ Pointers(alias, object)
      /\ \A k \in Ids : <<r, k>> \in Holders /\ <<r, k>>[2] = k
      /\ \A h \in Holders : Given(given, h[2], object[h])
  BY HandlerFacts
<1>3. /\ b \in Request /\ b.server = old.server /\ b.image = old.image
      /\ b.todo # <<>> /\ b.todo \in Seq(Ids) /\ b.updated = old.updated
      /\ SetOf(b.todo) \subseteq SetOf(old.todo) \cup SetOf(old.updated)
      /\ b.new = old.new \/ b.new = NoActions
      /\ old.server \in Servers
  <2>1. CASE old.pc = "change" /\ old.todo = <<>> /\ old.updated # <<>>
    <3>1. b = [old EXCEPT !.pc = "marshal", !.todo = old.updated, !.new = NoActions]
      BY <2>1 DEF BeginTx
    <3>2. NoActions \in [Ids -> Sets]
      BY DEF NoActions, Sets
    <3> HIDE DEF b
    <3>3. /\ b \in Request /\ b.server = old.server /\ b.image = old.image
          /\ b.todo = old.updated /\ b.updated = old.updated /\ b.new = NoActions
      BY <1>2, <3>1, <3>2 DEF Request
    <3>4. QED
      BY <1>2, <2>1, <3>3 DEF RequestSound
  <2>2. CASE ~(old.pc = "change" /\ old.todo = <<>> /\ old.updated # <<>>)
    <3>1. b = old
      BY <2>2 DEF BeginTx
    <3>2. QED
      BY <1>1, <1>2, <3>1 DEF RequestSound
  <2>3. QED
    BY <2>1, <2>2
<1> HIDE DEF b
<1>4. i \in Ids
  BY <1>3, ListFacts
<1> DEFINE im == [b.image EXCEPT ![i] = object[<<r, i>>]]
<1>5. im \in [Ids -> MaybeSets]
  BY <1>2, <1>3, <1>4 DEF Pointers
<1>6. /\ q \in Request /\ q.pc = "write" /\ q.server = b.server /\ q.todo = b.todo
      /\ q.updated = b.updated /\ q.new = b.new /\ q.image = im
  <2> HIDE DEF im
  <2>1. q = [b EXCEPT !.pc = "write", !.image = im]
    BY DEF im
  <2> HIDE DEF q
  <2>2. QED
    BY <1>3, <1>5, <2>1 DEF Request
<1>7. Step(r, q)
  BY <1>1
<1> HIDE DEF q
<1>8. \A k \in Ids : q.image[k] = old.image[k] \/ Given(given, k, q.image[k])
  BY <1>2, <1>3, <1>4, <1>6
<1>9. \A k \in Ids : q.new[k] = old.new[k] \/ Given(given, k, q.new[k])
  BY <1>3, <1>6 DEF NoActions, Given
<1>10. RequestSound(r, q, object)
  BY <1>2, <1>3, <1>6 DEF RequestSound
<1>11. QED
  <2>1. RequestSound(r, q, object') /\ Pointers(alias', object') /\ role' = role
        /\ object' = object /\ UNCHANGED <<refresh, given>>
    BY <1>1, <1>2, <1>10
  <2>2. role \in [Ids -> MaybeSets]
    BY DEF RolesInv, TypeOK
  <2>3. QED
    BY <1>6, <1>7, <1>8, <1>9, <2>1, <2>2, HandlerFrame

\* What request r puts in the cache of its server is what it holds.
LEMMA SetCacheFrame ==
  ASSUME RolesInv, NEW r \in Requests, NEW q \in Request, Step(r, q),
         req[r].pc # "none", UNCHANGED <<role, refresh, given>>,
         NEW I \in SUBSET Ids, \A i \in I : object[<<r, i>>] # Absent,
         NEW H, H = {} \/ H = Entries(r), SetCache(r, req[r].server, I, H),
         \A ob : (\A i \in Ids : ob[<<r, i>>] = IF H = {} THEN object[<<r, i>>] ELSE Absent)
                   => RequestSound(r, q, ob),
         \A i \in Ids :
           /\ q.image[i] = req[r].image[i] \/ Given(given, i, q.image[i])
           /\ q.new[i] = req[r].new[i] \/ Given(given, i, q.new[i])
  PROVE  RolesInv'
<1>1. /\ Pointers(alias, object) /\ role \in [Ids -> MaybeSets] /\ req[r].server \in Servers
      /\ \A i \in Ids : <<r, i>> \in Holders /\ <<r, i>>[2] = i /\ <<r, i>>[1] = r
      /\ \A h \in Holders : Given(given, h[2], object[h])
  BY HandlerFacts DEF RequestSound
<1>2. \A i \in I : alias[<<r, i>>] # {}
  BY <1>1 DEF Pointers
<1>s. PICK s \in Servers : s = req[r].server
  BY <1>1
<1>3. /\ Pointers(alias', object')
      /\ \A h \in Holders :
           object'[h] = IF h[1] = s /\ h[2] \in I THEN object[<<r, h[2]>>]
                        ELSE IF h \in H THEN Absent ELSE object[h]
  <2>1. SetCache(r, s, I, H)
    BY <1>s DEF SetCache
  <2>2. QED
    BY <1>1, <1>2, <2>1, SetCachePointers, SMTT(30)
<1>4. ASSUME NEW h \in Holders
      PROVE  object'[h] = object[h] \/ Given(given, h[2], object'[h])
  <2>1. h[2] \in Ids /\ Given(given, h[2], object[<<r, h[2]>>])
    BY <1>1, HolderFacts
  <2>2. Given(given, h[2], Absent)
    BY DEF Given
  <2>3. QED
    BY <1>3, <2>1, <2>2
<1>5. ASSUME NEW w \in Requests, NEW i \in Ids
      PROVE  object'[<<w, i>>] = IF <<w, i>> \in H THEN Absent ELSE object[<<w, i>>]
  <2>1. <<w, i>> \in Holders /\ <<w, i>>[1] # s
    BY <1>1, HolderFacts
  <2>2. QED
    BY <1>3, <2>1
<1>6. \A w \in Requests \ {r}, i \in Ids :
        object'[<<w, i>>] = Absent <=> object[<<w, i>>] = Absent
  BY <1>5 DEF Entries
<1>7. RequestSound(r, q, object')
  BY <1>5 DEF Entries
<1>8. role' = role /\ UNCHANGED <<refresh, given>>
  OBVIOUS
<1>9. QED
  BY <1>1, <1>3, <1>4, <1>6, <1>7, <1>8, HandlerFrame

\* The cache is set right after the UPDATE, whether or not it is committed.
LEMMA WriteRoleInv ==
  ASSUME RolesInv, NEW r \in Requests, WriteRole(r)
  PROVE  RolesInv'
<1> DEFINE old == req[r]
           i == Head(old.todo)
           pc == IF Tail(old.todo) = <<>> THEN "commit" ELSE "marshal"
           q == [old EXCEPT !.pc = pc, !.todo = Tail(old.todo)]
<1>1. /\ old.pc = "write" /\ SetCache(r, old.server, {i}, {}) /\ Step(r, q)
      /\ UNCHANGED <<role, refresh, given>>
  BY DEF WriteRole
<1>2. /\ old \in Request /\ RequestSound(r, old, object)
      /\ old.todo \in Seq(Ids) /\ old.updated \in Seq(Ids)
  BY HandlerFacts
<1>3. old.todo # <<>> /\ old.server \in Servers
  BY <1>1, <1>2 DEF RequestSound
<1>4. /\ i \in Ids /\ i \in SetOf(old.todo)
      /\ Tail(old.todo) \in Seq(Ids) /\ SetOf(Tail(old.todo)) \subseteq SetOf(old.todo)
  BY <1>2, <1>3, ListFacts
<1>5. /\ q \in Request /\ q.pc = pc /\ q.server = old.server /\ q.todo = Tail(old.todo)
      /\ q.updated = old.updated /\ q.new = old.new /\ q.image = old.image
  BY <1>2, <1>4 DEF Request
<1>6. ASSUME NEW ob, \A k \in Ids : ob[<<r, k>>] = object[<<r, k>>]
      PROVE  RequestSound(r, q, ob)
  <2>1. SetOf(old.todo) \subseteq Ids /\ SetOf(old.updated) \subseteq Ids
    BY <1>2, ListFacts
  <2>2. \A k \in SetOf(q.todo) \cup SetOf(q.updated) : ob[<<r, k>>] # Absent
    BY <1>2, <1>4, <1>5, <1>6, <2>1 DEF RequestSound
  <2> HIDE DEF q
  <2>3. QED
    BY <1>3, <1>5, <2>2 DEF RequestSound
<1>7. {i} \in SUBSET Ids /\ \A k \in {i} : object[<<r, k>>] # Absent
  BY <1>2, <1>4 DEF RequestSound
<1> HIDE DEF q, i
<1>8. QED
  BY <1>1, <1>5, <1>6, <1>7, SetCacheFrame

\* The commit makes rows of what was written.
LEMMA CommitInv ==
  ASSUME RolesInv, NEW r \in Requests, Commit(r)
  PROVE  RolesInv'
<1> DEFINE old == req[r]
           q == [old EXCEPT !.pc = "again", !.image = NoRoles]
<1>1. /\ old.pc = "commit" /\ Step(r, q) /\ UNCHANGED <<alias, object, refresh, given>>
      /\ role' = [i \in Ids |-> IF old.image[i] # Absent THEN old.image[i] ELSE role[i]]
  BY DEF Commit, memory
<1>2. /\ old \in Request /\ RequestSound(r, old, object)
      /\ old.image \in [Ids -> MaybeSets]
      /\ Pointers(alias, object) /\ role \in [Ids -> MaybeSets]
      /\ \A i \in Ids : Given(given, i, old.image[i])
  BY HandlerFacts
<1>3. NoRoles \in [Ids -> MaybeSets]
  BY AbsentIsNoSet DEF NoRoles
<1>4. /\ q \in Request /\ q.pc = "again" /\ q.server = old.server /\ q.todo = old.todo
      /\ q.updated = old.updated /\ q.new = old.new /\ q.image = NoRoles
  BY <1>2, <1>3 DEF Request
<1> HIDE DEF q
<1>5. RequestSound(r, q, object)
  BY <1>1, <1>2, <1>4 DEF RequestSound
<1>6. \A i \in Ids : Given(given, i, q.image[i])
  BY <1>4 DEF NoRoles, Given
<1>7. role' \in [Ids -> MaybeSets]
  BY <1>1, <1>2
<1>8. \A i \in Ids : role'[i] = role[i] \/ Given(given, i, role'[i])
  BY <1>1, <1>2
<1>9. /\ Pointers(alias', object') /\ RequestSound(r, q, object')
      /\ object' = object /\ UNCHANGED <<refresh, given>>
  BY <1>1, <1>2, <1>5
<1>10. QED
  BY <1>1, <1>4, <1>6, <1>7, <1>8, <1>9, HandlerFrame

\* A request that ends.
LEMMA NoRequestSound ==
  ASSUME NEW r, NEW ob, \A i \in Ids : ob[<<r, i>>] = Absent
  PROVE  RequestSound(r, NoRequest, ob)
BY NoRequestTyped, ListFacts DEF RequestSound

\* The second time the cache is set, the request lets go of what it put there.
LEMMA CacheAgainInv ==
  ASSUME RolesInv, NEW r \in Requests, CacheAgain(r)
  PROVE  RolesInv'
<1> DEFINE I == SetOf(req[r].updated)
<1>1. /\ req[r].pc = "again" /\ SetCache(r, req[r].server, I, Entries(r)) /\ Step(r, NoRequest)
      /\ UNCHANGED <<role, refresh, given>>
  BY DEF CacheAgain
<1>2. RequestSound(r, req[r], object) /\ req[r].updated \in Seq(Ids)
  BY HandlerFacts
<1>3. I \in SUBSET Ids /\ \A i \in I : object[<<r, i>>] # Absent
  BY <1>2, ListFacts DEF RequestSound
<1>4. \A i \in Ids :
        Given(given, i, NoRequest.image[i]) /\ Given(given, i, NoRequest.new[i])
  BY NoRequestTyped DEF Given
<1>5. \A ob : (\A i \in Ids : ob[<<r, i>>] = IF Entries(r) = {} THEN object[<<r, i>>] ELSE Absent)
                => RequestSound(r, NoRequest, ob)
  <2>1. Entries(r) # {}
    <3>1. 1 \in Ids
      BY RolesAssumption DEF Ids
    <3>2. <<r, 1>> \in Entries(r)
      BY <3>1 DEF Entries
    <3>3. QED
      BY <3>2
  <2>2. QED
    BY <2>1, NoRequestSound
<1> HIDE DEF I
<1>6. QED
  BY <1>1, <1>3, <1>4, <1>5, NoRequestTyped, SetCacheFrame

\* An answer leaves objects and caches as they are.
LEMMA AnswerInv ==
  ASSUME RolesInv, NEW r \in Requests, Answer(r)
  PROVE  RolesInv'
<1>1. Step(r, NoRequest) /\ Detached(Entries(r)) /\ UNCHANGED <<role, refresh, given>>
  BY DEF Answer
<1>2. Entries(r) \in SUBSET Holders
  BY HolderFacts DEF Entries
<1>3. Pointers(alias, object) /\ role \in [Ids -> MaybeSets]
  BY HandlerFacts
<1>4. /\ Pointers(alias', object')
      /\ \A h \in Holders \ Entries(r) : object'[h] = object[h]
      /\ \A h \in Entries(r) : object'[h] = Absent
  BY <1>1, <1>2, <1>3, DetachedPointers
<1>5. \A h \in Holders : object'[h] = object[h] \/ Given(given, h[2], object'[h])
  BY <1>4 DEF Given
<1>6. \A w \in Requests \ {r}, i \in Ids :
        object'[<<w, i>>] = Absent <=> object[<<w, i>>] = Absent
  <2>1. \A w \in Requests \ {r}, i \in Ids : <<w, i>> \in Holders \ Entries(r)
    BY HolderFacts DEF Entries
  <2>2. QED
    BY <1>4, <2>1
<1>7. RequestSound(r, NoRequest, object')
  <2>1. \A i \in Ids : <<r, i>> \in Entries(r)
    BY DEF Entries
  <2>2. QED
    BY <1>4, <2>1, NoRequestSound
<1>8. \A i \in Ids :
        Given(given, i, NoRequest.image[i]) /\ Given(given, i, NoRequest.new[i])
  BY NoRequestTyped DEF Given
<1>9. QED
  BY <1>1, <1>3, <1>4, <1>5, <1>6, <1>7, <1>8, NoRequestTyped, HandlerFrame

-----------------------------------------------------------------------------
(* The refresh of a cache, and a restart.                                  *)

\* A step of the refresh of server s that leaves the requests as they are.
LEMMA RefreshFrame ==
  ASSUME RolesInv, NEW s \in Servers, UNCHANGED <<role, req, given>>,
         refresh' \in [Servers -> Refresh], Pointers(alias', object'),
         \A h \in Holders : h[1] # s => object'[h] = object[h],
         \A h \in Holders : object'[h] = object[h] \/ Given(given, h[2], object'[h]),
         \A x \in Servers, i \in Ids :
           \/ refresh'[x].read[i] = refresh[x].read[i]
           \/ Given(given, i, refresh'[x].read[i])
  PROVE  RolesInv'
<1>1. ASSUME NEW r \in Requests
      PROVE  RequestSound(r, req[r], object')
  <2>1. \A i \in Ids : object'[<<r, i>>] = object[<<r, i>>]
    BY HolderFacts
  <2>2. req[r] \in Request /\ RequestSound(r, req[r], object)
    BY HandlerFacts
  <2>3. QED
    BY <2>1, <2>2, OtherRequestSound
<1>2. RequestsSound'
  BY <1>1 DEF RequestsSound
<1>3. CopiesGiven'
  BY CopiesStay DEF RolesInv
<1>4. QED
  BY <1>2, <1>3, InvOfParts DEF RolesInv, TypeOK

\* What a refresh reads is in the table.
LEMMA ReadRolesInv ==
  ASSUME RolesInv, NEW s \in Servers, ReadRoles(s)
  PROVE  RolesInv'
<1>1. /\ refresh' = [refresh EXCEPT ![s] = [pc |-> "flush", read |-> role]]
      /\ UNCHANGED <<role, alias, object, req, given>>
  BY DEF ReadRoles, StoredRoles, memory
<1>2. role \in [Ids -> MaybeSets] /\ refresh \in [Servers -> Refresh] /\ Pointers(alias, object)
  BY PointersOfInv DEF RolesInv, TypeOK
<1>3. refresh' \in [Servers -> Refresh]
  BY <1>1, <1>2 DEF Refresh
<1>4. ASSUME NEW x \in Servers, NEW i \in Ids
      PROVE  \/ refresh'[x].read[i] = refresh[x].read[i]
             \/ Given(given, i, refresh'[x].read[i])
  <2>1. Given(given, i, role[i])
    BY DEF RolesInv, CopiesGiven
  <2>2. QED
    BY <1>1, <1>2, <2>1
<1>5. Pointers(alias', object') /\ object' = object
  BY <1>1, <1>2
<1>6. QED
  BY <1>1, <1>3, <1>4, <1>5, RefreshFrame

\* Requests keep the objects a flush takes from the cache.
LEMMA FlushInv ==
  ASSUME RolesInv, NEW s \in Servers, Flush(s)
  PROVE  RolesInv'
<1>1. /\ refresh' = [refresh EXCEPT ![s].pc = "set"] /\ Detached(Entries(s))
      /\ UNCHANGED <<role, req, given>>
  BY DEF Flush
<1>2. refresh \in [Servers -> Refresh] /\ Pointers(alias, object)
  BY PointersOfInv DEF RolesInv, TypeOK
<1>3. /\ refresh' \in [Servers -> Refresh]
      /\ \A x \in Servers : refresh'[x].read = refresh[x].read
  BY <1>1, <1>2 DEF Refresh
<1>4. Entries(s) \in SUBSET Holders
  BY HolderFacts DEF Entries
<1>5. /\ Pointers(alias', object')
      /\ \A h \in Holders \ Entries(s) : object'[h] = object[h]
      /\ \A h \in Entries(s) : object'[h] = Absent
  BY <1>1, <1>2, <1>4, DetachedPointers
<1>6. \A h \in Holders : h[1] # s => object'[h] = object[h]
  BY <1>5 DEF Entries
<1>7. \A h \in Holders : object'[h] = object[h] \/ Given(given, h[2], object'[h])
  BY <1>5 DEF Given
<1>8. QED
  BY <1>1, <1>3, <1>5, <1>6, <1>7, RefreshFrame

\* The objects a refresh puts in the cache hold what it read.
LEMMA SetEntriesInv ==
  ASSUME RolesInv, NEW s \in Servers, SetEntries(s)
  PROVE  RolesInv'
<1>1. refresh' = [refresh EXCEPT ![s] = IdleRefresh] /\ UNCHANGED <<role, req, given>>
  BY DEF SetEntries
<1>2. TypeOK /\ refresh \in [Servers -> Refresh] /\ Pointers(alias, object)
  BY PointersOfInv DEF RolesInv, TypeOK
<1>3. refresh' \in [Servers -> Refresh]
  BY <1>1, <1>2, NoRequestTyped
<1>4. /\ Pointers(alias', object')
      /\ \A h \in Holders :
           object'[h] = IF h[1] = s /\ refresh[s].read[h[2]] # Absent
                        THEN refresh[s].read[h[2]] ELSE object[h]
  BY <1>2, SetEntriesPointers
<1>5. \A h \in Holders : object'[h] = object[h] \/ Given(given, h[2], object'[h])
  BY <1>4, HolderFacts DEF RolesInv, CopiesGiven
<1>6. \A x \in Servers, i \in Ids :
        \/ refresh'[x].read[i] = refresh[x].read[i]
        \/ Given(given, i, refresh'[x].read[i])
  BY <1>1, <1>2 DEF IdleRefresh, NoRoles, Given
<1>7. QED
  BY <1>1, <1>3, <1>4, <1>5, <1>6, RefreshFrame

\* A server that dies takes its requests along.
LEMMA RestartInv ==
  ASSUME RolesInv, NEW s \in Servers, Restart(s)
  PROVE  RolesInv'
<1> DEFINE mine == {r \in Requests : req[r].server = s}
           H == ({s} \cup mine) \X Ids
<1>1. /\ refresh' = [refresh EXCEPT ![s] = [pc |-> "set", read |-> role]]
      /\ req' = [r \in Requests |-> IF r \in mine THEN NoRequest ELSE req[r]]
      /\ Detached(H) /\ role' = role /\ given' = given
  BY DEF Restart
<1>2. /\ role \in [Ids -> MaybeSets] /\ refresh \in [Servers -> Refresh]
      /\ req \in [Requests -> Request] /\ Pointers(alias, object)
  BY PointersOfInv DEF RolesInv, TypeOK
<1>3. H \in SUBSET Holders
  BY HolderFacts
<1>4. /\ Pointers(alias', object')
      /\ \A h \in Holders \ H : object'[h] = object[h]
      /\ \A h \in H : object'[h] = Absent
  <2> HIDE DEF H
  <2>1. QED
    BY <1>1, <1>2, <1>3, DetachedPointers
<1>5. refresh' \in [Servers -> Refresh]
  BY <1>1, <1>2 DEF Refresh
<1>6. req' \in [Requests -> Request]
  BY <1>1, <1>2, NoRequestTyped
<1>7. ASSUME NEW r \in Requests
      PROVE  RequestSound(r, req'[r], object')
  <2>1. CASE r \in mine
    <3>1. \A i \in Ids : object'[<<r, i>>] = Absent
      BY <1>4, <2>1
    <3>2. req'[r] = NoRequest
      BY <1>1, <2>1
    <3>3. QED
      BY <3>1, <3>2, NoRequestSound
  <2>2. CASE r \notin mine
    <3>1. \A i \in Ids : <<r, i>> \in Holders \ H
      BY <2>2, HolderFacts
    <3>2. \A i \in Ids : object'[<<r, i>>] = object[<<r, i>>]
      BY <1>4, <3>1
    <3>3. req'[r] = req[r] /\ req[r] \in Request /\ RequestSound(r, req[r], object)
      BY <1>1, <2>2, HandlerFacts
    <3>4. QED
      BY <3>2, <3>3, OtherRequestSound
  <2>3. QED
    BY <2>1, <2>2
<1>8. RequestsSound'
  BY <1>7 DEF RequestsSound
<1> HIDE DEF H, mine
<1>9. CopiesGiven'
  <2>1. \A h \in Holders : object'[h] = object[h] \/ Given(given', h[2], object'[h])
    BY <1>4 DEF Given
  <2>2. ASSUME NEW x \in Servers, NEW i \in Ids
        PROVE  \/ refresh'[x].read[i] = refresh[x].read[i]
               \/ Given(given', i, refresh'[x].read[i])
    <3>1. Given(given, i, role[i])
      BY DEF RolesInv, CopiesGiven
    <3>2. QED
      BY <1>1, <1>2, <3>1
  <2>3. ASSUME NEW r \in Requests, NEW i \in Ids
        PROVE  /\ req'[r].image[i] = req[r].image[i] \/ Given(given', i, req'[r].image[i])
               /\ req'[r].new[i] = req[r].new[i] \/ Given(given', i, req'[r].new[i])
    <3>1. Given(given', i, NoRequest.image[i]) /\ Given(given', i, NoRequest.new[i])
      BY NoRequestTyped DEF Given
    <3>2. req'[r] = NoRequest \/ req'[r] = req[r]
      BY <1>1
    <3>3. QED
      BY <3>1, <3>2
  <2>4. QED
    BY <1>1, <2>1, <2>2, <2>3, CopiesStay DEF RolesInv
<1>10. QED
  BY <1>1, <1>2, <1>4, <1>5, <1>6, <1>8, <1>9, InvOfParts DEF RolesInv, TypeOK

-----------------------------------------------------------------------------
(* Theorems.                                                               *)

\* Every step preserves RolesInv.
LEMMA StepRolesInv ==
  ASSUME RolesInv, [Next]_vars
  PROVE  RolesInv'
<1>1. CASE \E s \in Servers, u \in Ids :
             \/ \E A \in Choices \ {{}} : CreateRole(s, u, A)
             \/ \E r \in Requests : \E ids \in ListsOf[r] : \E new \in [SetOf(ids) -> Choices] :
                  UpdateRoles(r, s, u, ids, [i \in Ids |-> IF i \in SetOf(ids) THEN new[i] ELSE {}])
  <2>1. PICK s \in Servers, u \in Ids :
             \/ \E A \in Choices \ {{}} : CreateRole(s, u, A)
             \/ \E r \in Requests : \E ids \in ListsOf[r] : \E new \in [SetOf(ids) -> Choices] :
                  UpdateRoles(r, s, u, ids, [i \in Ids |-> IF i \in SetOf(ids) THEN new[i] ELSE {}])
    BY <1>1
  <2>2. CASE \E A \in Choices \ {{}} : CreateRole(s, u, A)
    BY <2>2, CreateRoleInv
  <2>3. CASE \E r \in Requests : \E ids \in ListsOf[r] : \E new \in [SetOf(ids) -> Choices] :
               UpdateRoles(r, s, u, ids, [i \in Ids |-> IF i \in SetOf(ids) THEN new[i] ELSE {}])
    BY <2>3, UpdateRolesInv
  <2>4. QED
    BY <2>1, <2>2, <2>3
<1>2. ASSUME NEW r \in Requests, HandlerStep(r)
      PROVE  RolesInv'
  BY <1>2, ChangeRoleInv, MarshalInv, WriteRoleInv, CommitInv, CacheAgainInv, AnswerInv
     DEF HandlerStep
<1>3. ASSUME NEW s \in Servers, RefreshStep(s) \/ Restart(s)
      PROVE  RolesInv'
  BY <1>3, ReadRolesInv, FlushInv, SetEntriesInv, RestartInv DEF RefreshStep
<1>4. CASE UNCHANGED vars
  BY <1>4 DEF vars, memory, RolesInv, TypeOK, PointersSound, RequestsSound, CopiesGiven, Cached
<1>5. QED
  BY <1>1, <1>2, <1>3, <1>4 DEF Next

\* The table, the caches and the requests under way: no holder points to nothing, a
\* request keeps an object for every role it still has to do, and all that any of
\* them holds was given (src/repo/role.go, src/handler/role.go).
THEOREM RolesInvariant == Spec => []RolesInv
<1>1. Init => RolesInv
  BY InitRolesInv
<1>2. RolesInv /\ [Next]_vars => RolesInv'
  BY StepRolesInv
<1>3. QED
  BY <1>1, <1>2, PTL DEF Spec

\* The tables, the memory and the handlers keep their types, whoever shares an object
\* with whom (src/repo/role.go).
THEOREM TypeCorrect == Spec => []TypeOK
<1>1. RolesInv => TypeOK
  BY DEF RolesInv
<1>2. QED
  BY <1>1, RolesInvariant, PTL

\* No role has an action, in role_tab or in the cache of a server, that nobody
\* entitled to edit roles gave it, although a failed transaction of UpdateRoles leaves
\* its changes in the cache (src/handler/role.go, src/repo/role.go).
THEOREM GivenHolds == Spec => []ActionsGiven
<1>1. RolesInv => ActionsGiven
  <2>1. SUFFICES ASSUME RolesInv, NEW i \in Ids
                 PROVE  /\ role[i] # Absent => {i} \X role[i] \subseteq given
                        /\ \A s \in Servers : Cached(<<s, i>>) =>
                             {i} \X object[<<s, i>>] \subseteq given
    BY DEF ActionsGiven
  <2>2. role[i] # Absent => {i} \X role[i] \subseteq given
    BY <2>1 DEF RolesInv, CopiesGiven, Given
  <2>3. ASSUME NEW s \in Servers, Cached(<<s, i>>)
        PROVE  {i} \X object[<<s, i>>] \subseteq given
    <3>1. <<s, i>> \in Holders /\ <<s, i>>[2] = i
      BY HolderFacts
    <3>2. object[<<s, i>>] # Absent
      BY <2>1, <2>3, <3>1 DEF RolesInv, TypeOK
    <3>3. Given(given, i, object[<<s, i>>])
      BY <2>1, <3>1 DEF RolesInv, CopiesGiven
    <3>4. QED
      BY <3>2, <3>3 DEF Given
  <2>4. QED
    BY <2>2, <2>3
<1>2. QED
  BY <1>1, RolesInvariant, PTL

=============================================================================
