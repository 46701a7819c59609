--------------------------- MODULE AccountsProofs ---------------------------
(***************************************************************************)
(* Theorems about Accounts, for any emails, passwords, users, servers and  *)
(* requests.                                                               *)
(***************************************************************************)
EXTENDS Accounts, WellFoundedInduction, TLAPS

-----------------------------------------------------------------------------
(* The least of the users of a name.                                        *)

\* A set of natural numbers that is not empty has a least element.
LEMMA LeastExists ==
  ASSUME NEW T, T \subseteq Nat, T # {}
  PROVE  \E x \in T : \A y \in T : x <= y
<1>1. IsWellFoundedOn({p \in Nat \X Nat : p[1] < p[2]}, Nat)
  BY NatLessThanWellFounded DEF OpToRel
<1>2. PICK x \in T : \A y \in T : ~(<<y, x>> \in {p \in Nat \X Nat : p[1] < p[2]})
  BY <1>1, WFMin
<1>3. ASSUME NEW y \in T
      PROVE  x <= y
  <2>1. x \in Nat /\ y \in Nat /\ ~(y < x)
    BY <1>2
  <2>2. QED
    BY <2>1
<1>4. QED
  BY <1>3

\* What Min chooses for users.
LEMMA MinOfIds ==
  ASSUME NEW T, T \subseteq Ids, T # {}
  PROVE  Min(T) \in T
<1>1. MaxUsers \in Nat /\ T \subseteq 1..MaxUsers /\ T \subseteq Nat
  BY AccountsAssumption DEF Ids
<1>2. QED
  BY <1>1, LeastExists DEF Min

-----------------------------------------------------------------------------
(* Pointers and the objects they point to.                                 *)

\* A server has an entry for each user and name, and these and requests are holders.
LEMMA HolderFacts ==
  /\ \A s \in Servers, k \in Ids \cup Names : <<s, k>> \in Holders /\ <<s, k>> \notin Requests
  /\ \A r \in Requests : r \in Holders /\ \A s \in Servers : r \notin Keys(s)
  /\ \A s \in Servers : Keys(s) \subseteq Holders
  /\ \A u \in Ids : u \notin Names
<1>1. \A s \in Servers : Keys(s) \subseteq Holders
  BY DEF Holders
<1>2. \A s \in Servers, k \in Ids \cup Names : <<s, k>> \in Keys(s)
  BY DEF Keys
<1>3. \A s \in Servers : Keys(s) \subseteq Servers \X (Ids \cup Names)
  BY DEF Keys
<1>4. Requests \cap (Servers \X (Ids \cup Names)) = {} /\ Ids \cap Names = {}
  BY AccountsAssumption DEF Ids
<1>5. \A r \in Requests : r \in Holders
  BY DEF Holders
<1>6. QED
  BY <1>1, <1>2, <1>3, <1>4, <1>5

\* Nothing is an object of no user.
LEMMA BlankTyped ==
  /\ NoRow \in Row /\ Blank \in Object /\ Blank.is = NoRow /\ Blank.id = 0
  /\ NoRow.status = "none" /\ NoRow.password = None
BY DEF Blank, Object, NoRow, Row, Optional

\* What holds of the holders of one object.
LEMMA SharedFacts ==
  ASSUME NEW al, NEW ob, Pointers(al, ob), NEW h \in Holders, NEW g \in al[h]
  PROVE  /\ g \in Holders /\ al[g] = al[h] /\ ob[g] = ob[h]
         /\ h \in al[h] /\ ob[h] # Blank /\ al[h] # {}
BY DEF Pointers

\* Holders that let go of their objects leave the others as they were.  They are the
\* whole cache of a server, or none of it.
LEMMA DetachedPointers ==
  ASSUME Pointers(alias, user), KeysTrue(alias, user), NEW H \in SUBSET Holders, Detached(H),
         \A s \in Servers : Keys(s) \subseteq H \/ Keys(s) \cap H = {}
  PROVE  /\ Pointers(alias', user') /\ KeysTrue(alias', user')
         /\ \A h \in Holders : user'[h] = IF h \in H THEN Blank ELSE user[h]
<1>1. /\ alias' = [h \in Holders |-> IF h \in H THEN {} ELSE alias[h] \ H]
      /\ user' = [h \in Holders |-> IF h \in H THEN Blank ELSE user[h]]
  BY DEF Detached
<1>2. alias' \in [Holders -> SUBSET Holders] /\ user' \in [Holders -> Object]
  BY <1>1, BlankTyped DEF Pointers
<1>3. ASSUME NEW h \in Holders
      PROVE  /\ h \in H => alias'[h] = {} /\ user'[h] = Blank
             /\ h \notin H => alias'[h] = alias[h] \ H /\ user'[h] = user[h]
             /\ h \notin H /\ alias[h] # {} => h \in alias'[h]
  BY <1>1 DEF Pointers
<1>4. ASSUME NEW h \in Holders
      PROVE  /\ alias'[h] = {} <=> user'[h] = Blank
             /\ alias'[h] # {} => h \in alias'[h] /\ user'[h].id \in Ids
  BY <1>3 DEF Pointers
<1>5. ASSUME NEW h \in Holders, NEW g \in alias'[h]
      PROVE  alias'[g] = alias'[h] /\ user'[g] = user'[h]
  <2>1. h \notin H /\ g \in alias[h] /\ g \notin H
    BY <1>3, <1>5
  <2>2. g \in Holders /\ alias[g] = alias[h] /\ user[g] = user[h]
    BY <2>1, SharedFacts
  <2>3. QED
    BY <1>3, <2>1, <2>2
<1>6. Pointers(alias', user')
  BY <1>2, <1>4, <1>5 DEF Pointers
<1>7. ASSUME NEW s \in Servers, NEW u \in Ids, alias'[<<s, u>>] # {}
      PROVE  user'[<<s, u>>].id = u
  <2>1. <<s, u>> \in Holders
    BY HolderFacts
  <2>2. alias[<<s, u>>] # {} /\ user'[<<s, u>>] = user[<<s, u>>]
    BY <1>3, <1>7, <2>1
  <2>3. QED
    BY <2>2 DEF KeysTrue
<1>8. ASSUME NEW s \in Servers, NEW n \in Names, alias'[<<s, n>>] # {}
      PROVE  /\ NameOf[user'[<<s, n>>].is.email] = n
             /\ <<s, user'[<<s, n>>].id>> \in alias'[<<s, n>>]
  <2>1. <<s, n>> \in Holders /\ <<s, n>> \in Keys(s)
    BY HolderFacts DEF Keys
  <2>2. /\ <<s, n>> \notin H /\ alias'[<<s, n>>] = alias[<<s, n>>] \ H
        /\ alias[<<s, n>>] # {} /\ user'[<<s, n>>] = user[<<s, n>>]
    BY <1>3, <1>8, <2>1
  <2>3. /\ NameOf[user[<<s, n>>].is.email] = n
        /\ <<s, user[<<s, n>>].id>> \in alias[<<s, n>>]
    BY <2>2 DEF KeysTrue
  <2>4. Keys(s) \cap H = {}
    BY <2>1, <2>2
  <2>5. <<s, user[<<s, n>>].id>> \in Keys(s)
    <3>1. user[<<s, n>>].id \in Ids
      BY <2>1, <2>2 DEF Pointers
    <3>2. QED
      BY <3>1 DEF Keys
  <2>6. QED
    BY <2>2, <2>3, <2>4, <2>5
<1>9. KeysTrue(alias', user')
  BY <1>7, <1>8 DEF KeysTrue
<1>10. QED
  BY <1>1, <1>6, <1>9

\* A request gets an object of its own.
LEMMA PointsToNewPointers ==
  ASSUME Pointers(alias, user), KeysTrue(alias, user), NEW r \in Requests, user[r] = Blank,
         NEW o \in Object, o # Blank, o.id \in Ids, PointsToNew(r, o)
  PROVE  /\ Pointers(alias', user') /\ KeysTrue(alias', user')
         /\ \A h \in Holders : user'[h] = IF h = r THEN o ELSE user[h]
<1>1. /\ alias' = [h \in Holders |-> IF h = r THEN {r} ELSE alias[h] \ {r}]
      /\ user' = [user EXCEPT ![r] = o]
  BY DEF PointsToNew
<1>2. r \in Holders /\ alias[r] = {}
  BY HolderFacts DEF Pointers
<1>3. alias' \in [Holders -> SUBSET Holders] /\ user' \in [Holders -> Object]
  BY <1>1, <1>2 DEF Pointers
<1>4. ASSUME NEW h \in Holders
      PROVE  r \notin alias[h]
  BY <1>2, SharedFacts
<1>5. ASSUME NEW h \in Holders
      PROVE  /\ h = r => alias'[h] = {r} /\ user'[h] = o
             /\ h # r => alias'[h] = alias[h] /\ user'[h] = user[h]
  BY <1>1, <1>4 DEF Pointers
<1>6. ASSUME NEW h \in Holders
      PROVE  /\ alias'[h] = {} <=> user'[h] = Blank
             /\ alias'[h] # {} => h \in alias'[h] /\ user'[h].id \in Ids
  BY <1>5 DEF Pointers
<1>7. ASSUME NEW h \in Holders, NEW g \in alias'[h]
      PROVE  alias'[g] = alias'[h] /\ user'[g] = user'[h]
  <2>1. CASE h = r
    BY <1>2, <1>5, <1>7, <2>1
  <2>2. CASE h # r
    <3>1. g \in alias[h] /\ g # r
      BY <1>4, <1>5, <1>7, <2>2
    <3>2. g \in Holders /\ alias[g] = alias[h] /\ user[g] = user[h]
      BY <3>1, SharedFacts
    <3>3. QED
      BY <1>5, <2>2, <3>1, <3>2
  <2>3. QED
    BY <2>1, <2>2
<1>8. Pointers(alias', user')
  BY <1>3, <1>6, <1>7 DEF Pointers
<1>9. \A s \in Servers, k \in Ids \cup Names :
        alias'[<<s, k>>] = alias[<<s, k>>] /\ user'[<<s, k>>] = user[<<s, k>>]
  BY <1>5, HolderFacts
<1>10. KeysTrue(alias', user')
  BY <1>9 DEF KeysTrue
<1>11. QED
  BY <1>5, <1>8, <1>10

\* Holders join those of the object of h.
LEMMA JoinedPointers ==
  ASSUME Pointers(alias, user), NEW h \in Holders, alias[h] # {}, NEW G \in SUBSET Holders,
         Joined(h, G)
  PROVE  /\ Pointers(alias', user')
         /\ \A x \in Holders : user'[x] = IF x \in G THEN user[h] ELSE user[x]
         /\ \A x \in Holders : alias'[x] = IF x \in alias[h] \cup G THEN alias[h] \cup G
                                           ELSE alias[x] \ G
<1> DEFINE all == alias[h] \cup G
<1>1. /\ alias' = [x \in Holders |-> IF x \in all THEN all ELSE alias[x] \ G]
      /\ user' = [x \in Holders |-> IF x \in G THEN user[h] ELSE user[x]]
  BY DEF Joined
<1>2. all \in SUBSET Holders /\ user[h] \in Object /\ user[h] # Blank /\ user[h].id \in Ids
  BY DEF Pointers
<1>3. \A x \in alias[h] : user[x] = user[h] /\ alias[x] = alias[h] /\ x \in Holders
  BY SharedFacts
<1>4. ASSUME NEW x \in all
      PROVE  x \in Holders /\ alias'[x] = all /\ user'[x] = user[h]
  <2>1. x \in Holders /\ alias'[x] = all
    BY <1>1, <1>2
  <2>2. user'[x] = user[h]
    BY <1>1, <1>3, <2>1
  <2>3. QED
    BY <2>1, <2>2
<1>5. ASSUME NEW x \in Holders, x \notin all
      PROVE  /\ alias'[x] = alias[x] \ G /\ user'[x] = user[x] /\ x \notin G
             /\ \A g \in alias[x] : g \notin alias[h]
  <2>1. alias'[x] = alias[x] \ G /\ user'[x] = user[x] /\ x \notin G /\ x \notin alias[h]
    BY <1>1, <1>5
  <2>2. ASSUME NEW g \in alias[x], g \in alias[h]
        PROVE  FALSE
    <3>1. alias[g] = alias[x] /\ x \in alias[x]
      BY SharedFacts
    <3>2. alias[g] = alias[h]
      BY <1>3, <2>2
    <3>3. QED
      BY <2>1, <3>1, <3>2
  <2>3. QED
    BY <2>1, <2>2
<1>6. alias' \in [Holders -> SUBSET Holders] /\ user' \in [Holders -> Object]
  <2>1. \A x \in Holders : alias[x] \ G \in SUBSET Holders /\ user[x] \in Object
    BY DEF Pointers
  <2> HIDE DEF all
  <2>2. QED
    BY <1>1, <1>2, <2>1
<1> HIDE DEF all
<1>7. ASSUME NEW x \in Holders
      PROVE  /\ alias'[x] = {} <=> user'[x] = Blank
             /\ alias'[x] # {} => x \in alias'[x] /\ user'[x].id \in Ids
  <2>1. CASE x \in all
    BY <1>2, <1>4, <2>1
  <2>2. CASE x \notin all
    BY <1>5, <2>2 DEF Pointers
  <2>3. QED
    BY <2>1, <2>2
<1>8. ASSUME NEW x \in Holders, NEW g \in alias'[x]
      PROVE  alias'[g] = alias'[x] /\ user'[g] = user'[x]
  <2>1. CASE x \in all
    BY <1>4, <1>8, <2>1
  <2>2. CASE x \notin all
    <3>1. g \in alias[x] /\ g \notin G /\ g \notin alias[h]
      BY <1>5, <1>8, <2>2
    <3>2. g \in Holders /\ alias[g] = alias[x] /\ user[g] = user[x]
      BY <3>1, SharedFacts
    <3>3. alias'[g] = alias[g] \ G /\ user'[g] = user[g]
      BY <1>5, <3>1, <3>2 DEF all
    <3>4. QED
      BY <1>5, <2>2, <3>2, <3>3
  <2>3. QED
    BY <2>1, <2>2
<1>9. Pointers(alias', user')
  BY <1>6, <1>7, <1>8 DEF Pointers
<1>10. QED
  BY <1>1, <1>9 DEF all

\* A request that shares the object of an entry takes nothing from the cache.
LEMMA JoinedKeepsKeys ==
  ASSUME Pointers(alias, user), KeysTrue(alias, user), NEW r \in Requests,
         NEW h \in Holders, alias[h] # {}, Joined(h, {r})
  PROVE  KeysTrue(alias', user')
<1>1. /\ \A x \in Holders : user'[x] = IF x \in {r} THEN user[h] ELSE user[x]
      /\ \A x \in Holders : alias'[x] = IF x \in alias[h] \cup {r} THEN alias[h] \cup {r}
                                        ELSE alias[x] \ {r}
      /\ r \in Holders
  <2>1. {r} \in SUBSET Holders
    BY HolderFacts
  <2>2. QED
    BY <2>1, JoinedPointers
<1>2. ASSUME NEW x \in Holders, x # r
      PROVE  /\ user'[x] = user[x] /\ alias[x] \ {r} \subseteq alias'[x]
             /\ alias[x] = {} => alias'[x] = {}
  <2>1. user'[x] = user[x]
    BY <1>1, <1>2
  <2>2. CASE x \in alias[h]
    <3>1. alias[x] = alias[h] /\ alias'[x] = alias[h] \cup {r}
      BY <1>1, <2>2, SharedFacts
    <3>2. QED
      BY <2>1, <2>2, <3>1
  <2>3. CASE x \notin alias[h]
    BY <1>1, <1>2, <2>1, <2>3
  <2>4. QED
    BY <2>2, <2>3
<1>3. ASSUME NEW s \in Servers, NEW k \in Ids \cup Names
      PROVE  /\ user'[<<s, k>>] = user[<<s, k>>] /\ <<s, k>> # r
             /\ alias[<<s, k>>] \ {r} \subseteq alias'[<<s, k>>]
             /\ alias[<<s, k>>] = {} => alias'[<<s, k>>] = {}
  <2>1. <<s, k>> \in Holders /\ <<s, k>> # r
    BY HolderFacts
  <2>2. QED
    BY <1>2, <2>1
<1>4. ASSUME NEW s \in Servers, NEW n \in Names, alias'[<<s, n>>] # {}
      PROVE  /\ NameOf[user'[<<s, n>>].is.email] = n
             /\ <<s, user'[<<s, n>>].id>> \in alias'[<<s, n>>]
  <2>1. <<s, n>> \in Holders /\ alias[<<s, n>>] # {} /\ user'[<<s, n>>] = user[<<s, n>>]
    BY <1>3, <1>4, HolderFacts
  <2>2. user[<<s, n>>].id \in Ids
    BY <2>1 DEF Pointers
  <2>3. <<s, user[<<s, n>>].id>> # r
    BY <1>3, <2>2
  <2>4. QED
    BY <1>3, <2>1, <2>3 DEF KeysTrue
<1>5. ASSUME NEW s \in Servers, NEW u \in Ids, alias'[<<s, u>>] # {}
      PROVE  user'[<<s, u>>].id = u
  BY <1>3, <1>5 DEF KeysTrue
<1>6. QED
  BY <1>4, <1>5 DEF KeysTrue

\* The entries that setCache writes take the place of others of the same user and name.
LEMMA SetCacheKeys ==
  ASSUME Pointers(alias, user), KeysTrue(alias, user), NEW r \in Requests, NEW s \in Servers,
         NEW o, o = user[r], o # Blank, NameOf[o.is.email] \in Names,
         \A h \in Holders : user[h].id = o.id => user[h].is.email = o.is.email,
         Joined(r, {<<s, o.id>>, <<s, NameOf[o.is.email]>>})
  PROVE  /\ Pointers(alias', user') /\ KeysTrue(alias', user')
         /\ \A h \in Holders : user'[h] = user[h] \/ user'[h] = o
         /\ \A w \in Requests : user'[w] = user[w]
<1> DEFINE name == NameOf[o.is.email]
           G == {<<s, o.id>>, <<s, name>>}
<1>1. r \in Holders /\ alias[r] # {} /\ o.id \in Ids /\ name \in Names
  BY HolderFacts DEF Pointers
<1>2. /\ G \in SUBSET Holders /\ \A w \in Requests : w \notin G /\ w \in Holders
      /\ \A x \in Servers, u \in Ids : <<x, u>> \in Holders /\ (<<x, u>> \in G <=> x = s /\ u = o.id)
      /\ \A x \in Servers, n \in Names : <<x, n>> \in Holders /\ (<<x, n>> \in G <=> x = s /\ n = name)
  BY <1>1, HolderFacts
<1>3. Joined(r, G)
  OBVIOUS
<1> HIDE DEF G, name
<1>4. /\ Pointers(alias', user')
      /\ \A x \in Holders : user'[x] = IF x \in G THEN o ELSE user[x]
      /\ \A x \in Holders : alias'[x] = IF x \in alias[r] \cup G THEN alias[r] \cup G
                                        ELSE alias[x] \ G
  <2>1. G \in SUBSET Holders /\ r \in Holders
    BY <1>1, <1>2
  <2>2. /\ Pointers(alias', user')
        /\ \A x \in Holders : user'[x] = IF x \in G THEN user[r] ELSE user[x]
        /\ \A x \in Holders : alias'[x] = IF x \in alias[r] \cup G THEN alias[r] \cup G
                                          ELSE alias[x] \ G
    BY <1>1, <1>3, <2>1, JoinedPointers, ZenonT(30)
  <2>3. QED
    BY <2>2
<1>5. ASSUME NEW x \in Holders, x \notin G, alias'[x] # {}
      PROVE  /\ user'[x] = user[x] /\ alias[x] # {}
             /\ alias[x] \ G \subseteq alias'[x]
  <2>1. CASE x \in alias[r]
    <3>1. alias[x] = alias[r] /\ alias'[x] = alias[r] \cup G
      BY <1>1, <1>4, <2>1, SharedFacts
    <3>2. QED
      BY <1>1, <1>4, <1>5, <3>1
  <2>2. CASE x \notin alias[r]
    BY <1>4, <1>5, <2>2
  <2>3. QED
    BY <2>1, <2>2
<1>6. ASSUME NEW x \in Servers, NEW u \in Ids, alias'[<<x, u>>] # {}
      PROVE  user'[<<x, u>>].id = u
  <2>1. CASE <<x, u>> \in G
    BY <1>2, <1>4, <2>1
  <2>2. CASE <<x, u>> \notin G
    BY <1>2, <1>5, <1>6, <2>2 DEF KeysTrue
  <2>3. QED
    BY <2>1, <2>2
<1>7. ASSUME NEW x \in Servers, NEW n \in Names, alias'[<<x, n>>] # {}
      PROVE  NameOf[user'[<<x, n>>].is.email] = n /\ <<x, user'[<<x, n>>].id>> \in alias'[<<x, n>>]
  <2>1. CASE <<x, n>> \in G
    <3>1. x = s /\ n = name /\ user'[<<x, n>>] = o /\ alias'[<<x, n>>] = alias[r] \cup G
      BY <1>2, <1>4, <2>1
    <3>2. <<s, o.id>> \in G
      BY <1>1, <1>2
    <3>3. QED
      BY <3>1, <3>2 DEF name
  <2>2. CASE <<x, n>> \notin G
    <3> DEFINE v == user[<<x, n>>].id
    <3>1. /\ user'[<<x, n>>] = user[<<x, n>>] /\ alias[<<x, n>>] # {}
          /\ alias[<<x, n>>] \ G \subseteq alias'[<<x, n>>]
      BY <1>2, <1>5, <1>7, <2>2
    <3>2. NameOf[user[<<x, n>>].is.email] = n /\ <<x, v>> \in alias[<<x, n>>]
      BY <3>1 DEF KeysTrue
    <3>3. v \in Ids
      BY <1>2, <3>1 DEF Pointers
    <3>4. ASSUME <<x, v>> \in G
          PROVE  FALSE
      <4>1. x = s /\ v = o.id
        BY <1>2, <3>3, <3>4
      <4>2. user[<<x, n>>].is.email = o.is.email
        BY <1>2, <4>1
      <4>3. n = name
        BY <3>2, <4>2 DEF name
      <4>4. QED
        BY <1>2, <2>2, <4>1, <4>3
    <3>5. QED
      BY <3>1, <3>2, <3>4
  <2>3. QED
    BY <2>1, <2>2
<1>8. KeysTrue(alias', user')
  BY <1>6, <1>7 DEF KeysTrue
<1>9. QED
  BY <1>2, <1>4, <1>8

\* The users t of a name, and who of them setCache leaves in the cache.
LEMMA OwnerFacts ==
  ASSUME NEW t
  PROVE  /\ \A u \in Ids : OwnerOf(t, u) = IF t[u].status = "none" THEN 0 ELSE u
         /\ \A n \in Names : /\ OwnerOf(t, n) # 0 => OwnerOf(t, n) \in Named(t, n)
                             /\ OwnerOf(t, n) = 0 => Named(t, n) = {}
<1>1. 0 \notin Ids
  BY AccountsAssumption DEF Ids
<1>2. ASSUME NEW u \in Ids
      PROVE  OwnerOf(t, u) = IF t[u].status = "none" THEN 0 ELSE u
  <2>1. CASE t[u].status = "none"
    BY <2>1 DEF OwnerOf, Stored
  <2>2. CASE t[u].status # "none"
    <3>1. {u} \cap Stored(t) = {u}
      BY <2>2 DEF Stored
    <3>2. Min({u}) = u
      BY MinOfIds
    <3>3. OwnerOf(t, u) = Min({u})
      BY <3>1 DEF OwnerOf
    <3>4. QED
      BY <2>2, <3>2, <3>3
  <2>3. QED
    BY <2>1, <2>2
<1>3. ASSUME NEW n \in Names
      PROVE  /\ OwnerOf(t, n) # 0 => OwnerOf(t, n) \in Named(t, n)
             /\ OwnerOf(t, n) = 0 => Named(t, n) = {}
  <2>1. n \notin Ids
    BY HolderFacts
  <2>2. Named(t, n) \subseteq Ids
    BY DEF Named, Stored
  <2>3. OwnerOf(t, n) = IF Named(t, n) = {} THEN 0 ELSE Min(Named(t, n))
    BY <2>1 DEF OwnerOf
  <2>4. Named(t, n) # {} => Min(Named(t, n)) \in Named(t, n)
    BY <2>2, MinOfIds
  <2>5. QED
    BY <1>1, <2>2, <2>3, <2>4
<1>4. QED
  BY <1>2, <1>3

\* The objects a refresh puts in the cache: one for each user it has read.
LEMMA SetEntriesPointers ==
  ASSUME Pointers(alias, user), KeysTrue(alias, user), NEW s \in Servers, SetEntries(s),
         \A u \in Ids : refresh[s].read[u] \in Row,
         \A u \in Ids : refresh[s].read[u] # NoRow => refresh[s].read[u].status # "none",
         \A u \in Ids, h \in Holders : refresh[s].read[u] # NoRow /\ user[h].id = u =>
           refresh[s].read[u].email = user[h].is.email
  PROVE  /\ Pointers(alias', user') /\ KeysTrue(alias', user')
         /\ \A h \in Holders :
              \/ user'[h] = user[h]
              \/ \E u \in Ids : /\ refresh[s].read[u] # NoRow
                                /\ user'[h].id = u /\ user'[h].is = refresh[s].read[u]
         /\ \A r \in Requests : user'[r] = user[r]
<1> DEFINE t == refresh[s].read
           Owner(h) == IF h \in Keys(s) THEN OwnerOf(t, h[2]) ELSE 0
           set == {h \in Keys(s) : Owner(h) # 0}
           New(u) == [id |-> u, is |-> t[u]]
           Group(u) == {g \in set : Owner(g) = u}
<1>1. /\ alias' = [h \in Holders |-> IF h \in set THEN Group(Owner(h))
                                     ELSE alias[h] \ set]
      /\ user' = [h \in Holders |-> IF h \in set THEN New(Owner(h)) ELSE user[h]]
  BY DEF SetEntries
<1>2. /\ \A u \in Ids : t[u] \in Row /\ (t[u] # NoRow => t[u].status # "none")
      /\ \A u \in Ids, h \in Holders : t[u] # NoRow /\ user[h].id = u =>
           t[u].email = user[h].is.email
  OBVIOUS
<1>3. /\ \A u \in Ids : OwnerOf(t, u) = IF t[u].status = "none" THEN 0 ELSE u
      /\ \A n \in Names : /\ OwnerOf(t, n) # 0 => OwnerOf(t, n) \in Named(t, n)
                          /\ OwnerOf(t, n) = 0 => Named(t, n) = {}
      /\ 0 \notin Ids
  BY OwnerFacts, AccountsAssumption DEF Ids
<1> HIDE DEF t
<1>4. \A k \in Ids \cup Names :
        /\ <<s, k>> \in Keys(s) /\ Owner(<<s, k>>) = OwnerOf(t, k)
        /\ <<s, k>> \in Holders /\ (<<s, k>> \in set <=> OwnerOf(t, k) # 0)
  BY HolderFacts DEF Keys
<1>5. ASSUME NEW h \in set
      PROVE  /\ h \in Holders /\ Owner(h) \in Ids /\ t[Owner(h)] # NoRow
             /\ New(Owner(h)) \in Object /\ New(Owner(h)) # Blank
  <2>1. PICK k \in Ids \cup Names : h = <<s, k>>
    BY DEF Keys
  <2>2. OwnerOf(t, k) # 0 /\ Owner(h) = OwnerOf(t, k) /\ h \in Holders
    BY <1>4, <2>1
  <2>3. OwnerOf(t, k) \in Ids /\ t[OwnerOf(t, k)].status # "none"
    BY <1>3, <2>2 DEF Named, Stored
  <2>4. t[OwnerOf(t, k)] # NoRow /\ t[OwnerOf(t, k)] \in Row
    BY <1>2, <2>3, BlankTyped
  <2>5. ASSUME NEW u \in Ids, t[u] \in Row
        PROVE  New(u) \in Object /\ New(u) # Blank
    BY <1>3, <2>5 DEF Object, Blank
  <2> HIDE DEF New, Owner, set
  <2>6. QED
    BY <2>2, <2>3, <2>4, <2>5
<1>6. ASSUME NEW h \in set
      PROVE  alias'[h] = Group(Owner(h)) /\ user'[h] = New(Owner(h))
  <2>1. h \in Holders
    BY <1>5
  <2> HIDE DEF New, Owner, set, Group
  <2>2. QED
    BY <1>1, <2>1
<1>7. ASSUME NEW h \in Holders, h \notin set
      PROVE  alias'[h] = alias[h] \ set /\ user'[h] = user[h]
  <2> HIDE DEF New, Owner, set, Group
  <2>1. QED
    BY <1>1, <1>7
<1> HIDE DEF Owner, set
<1>n. \A u : New(u).id = u /\ New(u).is = t[u]
  OBVIOUS
<1>g. \A u, g : g \in Group(u) <=> g \in set /\ Owner(g) = u
  OBVIOUS
<1> HIDE DEF New
<1>8. alias' \in [Holders -> SUBSET Holders] /\ user' \in [Holders -> Object]
  <2>1. \A h \in Holders : alias[h] \ set \in SUBSET Holders /\ user[h] \in Object
    BY DEF Pointers
  <2>2. \A h \in set : Group(Owner(h)) \in SUBSET Holders
    BY <1>5
  <2>3. \A h \in set : New(Owner(h)) \in Object
    BY <1>5
  <2> HIDE DEF Group
  <2>4. QED
    BY <1>1, <2>1, <2>2, <2>3
<1> HIDE DEF Group
<1>9. ASSUME NEW h \in Holders
      PROVE  /\ alias'[h] = {} <=> user'[h] = Blank
             /\ alias'[h] # {} => h \in alias'[h] /\ user'[h].id \in Ids
  <2>1. CASE h \in set
    <3>1. h \in alias'[h] /\ user'[h] # Blank
      BY <1>5, <1>6, <1>g, <2>1
    <3>2. user'[h].id = Owner(h) /\ Owner(h) \in Ids
      BY <1>5, <1>6, <1>n, <2>1
    <3>3. QED
      BY <3>1, <3>2
  <2>2. CASE h \notin set
    BY <1>7, <2>2 DEF Pointers
  <2>3. QED
    BY <2>1, <2>2
<1>10. ASSUME NEW h \in Holders, NEW g \in alias'[h]
       PROVE  alias'[g] = alias'[h] /\ user'[g] = user'[h]
  <2>1. CASE h \in set
    <3>1. g \in set /\ Owner(g) = Owner(h)
      BY <1>6, <1>10, <1>g, <2>1
    <3>2. QED
      BY <1>6, <2>1, <3>1
  <2>2. CASE h \notin set
    <3>1. g \in alias[h] /\ g \notin set
      BY <1>7, <1>10, <2>2
    <3>2. g \in Holders /\ alias[g] = alias[h] /\ user[g] = user[h]
      BY <3>1, SharedFacts
    <3>3. QED
      BY <1>7, <2>2, <3>1, <3>2
  <2>3. QED
    BY <2>1, <2>2
<1>11. Pointers(alias', user')
  BY <1>8, <1>9, <1>10 DEF Pointers
<1>12. ASSUME NEW x \in Servers, NEW u \in Ids, alias'[<<x, u>>] # {}
       PROVE  user'[<<x, u>>].id = u
  <2>1. <<x, u>> \in Holders
    BY HolderFacts
  <2>2. CASE <<x, u>> \in set
    <3>1. x = s /\ OwnerOf(t, u) # 0 /\ Owner(<<x, u>>) = OwnerOf(t, u)
      <4>1. x = s
        BY <2>2 DEF set, Keys
      <4>2. QED
        BY <1>4, <2>2, <4>1
    <3>2. QED
      BY <1>3, <1>6, <1>n, <2>2, <3>1
  <2>3. CASE <<x, u>> \notin set
    BY <1>7, <1>12, <2>1, <2>3 DEF KeysTrue
  <2>4. QED
    BY <2>2, <2>3
<1>13. ASSUME NEW x \in Servers, NEW n \in Names, alias'[<<x, n>>] # {}
       PROVE  NameOf[user'[<<x, n>>].is.email] = n /\ <<x, user'[<<x, n>>].id>> \in alias'[<<x, n>>]
  <2>1. <<x, n>> \in Holders
    BY HolderFacts
  <2>2. CASE <<x, n>> \in set
    <3> DEFINE w == OwnerOf(t, n)
    <3>1. x = s
      BY <2>2 DEF set, Keys
    <3>2. w # 0 /\ Owner(<<s, n>>) = w
      BY <1>4, <2>2, <3>1
    <3>3. w \in Named(t, n)
      BY <1>3, <3>2
    <3>4. w \in Ids /\ t[w].status # "none" /\ NameOf[t[w].email] = n
      BY <3>3 DEF Named, Stored
    <3>5. <<s, w>> \in set /\ Owner(<<s, w>>) = w
      BY <1>3, <1>4, <3>4
    <3>6. user'[<<s, n>>].id = w /\ user'[<<s, n>>].is = t[w]
      BY <1>6, <1>n, <2>2, <3>1, <3>2
    <3>7. <<s, w>> \in alias'[<<s, n>>]
      BY <1>6, <1>g, <2>2, <3>1, <3>2, <3>5
    <3>8. QED
      BY <3>1, <3>4, <3>6, <3>7
  <2>3. CASE <<x, n>> \notin set
    <3> DEFINE v == user[<<x, n>>].id
    <3>1. /\ user'[<<x, n>>] = user[<<x, n>>] /\ alias[<<x, n>>] # {}
          /\ alias'[<<x, n>>] = alias[<<x, n>>] \ set
      BY <1>7, <1>13, <2>1, <2>3
    <3>2. NameOf[user[<<x, n>>].is.email] = n /\ <<x, v>> \in alias[<<x, n>>]
      BY <3>1 DEF KeysTrue
    <3>3. v \in Ids
      BY <2>1, <3>1 DEF Pointers
    <3>4. ASSUME <<x, v>> \in set
          PROVE  FALSE
      <4>1. x = s
        BY <3>4 DEF set, Keys
      <4>2. OwnerOf(t, v) # 0
        BY <1>4, <3>3, <3>4, <4>1
      <4>3. t[v].status # "none"
        BY <1>3, <3>3, <4>2
      <4>4. t[v].email = user[<<x, n>>].is.email
        BY <1>2, <2>1, <3>3, <4>3, BlankTyped
      <4>5. v \in Named(t, n)
        BY <3>2, <3>3, <4>3, <4>4 DEF Named, Stored
      <4>6. OwnerOf(t, n) = 0
        BY <1>4, <2>3, <4>1
      <4>7. QED
        BY <1>3, <4>5, <4>6
    <3>5. QED
      BY <3>1, <3>2, <3>4
  <2>4. QED
    BY <2>2, <2>3
<1>14. KeysTrue(alias', user')
  BY <1>12, <1>13 DEF KeysTrue
<1>15. ASSUME NEW h \in Holders
       PROVE  \/ user'[h] = user[h]
              \/ \E u \in Ids : t[u] # NoRow /\ user'[h].id = u /\ user'[h].is = t[u]
  <2>1. CASE h \in set
    <3>1. Owner(h) \in Ids /\ t[Owner(h)] # NoRow
      BY <1>5, <2>1
    <3>2. user'[h].id = Owner(h) /\ user'[h].is = t[Owner(h)]
      BY <1>6, <1>n, <2>1
    <3>3. QED
      BY <3>1, <3>2
  <2>2. CASE h \notin set
    BY <1>7, <2>2
  <2>3. QED
    BY <2>1, <2>2
<1>16. ASSUME NEW r \in Requests
       PROVE  user'[r] = user[r]
  <2>1. r \in Holders /\ r \notin set
    BY HolderFacts DEF set
  <2>2. QED
    BY <1>7, <2>1
<1>17. QED
  BY <1>11, <1>14, <1>15, <1>16 DEF t

-----------------------------------------------------------------------------
(* What a step leaves as it was.                                           *)

AllEmails == [Ids -> Optional(Emails)]

\* TypeOK but for the memory.
Typed ==
  /\ tenant \in {"none", "stored"}
  /\ outside \subseteq {"domain", "folder", "index"}
  /\ row \in [Ids -> Row]
  /\ lastId \in 0..MaxUsers
  /\ invited \cup outbox \cup mailed \cup founders \subseteq 1..lastId
  /\ session \subseteq Ids \X Passwords
  /\ refresh \in [Servers -> Refresh]
  /\ req \in [Requests -> Request]
  /\ chosen \in [Ids -> SUBSET Passwords]

\* What no step takes back.
Forward ==
  /\ tenant = "stored" => tenant' = "stored"
  /\ outside \subseteq outside' /\ founders \subseteq founders' /\ invited \subseteq invited'
  /\ lastId <= lastId'
  /\ \A u \in Ids : /\ chosen[u] \subseteq chosen'[u]
                    /\ row[u] # NoRow => row'[u] # NoRow
                    /\ row[u].status = "normal" => row'[u].status = "normal"

\* A request that is not concerned has what it had.
Kept(r) ==
  /\ user'[r].id = user[r].id
  /\ user[r].is.status = "normal" => user'[r].is.status = "normal"
  /\ user[r] = Blank => user'[r] = Blank
  /\ req[r].pc \in Inserted => row'[req[r].id] = row[req[r].id]

\* The parts of AccountsInv that say nothing of what requests are about.
LEMMA TypedOfInv ==
  ASSUME AccountsInv
  PROVE  /\ Typed /\ Pointers(alias, user) /\ KeysTrue(alias, user)
         /\ lastId \in Nat /\ 1..lastId \subseteq Ids
         /\ \E em \in AllEmails : CopiesTrue(em)
<1>1. Typed /\ Pointers(alias, user) /\ KeysTrue(alias, user) /\ EmailsFixed
  BY DEF AccountsInv, TypeOK, Typed
<1>2. lastId \in Nat /\ 1..lastId \subseteq Ids
  BY <1>1, AccountsAssumption DEF Typed, Ids
<1>3. QED
  BY <1>1, <1>2 DEF EmailsFixed, AllEmails

\* What is true of a user stays true.
LEMMA TrueGrows ==
  ASSUME NEW c, NEW last \in Nat, NEW em, NEW u, NEW w, TrueOf(c, last, em, u, w),
         NEW c2, NEW last2 \in Nat, NEW em2, last <= last2,
         \A v \in 1..last : em2[v] = em[v] /\ c[v] \subseteq c2[v]
  PROVE  TrueOf(c2, last2, em2, u, w)
BY DEF TrueOf

\* Who is pending has no password, who is not has one that was given.
LEMMA TrueFacts ==
  ASSUME NEW c, NEW last \in Nat, NEW em, NEW u, NEW w \in Row, TrueOf(c, last, em, u, w)
  PROVE  /\ w # NoRow <=> w.status # "none"
         /\ w # NoRow => /\ u \in 1..last /\ w.email = em[u] /\ w.email \in Emails
                         /\ NameOf[w.email] \in Names
                         /\ w.status \in {"pending", "normal"}
         /\ w.status = "pending" => w.password = None
         /\ w.status = "normal" => w.password \in c[u]
BY BlankTyped, AccountsAssumption DEF TrueOf, Row

\* A request that is not concerned by a step stays sound.
LEMMA KeptSound ==
  ASSUME AccountsInv, Typed', Forward, NEW r \in Requests, req'[r] = req[r], Kept(r)
  PROVE  RequestSound(req'[r], user'[r], tenant', outside', founders', lastId', row', chosen')
<1> DEFINE q == req[r]
<1>1. RequestSound(q, user[r], tenant, outside, founders, lastId, row, chosen)
  BY DEF AccountsInv, RequestsSound
<1>2. lastId \in Nat /\ lastId' \in Nat /\ lastId <= lastId' /\ 1..lastId \subseteq Ids
  BY TypedOfInv DEF Typed, Forward
<1> HIDE DEF q
<1>3. CreateSound(q, tenant', outside', founders', lastId', row')
  <2>1. q.pc \in Inserted /\ CreateSound(q, tenant, outside, founders, lastId, row)
          => row'[q.id] = row[q.id] /\ q.id \in 1..lastId'
    BY <1>2 DEF Kept, CreateSound, Creating, Inserted, q
  <2>2. CreateSound(q, tenant, outside, founders, lastId, row)
    BY <1>1 DEF RequestSound
  <2>3. QED
    BY <2>1, <2>2 DEF CreateSound, Forward, Creating, Inserted
<1>4. InitSound(q, user'[r], chosen', row')
  <2>1. InitSound(q, user[r], chosen, row)
    BY <1>1 DEF RequestSound
  <2>2. QED
    BY <2>1 DEF InitSound, Kept, Forward
<1>5. QED
  BY <1>1, <1>3, <1>4 DEF RequestSound, Kept, q

\* The invariant of the next state, from what the step has changed.
LEMMA FrameInv ==
  ASSUME AccountsInv, Typed', Pointers(alias', user'), KeysTrue(alias', user'), Forward,
         NEW em \in AllEmails, CopiesTrue(em), NEW em2 \in AllEmails,
         \A u \in 1..lastId : em2[u] = em[u],
         \A u \in Ids : row'[u] = row[u] \/ TrueOf(chosen', lastId', em2, u, row'[u]),
         \A s \in Servers, u \in Ids :
           \/ refresh'[s].read[u] = refresh[s].read[u]
           \/ TrueOf(chosen', lastId', em2, u, refresh'[s].read[u]),
         \A h \in Holders :
           \/ user'[h] = user[h] \/ user'[h] = Blank
           \/ user'[h].is # NoRow /\ TrueOf(chosen', lastId', em2, user'[h].id, user'[h].is),
         \A r \in Requests :
           \/ req'[r] = req[r] /\ Kept(r)
           \/ /\ RequestSound(req'[r], user'[r], tenant', outside', founders', lastId', row',
                              chosen')
              /\ \/ req'[r].image = req[r].image /\ req'[r].id = req[r].id
                 \/ TrueOf(chosen', lastId', em2, req'[r].id, req'[r].image),
         IdsDistinct', TablesSound', TenantComplete', SessionEarned'
  PROVE  AccountsInv'
<1>1. /\ lastId \in Nat /\ lastId' \in Nat /\ lastId <= lastId'
      /\ \A v \in 1..lastId : em2[v] = em[v] /\ chosen[v] \subseteq chosen'[v]
  BY TypedOfInv DEF Typed, Forward
<1>2. \A u, w : TrueOf(chosen, lastId, em, u, w) => TrueOf(chosen', lastId', em2, u, w)
  BY <1>1, TrueGrows
<1>3. EmailsFixed'
  <2>1. \A u \in Ids : TrueOf(chosen', lastId', em2, u, row'[u])
    BY <1>2 DEF CopiesTrue
  <2>2. \A s \in Servers, u \in Ids : TrueOf(chosen', lastId', em2, u, refresh'[s].read[u])
    BY <1>2 DEF CopiesTrue
  <2>3. \A r \in Requests : TrueOf(chosen', lastId', em2, req'[r].id, req'[r].image)
    BY <1>2 DEF CopiesTrue
  <2>4. \A h \in Holders : user'[h] # Blank =>
          user'[h].is # NoRow /\ TrueOf(chosen', lastId', em2, user'[h].id, user'[h].is)
    BY <1>2 DEF CopiesTrue
  <2>5. QED
    BY <2>1, <2>2, <2>3, <2>4 DEF EmailsFixed, CopiesTrue, AllEmails
<1>4. RequestsSound'
  BY KeptSound DEF RequestsSound
<1>5. TypeOK'
  BY DEF Typed, TypeOK, Pointers
<1>6. QED
  BY <1>3, <1>4, <1>5 DEF AccountsInv

\* A handler step of request r that changes no table, at most objects and what is
\* outside the database.
LEMMA HandlerFrame ==
  ASSUME AccountsInv, NEW r \in Requests, NEW q \in Request, Step(r, q),
         UNCHANGED <<tables, lastId, refresh, chosen, founders>>,
         outside \subseteq outside', outside' \subseteq {"domain", "folder", "index"},
         outbox' \cup mailed' \subseteq outbox \cup mailed \cup founders,
         Pointers(alias', user'), KeysTrue(alias', user'),
         NEW em \in AllEmails, CopiesTrue(em),
         \A h \in Holders :
           \/ user'[h] = user[h] \/ user'[h] = Blank
           \/ user'[h].is # NoRow /\ TrueOf(chosen, lastId, em, user'[h].id, user'[h].is),
         \A w \in Requests \ {r} :
           /\ user'[w].id = user[w].id
           /\ user[w].is.status = "normal" => user'[w].is.status = "normal"
           /\ user[w] = Blank => user'[w] = Blank,
         RequestSound(q, user'[r], tenant, outside', founders, lastId, row, chosen),
         \/ q.image = req[r].image /\ q.id = req[r].id
         \/ TrueOf(chosen, lastId, em, q.id, q.image),
         q.pc \in Inserted => req[r].pc \in Inserted /\ q.id = req[r].id
  PROVE  AccountsInv'
<1>1. /\ tenant' = tenant /\ row' = row /\ invited' = invited /\ session' = session
      /\ lastId' = lastId /\ refresh' = refresh /\ chosen' = chosen /\ founders' = founders
  BY DEF tables
<1>2. /\ Typed /\ lastId \in Nat
  BY TypedOfInv
<1>3. \A w \in Requests : req'[w] = IF w = r THEN q ELSE req[w]
  BY <1>2 DEF Step, Typed
<1>4. Typed'
  <2>1. req' \in [Requests -> Request]
    BY <1>2 DEF Step, Typed
  <2>2. QED
    BY <1>1, <1>2, <2>1 DEF Typed
<1>5. Forward
  BY <1>1, <1>2 DEF Forward, Typed
<1>6. ASSUME NEW w \in Requests
      PROVE  \/ req'[w] = req[w] /\ Kept(w)
             \/ /\ RequestSound(req'[w], user'[w], tenant', outside', founders', lastId', row',
                                chosen')
                /\ \/ req'[w].image = req[w].image /\ req'[w].id = req[w].id
                   \/ TrueOf(chosen', lastId', em, req'[w].id, req'[w].image)
  <2>1. CASE w = r
    BY <1>1, <1>3, <2>1
  <2>2. CASE w # r
    BY <1>1, <1>3, <2>2 DEF Kept
  <2>3. QED
    BY <2>1, <2>2
<1>7. IdsDistinct'
  BY <1>3 DEF AccountsInv, IdsDistinct
<1>8. TablesSound' /\ TenantComplete' /\ SessionEarned'
  <2>1. TablesSound'
    BY <1>1 DEF AccountsInv, TablesSound
  <2>2. TenantComplete'
    BY <1>1 DEF AccountsInv, TenantComplete, Stored
  <2>3. SessionEarned'
    BY <1>1 DEF AccountsInv, SessionEarned
  <2>4. QED
    BY <2>1, <2>2, <2>3
<1>9. /\ \A u \in Ids : row'[u] = row[u]
      /\ \A s \in Servers, u \in Ids : refresh'[s].read[u] = refresh[s].read[u]
      /\ \A h \in Holders :
           \/ user'[h] = user[h] \/ user'[h] = Blank
           \/ user'[h].is # NoRow /\ TrueOf(chosen', lastId', em, user'[h].id, user'[h].is)
  BY <1>1
<1>10. QED
  BY <1>4, <1>5, <1>6, <1>7, <1>8, <1>9, FrameInv

\* A handler step of request r that leaves memory and mail alone as well.
LEMMA QuietFrame ==
  ASSUME AccountsInv, NEW r \in Requests, NEW q \in Request, Step(r, q),
         UNCHANGED <<tables, lastId, mailed, memory, refresh, chosen, founders>>,
         outside \subseteq outside', outside' \subseteq {"domain", "folder", "index"},
         outbox' \subseteq outbox \cup founders,
         RequestSound(q, user[r], tenant, outside', founders, lastId, row, chosen),
         \/ q.image = req[r].image /\ q.id = req[r].id
         \/ q.image = NoRow
         \/ q.image = user[r].is /\ q.id = user[r].id,
         q.pc \in Inserted => req[r].pc \in Inserted /\ q.id = req[r].id
  PROVE  AccountsInv'
<1>1. Pointers(alias, user) /\ KeysTrue(alias, user) /\ r \in Holders
  BY TypedOfInv, HolderFacts
<1>2. PICK em \in AllEmails : CopiesTrue(em)
  BY TypedOfInv
<1>3. alias' = alias /\ user' = user /\ mailed' = mailed
  BY DEF memory
<1>4. \/ q.image = req[r].image /\ q.id = req[r].id
      \/ TrueOf(chosen, lastId, em, q.id, q.image)
  <2>1. TrueOf(chosen, lastId, em, q.id, NoRow)
    BY DEF TrueOf
  <2>2. user[r] = Blank => user[r].is = NoRow
    BY BlankTyped
  <2>3. user[r] # Blank => TrueOf(chosen, lastId, em, user[r].id, user[r].is)
    BY <1>1, <1>2 DEF CopiesTrue
  <2>4. QED
    BY <2>1, <2>2, <2>3
<1>5. Pointers(alias', user') /\ KeysTrue(alias', user')
  BY <1>1, <1>3
<1>6. UNCHANGED <<tables, lastId, refresh, chosen, founders>>
  OBVIOUS
<1>7. outbox' \cup mailed' \subseteq outbox \cup mailed \cup founders
  BY <1>3
<1>8. RequestSound(q, user'[r], tenant, outside', founders, lastId, row, chosen)
  BY <1>3
<1>9. /\ \A h \in Holders : user'[h] = user[h]
      /\ \A w \in Requests \ {r} :
           /\ user'[w].id = user[w].id
           /\ user[w].is.status = "normal" => user'[w].is.status = "normal"
           /\ user[w] = Blank => user'[w] = Blank
  BY <1>3
<1>10. QED
  BY <1>2, <1>4, <1>5, <1>6, <1>7, <1>8, <1>9, HandlerFrame

\* The handler of request r is where it is, with what it holds.
LEMMA HandlerFacts ==
  ASSUME AccountsInv, NEW r \in Requests
  PROVE  /\ req[r] \in Request /\ r \in Holders
         /\ RequestSound(req[r], user[r], tenant, outside, founders, lastId, row, chosen)
         /\ outside \subseteq {"domain", "folder", "index"}
BY TypedOfInv, HolderFacts DEF Typed, AccountsInv, RequestsSound

\* The fields of a request.
LEMMA RequestFields ==
  ASSUME NEW q \in Request
  PROVE  /\ q.server \in Servers \cup {None} /\ q.id \in {0} \cup Ids
         /\ q.email \in Emails \cup {None} /\ q.password \in Passwords \cup {None}
         /\ q.nested \in BOOLEAN /\ q.image \in Row /\ q.found \in {0} \cup Ids
BY DEF Request, Optional

\* A request that goes on and changes nothing but where it is.
LEMMA GotoFields ==
  ASSUME NEW q \in Request, NEW pc,
         pc \in {"folder", "tenant", "index", "insert", "commit", "marshal", "cache", "login"}
  PROVE  LET q2 == [q EXCEPT !.pc = pc]
         IN  /\ q2 \in Request /\ q2.pc = pc /\ q2.server = q.server /\ q2.id = q.id
             /\ q2.email = q.email /\ q2.password = q.password /\ q2.nested = q.nested
             /\ q2.image = q.image /\ q2.found = q.found
BY DEF Request

\* No request at all.
LEMMA NoRequestTyped ==
  /\ NoRequest \in Request
  /\ NoRequest.pc = "none" /\ NoRequest.image = NoRow /\ NoRequest.id = 0
BY BlankTyped DEF NoRequest, Request, Optional

-----------------------------------------------------------------------------
(* AccountsInv is inductive.                                               *)

\* Nobody and nothing at first.
LEMMA InitAccountsInv == Init => AccountsInv
<1> SUFFICES ASSUME Init PROVE AccountsInv
  OBVIOUS
<1>1. TypeOK
  <2>1. IdleRefresh \in Refresh
    BY BlankTyped DEF IdleRefresh, Refresh, NoRows
  <2>2. row \in [Ids -> Row] /\ 0 \in 0..MaxUsers
    BY BlankTyped, AccountsAssumption DEF Init, NoRows
  <2>3. QED
    BY <2>1, <2>2, BlankTyped, NoRequestTyped DEF Init, TypeOK
<1>2. Pointers(alias, user)
  BY BlankTyped DEF Init, Pointers
<1>3. \A h \in Holders : alias[h] = {} /\ user[h] = Blank
  BY DEF Init
<1>4. KeysTrue(alias, user)
  BY <1>3, HolderFacts DEF KeysTrue
<1>5. EmailsFixed
  <2> DEFINE em == [u \in Ids |-> None]
  <2>1. em \in [Ids -> Optional(Emails)]
    BY DEF Optional
  <2> HIDE DEF em
  <2>2. CopiesTrue(em)
    BY <1>3, NoRequestTyped DEF Init, CopiesTrue, TrueOf, NoRows, IdleRefresh
  <2>3. QED
    BY <2>1, <2>2 DEF EmailsFixed
<1>6. RequestsSound
  <2>1. \A r \in Requests : req[r] = NoRequest /\ user[r] = Blank
    BY <1>3, HolderFacts DEF Init
  <2>2. QED
    BY <2>1, NoRequestTyped
       DEF RequestsSound, RequestSound, CreateSound, InitSound, Creating, Initialising
<1>7. IdsDistinct
  BY NoRequestTyped DEF Init, IdsDistinct, Inserted
<1>8. TablesSound /\ SessionEarned
  BY DEF Init, TablesSound, SessionEarned
<1>9. TenantComplete
  BY BlankTyped DEF Init, TenantComplete, NoRows
<1>10. QED
  BY <1>1, <1>2, <1>4, <1>5, <1>6, <1>7, <1>8, <1>9 DEF AccountsInv

\* A request to create a tenant.
LEMMA CreateTenantInv ==
  ASSUME AccountsInv, NEW r \in Requests, NEW s \in Servers, NEW e \in Emails,
         NEW p \in Optional(Passwords), CreateTenant(r, s, e, p)
  PROVE  AccountsInv'
<1> DEFINE q == [NoRequest EXCEPT !.pc = "domain", !.server = s, !.email = e,
                                  !.password = p, !.nested = TRUE]
<1>1. /\ req[r] = NoRequest /\ Step(r, q)
      /\ UNCHANGED <<tables, outside, lastId, mail, memory, refresh, chosen, founders>>
  BY DEF CreateTenant
<1>2. /\ q \in Request /\ q.pc = "domain" /\ q.server = s /\ q.email = e
      /\ q.nested = TRUE /\ q.image = NoRow /\ q.id = 0
  BY NoRequestTyped DEF NoRequest, Request, Optional
<1> HIDE DEF q
<1>3. user[r] = Blank
  BY <1>1, HandlerFacts, NoRequestTyped DEF RequestSound, Initialising
<1>4. RequestSound(q, user[r], tenant, outside, founders, lastId, row, chosen)
  BY <1>2, <1>3 DEF RequestSound, CreateSound, InitSound, Creating, Inserted, Initialising
<1>5. q.pc \notin Inserted
  BY <1>2 DEF Inserted
<1>6. QED
  BY <1>1, <1>2, <1>4, <1>5, HandlerFacts, QuietFrame DEF mail

\* What CreateTenant makes outside the database is there, whatever becomes of it.
LEMMA MakeOutsideInv ==
  ASSUME AccountsInv, NEW r \in Requests, MakeOutside(r)
  PROVE  AccountsInv'
<1>1. UNCHANGED <<tables, lastId, mail, memory, refresh, chosen, founders>>
  BY DEF MakeOutside
<1>2. /\ req[r] \in Request /\ outside \subseteq {"domain", "folder", "index"}
      /\ RequestSound(req[r], user[r], tenant, outside, founders, lastId, row, chosen)
  BY HandlerFacts
<1>3. PICK pc \in {"folder", "tenant"} :
        /\ Goto(r, pc)
        /\ \/ pc = "folder" /\ req[r].pc = "domain" /\ outside' \in {outside, outside \cup {"domain"}}
           \/ pc = "tenant" /\ req[r].pc = "folder" /\ outside' = outside \cup {"folder"}
  BY DEF MakeOutside
<1> DEFINE q == [req[r] EXCEPT !.pc = pc]
<1>4. /\ q \in Request /\ q.pc = pc /\ q.server = req[r].server /\ q.id = req[r].id
      /\ q.email = req[r].email /\ q.nested = req[r].nested /\ q.image = req[r].image
  BY <1>2, GotoFields
<1>5. Step(r, q)
  BY <1>3 DEF Goto
<1> HIDE DEF q
<1>6. RequestSound(q, user[r], tenant, outside', founders, lastId, row, chosen)
  BY <1>2, <1>3, <1>4 DEF RequestSound, CreateSound, InitSound, Creating, Inserted, Initialising
<1>7. q.pc \notin Inserted
  BY <1>3, <1>4 DEF Inserted
<1>8. outside \subseteq outside' /\ outside' \subseteq {"domain", "folder", "index"}
  BY <1>2, <1>3
<1>9. QED
  BY <1>1, <1>4, <1>5, <1>6, <1>7, <1>8, QuietFrame DEF mail

\* The row of the tenant is not committed yet.
LEMMA InsertTenantInv ==
  ASSUME AccountsInv, NEW r \in Requests, InsertTenant(r)
  PROVE  AccountsInv'
<1> DEFINE q == [req[r] EXCEPT !.pc = "index"]
<1>1. /\ req[r].pc = "tenant" /\ Step(r, q)
      /\ UNCHANGED <<tables, outside, lastId, mail, memory, refresh, chosen, founders>>
  BY DEF InsertTenant, Goto
<1>2. /\ req[r] \in Request /\ outside \subseteq {"domain", "folder", "index"}
      /\ RequestSound(req[r], user[r], tenant, outside, founders, lastId, row, chosen)
  BY HandlerFacts
<1>3. /\ q \in Request /\ q.pc = "index" /\ q.server = req[r].server /\ q.id = req[r].id
      /\ q.email = req[r].email /\ q.nested = req[r].nested /\ q.image = req[r].image
  BY <1>2, GotoFields
<1> HIDE DEF q
<1>4. RequestSound(q, user[r], tenant, outside, founders, lastId, row, chosen)
  BY <1>1, <1>2, <1>3 DEF RequestSound, CreateSound, InitSound, Creating, Inserted, Initialising
<1>5. q.pc \notin Inserted
  BY <1>3 DEF Inserted
<1>6. QED
  BY <1>1, <1>2, <1>3, <1>4, <1>5, QuietFrame DEF mail

\* The index is there when users are inserted.
LEMMA CreateStoreInv ==
  ASSUME AccountsInv, NEW r \in Requests, CreateStore(r)
  PROVE  AccountsInv'
<1> DEFINE q == [req[r] EXCEPT !.pc = "insert"]
<1>1. /\ req[r].pc = "index" /\ Step(r, q) /\ outside' = outside \cup {"index"}
      /\ UNCHANGED <<tables, lastId, mail, memory, refresh, chosen, founders>>
  BY DEF CreateStore, Goto
<1>2. /\ req[r] \in Request /\ outside \subseteq {"domain", "folder", "index"}
      /\ RequestSound(req[r], user[r], tenant, outside, founders, lastId, row, chosen)
  BY HandlerFacts
<1>3. /\ q \in Request /\ q.pc = "insert" /\ q.server = req[r].server /\ q.id = req[r].id
      /\ q.email = req[r].email /\ q.nested = req[r].nested /\ q.image = req[r].image
  BY <1>2, GotoFields
<1> HIDE DEF q
<1>4. RequestSound(q, user[r], tenant, outside', founders, lastId, row, chosen)
  BY <1>1, <1>2, <1>3 DEF RequestSound, CreateSound, InitSound, Creating, Inserted, Initialising
<1>5. q.pc \notin Inserted
  BY <1>3 DEF Inserted
<1>6. outside \subseteq outside' /\ outside' \subseteq {"domain", "folder", "index"}
  BY <1>1, <1>2
<1>7. QED
  BY <1>1, <1>3, <1>4, <1>5, <1>6, QuietFrame DEF mail

\* A request to create users of a tenant that is stored.
LEMMA CreateUsersInv ==
  ASSUME AccountsInv, NEW r \in Requests, NEW s \in Servers, NEW e \in Emails,
         NEW p \in Optional(Passwords), CreateUsers(r, s, e, p)
  PROVE  AccountsInv'
<1> DEFINE q == [NoRequest EXCEPT !.pc = "insert", !.server = s, !.email = e, !.password = p]
<1>1. /\ req[r] = NoRequest /\ tenant = "stored" /\ Step(r, q)
      /\ UNCHANGED <<tables, outside, lastId, mail, memory, refresh, chosen, founders>>
  BY DEF CreateUsers
<1>2. /\ q \in Request /\ q.pc = "insert" /\ q.server = s /\ q.email = e
      /\ q.nested = FALSE /\ q.image = NoRow /\ q.id = 0
  BY NoRequestTyped DEF NoRequest, Request, Optional
<1> HIDE DEF q
<1>3. user[r] = Blank
  BY <1>1, HandlerFacts, NoRequestTyped DEF RequestSound, Initialising
<1>4. RequestSound(q, user[r], tenant, outside, founders, lastId, row, chosen)
  BY <1>1, <1>2, <1>3 DEF RequestSound, CreateSound, InitSound, Creating, Inserted, Initialising
<1>5. q.pc \notin Inserted
  BY <1>2 DEF Inserted
<1>6. QED
  BY <1>1, <1>2, <1>4, <1>5, HandlerFacts, QuietFrame DEF mail

\* A mail that leaves before the commit is for a user of the transaction that creates
\* the tenant.
LEMMA InsertActivationInv ==
  ASSUME AccountsInv, NEW r \in Requests, InsertActivation(r)
  PROVE  AccountsInv'
<1> DEFINE q == [req[r] EXCEPT !.pc = "commit"]
<1>1. /\ req[r].pc = "activate" /\ Step(r, q) /\ Queued(r)
      /\ UNCHANGED <<tables, outside, lastId, mailed, memory, refresh, chosen, founders>>
  BY DEF InsertActivation, Goto
<1>2. /\ req[r] \in Request /\ outside \subseteq {"domain", "folder", "index"}
      /\ RequestSound(req[r], user[r], tenant, outside, founders, lastId, row, chosen)
  BY HandlerFacts
<1>3. /\ q \in Request /\ q.pc = "commit" /\ q.server = req[r].server /\ q.id = req[r].id
      /\ q.email = req[r].email /\ q.nested = req[r].nested /\ q.image = req[r].image
  BY <1>2, GotoFields
<1> HIDE DEF q
<1>4. RequestSound(q, user[r], tenant, outside, founders, lastId, row, chosen)
  BY <1>1, <1>2, <1>3 DEF RequestSound, CreateSound, InitSound, Creating, Inserted, Initialising
<1>5. req[r].pc \in Inserted
  BY <1>1 DEF Inserted
<1>6. outbox' \subseteq outbox \cup founders
  <2>1. req[r].nested => req[r].id \in founders
    BY <1>1, <1>2 DEF RequestSound, CreateSound, Creating, Inserted
  <2>2. MailLeaves(req[r]) => req[r].nested
    BY <1>1 DEF MailLeaves
  <2>3. QED
    BY <1>1, <2>1, <2>2 DEF Queued, Pending
<1>7. QED
  BY <1>1, <1>2, <1>3, <1>4, <1>5, <1>6, QuietFrame

\* The row to be written is what the object holds by then.
LEMMA MarshalInv ==
  ASSUME AccountsInv, NEW r \in Requests, Marshal(r)
  PROVE  AccountsInv'
<1> DEFINE q == [req[r] EXCEPT !.pc = "write", !.image = user[r].is]
<1>1. /\ req[r].pc = "marshal" /\ Step(r, q)
      /\ UNCHANGED <<tables, outside, lastId, mail, memory, refresh, chosen, founders>>
  BY DEF Marshal
<1>2. /\ req[r] \in Request /\ outside \subseteq {"domain", "folder", "index"}
      /\ RequestSound(req[r], user[r], tenant, outside, founders, lastId, row, chosen)
      /\ r \in Holders
  BY HandlerFacts
<1>3. user[r].is \in Row
  BY <1>2, TypedOfInv DEF Pointers, Object
<1>4. /\ q \in Request /\ q.pc = "write" /\ q.server = req[r].server /\ q.id = req[r].id
      /\ q.password = req[r].password /\ q.image = user[r].is
  BY <1>2, <1>3 DEF Request
<1> HIDE DEF q
<1>5. RequestSound(q, user[r], tenant, outside, founders, lastId, row, chosen) /\ q.id = user[r].id
  BY <1>1, <1>2, <1>4 DEF RequestSound, CreateSound, InitSound, Creating, Inserted, Initialising
<1>6. q.pc \notin Inserted
  BY <1>4 DEF Inserted
<1>7. QED
  BY <1>1, <1>2, <1>4, <1>5, <1>6, QuietFrame DEF mail

\* The UPDATE is not committed yet.
LEMMA WriteUserInv ==
  ASSUME AccountsInv, NEW r \in Requests, WriteUser(r)
  PROVE  AccountsInv'
<1> DEFINE q == [req[r] EXCEPT !.pc = "cache"]
<1>1. /\ req[r].pc = "write" /\ Step(r, q)
      /\ UNCHANGED <<tables, outside, lastId, mail, memory, refresh, chosen, founders>>
  BY DEF WriteUser, Goto
<1>2. /\ req[r] \in Request /\ outside \subseteq {"domain", "folder", "index"}
      /\ RequestSound(req[r], user[r], tenant, outside, founders, lastId, row, chosen)
  BY HandlerFacts
<1>3. /\ q \in Request /\ q.pc = "cache" /\ q.server = req[r].server /\ q.id = req[r].id
      /\ q.password = req[r].password /\ q.image = req[r].image
  BY <1>2, GotoFields
<1> HIDE DEF q
<1>4. RequestSound(q, user[r], tenant, outside, founders, lastId, row, chosen)
  BY <1>1, <1>2, <1>3 DEF RequestSound, CreateSound, InitSound, Creating, Inserted, Initialising
<1>5. q.pc \notin Inserted
  BY <1>3 DEF Inserted
<1>6. QED
  BY <1>1, <1>2, <1>3, <1>4, <1>5, QuietFrame DEF mail

\* Who logs in gives a password that was given for the user that is found, in the
\* cache or in what the transaction sees of the table.
LEMMA AcceptedGiven ==
  ASSUME AccountsInv, NEW em, CopiesTrue(em), NEW s \in Servers, NEW n \in Names, NEW t,
         \A u \in Ids : t[u] \in Row /\ TrueOf(chosen, lastId, em, u, t[u]),
         NEW p \in Passwords, Accepts(ByUsername(s, n, t), p)
  PROVE  ByUsername(s, n, t).id \in Ids /\ p \in chosen[ByUsername(s, n, t).id]
<1> DEFINE o == ByUsername(s, n, t)
<1>1. o.id # 0 /\ o.is.password = p /\ p # None
  BY AccountsAssumption DEF Accepts
<1>2. lastId \in Nat /\ 1..lastId \subseteq Ids /\ Pointers(alias, user)
  BY TypedOfInv
<1>3. o.is \in Row /\ o.is # NoRow /\ TrueOf(chosen, lastId, em, o.id, o.is)
  <2>1. CASE alias[<<s, n>>] # {}
    <3>1. o = user[<<s, n>>] /\ <<s, n>> \in Holders
      BY <2>1, HolderFacts DEF ByUsername
    <3>2. o \in Object /\ o # Blank
      BY <1>2, <2>1, <3>1 DEF Pointers
    <3> HIDE DEF o
    <3>3. QED
      BY <3>1, <3>2 DEF CopiesTrue, Object
  <2>2. CASE alias[<<s, n>>] = {}
    <3>1. o = FirstNamed(t, n)
      BY <2>2 DEF ByUsername
    <3>2. Named(t, n) # {}
      BY <1>1, <3>1, BlankTyped DEF FirstNamed
    <3>3. Named(t, n) \subseteq Ids
      BY DEF Named, Stored
    <3> DEFINE u == Min(Named(t, n))
    <3>4. u \in Named(t, n)
      BY <3>2, <3>3, MinOfIds
    <3>5. o.id = u /\ o.is = t[u]
      BY <3>1, <3>2 DEF FirstNamed
    <3>6. u \in Ids /\ t[u].status # "none"
      BY <3>4 DEF Named, Stored
    <3> HIDE DEF o, u
    <3>7. QED
      BY <3>5, <3>6, BlankTyped
  <2>3. QED
    BY <2>1, <2>2
<1> HIDE DEF o
<1>4. o.id \in 1..lastId /\ o.is.status = "normal" /\ o.is.password \in chosen[o.id]
  <2>1. o.is.status \in {"none", "pending", "normal"}
    BY <1>3 DEF Row
  <2>2. QED
    BY <1>1, <1>3, <2>1 DEF TrueOf
<1>5. QED
  BY <1>1, <1>2, <1>4 DEF o

\* What a request that initialises a user has: the user, its object, its password.
LEMMA InitialisingFacts ==
  ASSUME AccountsInv, NEW r \in Requests, req[r].pc \in Initialising,
         NEW em, CopiesTrue(em)
  PROVE  /\ req[r].server \in Servers /\ req[r].id \in Ids /\ user[r].id = req[r].id
         /\ user[r] \in Object /\ user[r] # Blank /\ r \in Holders /\ alias[r] # {}
         /\ user[r].is \in Row /\ user[r].is # NoRow
         /\ TrueOf(chosen, lastId, em, user[r].id, user[r].is)
         /\ user[r].is.email \in Emails /\ user[r].is.email = em[req[r].id]
         /\ NameOf[user[r].is.email] \in Names
         /\ req[r].password \in chosen[req[r].id] /\ req[r].password \in Passwords
<1>1. /\ RequestSound(req[r], user[r], tenant, outside, founders, lastId, row, chosen)
      /\ r \in Holders
  BY HandlerFacts
<1>2. /\ req[r].server \in Servers /\ req[r].id \in Ids /\ user[r].id = req[r].id
      /\ req[r].password \in chosen[req[r].id]
  BY <1>1 DEF RequestSound, InitSound, Initialising
<1>3. Pointers(alias, user) /\ Typed /\ lastId \in Nat
  BY TypedOfInv
<1>4. 0 \notin Ids
  BY AccountsAssumption DEF Ids
<1>5. user[r] \in Object /\ user[r] # Blank /\ alias[r] # {} /\ user[r].is \in Row
  BY <1>1, <1>2, <1>3, <1>4, BlankTyped DEF Pointers, Object
<1>6. user[r].is # NoRow /\ TrueOf(chosen, lastId, em, user[r].id, user[r].is)
  BY <1>1, <1>5 DEF CopiesTrue
<1>7. /\ user[r].is.email \in Emails /\ user[r].is.email = em[req[r].id]
      /\ NameOf[user[r].is.email] \in Names
  BY <1>2, <1>3, <1>5, <1>6, TrueFacts
<1>8. req[r].password \in Passwords
  BY <1>2, <1>3 DEF Typed
<1>9. QED
  BY <1>1, <1>2, <1>5, <1>6, <1>7, <1>8

\* What the transaction of a request sees of the table is true.
LEMMA SeenFacts ==
  ASSUME AccountsInv, NEW r \in Requests, req[r].id \in Ids, NEW em, CopiesTrue(em)
  PROVE  /\ Seen(r) \in [Ids -> Row]
         /\ \A u \in Ids : Seen(r)[u] = IF u = req[r].id THEN req[r].image ELSE row[u]
         /\ \A u \in Ids : TrueOf(chosen, lastId, em, u, Seen(r)[u])
<1>1. row \in [Ids -> Row] /\ req[r].image \in Row
  BY TypedOfInv, HandlerFacts, RequestFields DEF Typed
<1>2. \A u \in Ids : Seen(r)[u] = IF u = req[r].id THEN req[r].image ELSE row[u]
  BY <1>1 DEF Seen
<1>3. Seen(r) \in [Ids -> Row]
  BY <1>1 DEF Seen
<1>4. \A u \in Ids : TrueOf(chosen, lastId, em, u, Seen(r)[u])
  BY <1>2 DEF CopiesTrue
<1>5. QED
  BY <1>2, <1>3, <1>4

\* InitUser logs in who has given the password of the user that is found.
LEMMA LogInAgainInv ==
  ASSUME AccountsInv, NEW r \in Requests, LogInAgain(r)
  PROVE  AccountsInv'
<1> DEFINE n == NameOf[user[r].is.email]
           o == ByUsername(req[r].server, n, Seen(r))
           q == [req[r] EXCEPT !.pc = "session", !.found = o.id]
<1>1. /\ req[r].pc = "login" /\ Accepts(o, req[r].password) /\ Step(r, q)
      /\ UNCHANGED <<tables, outside, lastId, mail, memory, refresh, chosen, founders>>
  BY DEF LogInAgain
<1>2. /\ req[r] \in Request /\ outside \subseteq {"domain", "folder", "index"}
      /\ RequestSound(req[r], user[r], tenant, outside, founders, lastId, row, chosen)
  BY HandlerFacts
<1>3. PICK em \in AllEmails : CopiesTrue(em)
  BY TypedOfInv
<1>4. /\ req[r].server \in Servers /\ n \in Names /\ req[r].id \in Ids
      /\ req[r].password \in Passwords
  <2>1. req[r].pc \in Initialising
    BY <1>1 DEF Initialising
  <2>2. QED
    BY <1>3, <2>1, InitialisingFacts
<1> HIDE DEF n
<1>5. o.id \in Ids /\ req[r].password \in chosen[o.id]
  <2>1. \A u \in Ids : Seen(r)[u] \in Row /\ TrueOf(chosen, lastId, em, u, Seen(r)[u])
    BY <1>3, <1>4, SeenFacts
  <2>2. QED
    BY <1>1, <1>3, <1>4, <2>1, AcceptedGiven
<1> HIDE DEF o
<1>6. /\ q \in Request /\ q.pc = "session" /\ q.server = req[r].server /\ q.id = req[r].id
      /\ q.password = req[r].password /\ q.image = req[r].image /\ q.found = o.id
  BY <1>2, <1>5 DEF Request
<1> HIDE DEF q
<1>7. RequestSound(q, user[r], tenant, outside, founders, lastId, row, chosen)
  BY <1>1, <1>2, <1>5, <1>6
     DEF RequestSound, CreateSound, InitSound, Creating, Inserted, Initialising
<1>8. q.pc \notin Inserted
  BY <1>6 DEF Inserted
<1>9. QED
  BY <1>1, <1>2, <1>6, <1>7, <1>8, QuietFrame DEF mail

\* A request that ends with an error leaves tables and caches as they are.
LEMMA ReturnsErrorInv ==
  ASSUME AccountsInv, NEW r \in Requests, ReturnsError(r)
  PROVE  AccountsInv'
<1>1. /\ Step(r, NoRequest) /\ Detached({r})
      /\ UNCHANGED <<tables, outside, lastId, mail, refresh, chosen, founders>>
  BY DEF ReturnsError, Answered
<1>2. PICK em \in AllEmails : CopiesTrue(em)
  BY TypedOfInv
<1>3. /\ Pointers(alias', user') /\ KeysTrue(alias', user')
      /\ \A h \in Holders : user'[h] = IF h \in {r} THEN Blank ELSE user[h]
  <2>1. {r} \in SUBSET Holders /\ \A s \in Servers : Keys(s) \cap {r} = {}
    BY HolderFacts
  <2>2. Pointers(alias, user) /\ KeysTrue(alias, user)
    BY TypedOfInv
  <2>3. QED
    BY <1>1, <2>1, <2>2, DetachedPointers
<1>4. RequestSound(NoRequest, user'[r], tenant, outside', founders, lastId, row, chosen)
  <2>1. user'[r] = Blank
    BY <1>3, HolderFacts
  <2>2. QED
    BY <2>1, NoRequestTyped
       DEF RequestSound, CreateSound, InitSound, Creating, Initialising
<1>5. \A w \in Requests \ {r} : user'[w] = user[w]
  BY <1>3, HolderFacts
<1>6. /\ outside' = outside /\ outbox' = outbox /\ mailed' = mailed
      /\ outside \subseteq {"domain", "folder", "index"}
  BY <1>1, HandlerFacts DEF mail
<1>7. TrueOf(chosen, lastId, em, NoRequest.id, NoRequest.image)
  BY NoRequestTyped DEF TrueOf
<1>8. NoRequest.pc \notin Inserted
  BY NoRequestTyped DEF Inserted
<1>9. QED
  BY <1>1, <1>2, <1>3, <1>4, <1>5, <1>6, <1>7, <1>8, NoRequestTyped, HandlerFrame

\* Every holder of the object sees the password that was given.
LEMMA UpdateObjectInv ==
  ASSUME AccountsInv, NEW r \in Requests, UpdateObject(r)
  PROVE  AccountsInv'
<1> DEFINE p == req[r].password
           New(o) == [o EXCEPT !.is = NewUser(o.is.email, p)]
           q == [req[r] EXCEPT !.pc = "marshal"]
<1>1. /\ req[r].pc = "update" /\ Step(r, q) /\ alias' = alias
      /\ user' = [h \in Holders |-> IF h \in alias[r] THEN New(user[h]) ELSE user[h]]
      /\ UNCHANGED <<tables, outside, lastId, mail, refresh, chosen, founders>>
  BY DEF UpdateObject, Goto
<1>2. /\ req[r] \in Request /\ outside \subseteq {"domain", "folder", "index"}
      /\ RequestSound(req[r], user[r], tenant, outside, founders, lastId, row, chosen)
  BY HandlerFacts
<1>3. PICK em \in AllEmails : CopiesTrue(em)
  BY TypedOfInv
<1>4. /\ req[r].id \in Ids /\ user[r].id = req[r].id /\ r \in Holders /\ alias[r] # {}
      /\ p \in chosen[req[r].id] /\ p \in Passwords /\ user[r] \in Object
      /\ user[r].is.email \in Emails /\ user[r].is.email = em[req[r].id]
      /\ TrueOf(chosen, lastId, em, user[r].id, user[r].is) /\ user[r].is # NoRow
  <2>1. req[r].pc \in Initialising
    BY <1>1 DEF Initialising
  <2>2. QED
    BY <1>3, <2>1, InitialisingFacts
<1>5. Pointers(alias, user) /\ KeysTrue(alias, user)
  BY TypedOfInv
<1>p. p # None /\ 0 \notin Ids
  BY <1>4, AccountsAssumption DEF Ids
<1>6. /\ q \in Request /\ q.pc = "marshal" /\ q.server = req[r].server /\ q.id = req[r].id
      /\ q.password = p /\ q.image = req[r].image
  BY <1>2, GotoFields
<1> HIDE DEF q, p
<1>7. ASSUME NEW o \in Object
      PROVE  /\ New(o).id = o.id /\ New(o).is = NewUser(o.is.email, p)
             /\ NewUser(o.is.email, p).status = "normal"
             /\ NewUser(o.is.email, p).email = o.is.email
             /\ NewUser(o.is.email, p).password = p
             /\ New(o) \in Object
  <2>1. o.is \in Row
    BY DEF Object
  <2>2. /\ NewUser(o.is.email, p) \in Row
        /\ NewUser(o.is.email, p).status = "normal"
        /\ NewUser(o.is.email, p).email = o.is.email
        /\ NewUser(o.is.email, p).password = p
    BY <1>4, <1>p, <2>1 DEF NewUser, Row, Optional
  <2>3. QED
    BY <2>2 DEF Object
<1> HIDE DEF New
<1>8. ASSUME NEW h \in Holders
      PROVE  /\ user[h] \in Object
             /\ h \in alias[r] => user'[h] = New(user[r]) /\ user[h] = user[r]
             /\ h \notin alias[r] => user'[h] = user[h]
  <2>1. h \in alias[r] => user[h] = user[r]
    BY <1>4, <1>5, SharedFacts
  <2>2. QED
    BY <1>1, <1>5, <2>1 DEF Pointers
<1>9. ASSUME NEW h \in Holders
      PROVE  /\ user'[h] \in Object /\ user'[h].id = user[h].id
             /\ user'[h].is.email = user[h].is.email
             /\ user[h].is.status = "normal" => user'[h].is.status = "normal"
             /\ user'[h] = Blank <=> user[h] = Blank
             /\ user[h] = Blank => user'[h] = Blank
  <2>1. New(user[r]).id # Blank.id /\ user[r].id # Blank.id
    BY <1>4, <1>7, <1>p, BlankTyped
  <2>2. CASE h \in alias[r]
    BY <1>4, <1>7, <1>8, <2>1, <2>2
  <2>3. CASE h \notin alias[r]
    BY <1>8, <2>3
  <2>4. QED
    BY <2>2, <2>3
<1>10. Pointers(alias', user')
  <2>1. user' \in [Holders -> Object]
    <3>1. user' = [h \in Holders |-> user'[h]]
      BY <1>1
    <3>2. QED
      BY <1>9, <3>1
  <2>2. ASSUME NEW h \in Holders, NEW g \in alias[h]
        PROVE  alias[g] = alias[h] /\ user'[g] = user'[h]
    <3>1. g \in Holders /\ alias[g] = alias[h] /\ user[g] = user[h] /\ h \in alias[h] /\ g \in alias[g]
      <4>1. g \in Holders /\ alias[g] = alias[h] /\ user[g] = user[h] /\ h \in alias[h]
        BY <1>5, SharedFacts
      <4>2. QED
        BY <4>1
    <3>2. h \in alias[r] => alias[h] = alias[r]
      BY <1>4, <1>5, SharedFacts
    <3>3. g \in alias[r] => alias[g] = alias[r]
      BY <1>4, <1>5, SharedFacts
    <3>4. g \in alias[r] <=> h \in alias[r]
      BY <3>1, <3>2, <3>3
    <3>5. QED
      BY <1>8, <3>1, <3>4
  <2>3. \A h \in Holders : /\ alias[h] = {} <=> user'[h] = Blank
                           /\ alias[h] # {} => h \in alias[h] /\ user'[h].id \in Ids
    BY <1>5, <1>9 DEF Pointers
  <2>4. alias' = alias /\ alias \in [Holders -> SUBSET Holders]
    BY <1>1, <1>5 DEF Pointers
  <2>5. QED
    BY <2>1, <2>2, <2>3, <2>4 DEF Pointers
<1>11. KeysTrue(alias', user')
  <2>1. \A s \in Servers, k \in Ids \cup Names :
          /\ user'[<<s, k>>].id = user[<<s, k>>].id
          /\ user'[<<s, k>>].is.email = user[<<s, k>>].is.email
    BY <1>9, HolderFacts
  <2>2. QED
    BY <1>1, <1>5, <2>1 DEF KeysTrue
<1>12. ASSUME NEW h \in Holders
       PROVE  \/ user'[h] = user[h]
              \/ user'[h].is # NoRow /\ TrueOf(chosen, lastId, em, user'[h].id, user'[h].is)
  <2>1. CASE h \in alias[r]
    <3>1. /\ user'[h].id = user[r].id /\ user'[h].is.status = "normal"
          /\ user'[h].is.email = user[r].is.email /\ user'[h].is.password = p
      BY <1>4, <1>7, <1>8, <2>1
    <3>2. user[r].id \in 1..lastId
      BY <1>4 DEF TrueOf
    <3>3. QED
      BY <1>4, <3>1, <3>2, BlankTyped DEF TrueOf
  <2>2. CASE h \notin alias[r]
    BY <1>8, <2>2
  <2>3. QED
    BY <2>1, <2>2
<1>13. RequestSound(q, user'[r], tenant, outside, founders, lastId, row, chosen)
  <2>1. r \in alias[r]
    BY <1>4, <1>5 DEF Pointers
  <2>2. user'[r].id = user[r].id /\ user'[r].is.status = "normal"
    BY <1>4, <1>7, <1>8, <2>1
  <2>3. QED
    BY <1>1, <1>2, <1>6, <2>2 DEF p, RequestSound, CreateSound, InitSound, Creating, Initialising
<1>14. \A w \in Requests \ {r} :
         /\ user'[w].id = user[w].id
         /\ user[w].is.status = "normal" => user'[w].is.status = "normal"
         /\ user[w] = Blank => user'[w] = Blank
  BY <1>9, HolderFacts
<1>15. q.pc \notin Inserted
  BY <1>6 DEF Inserted
<1>16. outside' = outside /\ outbox' = outbox /\ mailed' = mailed
  BY <1>1 DEF mail
<1>17. QED
  BY <1>1, <1>2, <1>3, <1>6, <1>10, <1>11, <1>12, <1>13, <1>14, <1>15, <1>16, HandlerFrame

\* The object goes into the cache although nothing is committed.
LEMMA SetCacheInv ==
  ASSUME AccountsInv, NEW r \in Requests, SetCache(r)
  PROVE  AccountsInv'
<1> DEFINE q == [req[r] EXCEPT !.pc = "login"]
<1>1. /\ req[r].pc = "cache" /\ Step(r, q) /\ Joined(r, KeysOf(req[r].server, user[r]))
      /\ UNCHANGED <<tables, outside, lastId, mail, refresh, chosen, founders>>
  BY DEF SetCache, Goto
<1>2. /\ req[r] \in Request /\ outside \subseteq {"domain", "folder", "index"}
      /\ RequestSound(req[r], user[r], tenant, outside, founders, lastId, row, chosen)
  BY HandlerFacts
<1>3. PICK em \in AllEmails : CopiesTrue(em)
  BY TypedOfInv
<1>4. /\ req[r].server \in Servers /\ r \in Holders /\ user[r] # Blank
      /\ user[r].id \in Ids /\ user[r].is.email = em[user[r].id]
      /\ NameOf[user[r].is.email] \in Names
      /\ user[r].is # NoRow /\ TrueOf(chosen, lastId, em, user[r].id, user[r].is)
  <2>1. req[r].pc \in Initialising
    BY <1>1 DEF Initialising
  <2>2. QED
    BY <1>3, <2>1, InitialisingFacts
<1>5. PICK s \in Servers : s = req[r].server
  BY <1>4
<1>6. PICK o : o = user[r]
  OBVIOUS
<1>7. /\ q \in Request /\ q.pc = "login" /\ q.server = req[r].server /\ q.id = req[r].id
      /\ q.password = req[r].password /\ q.image = req[r].image
  BY <1>2, GotoFields
<1> HIDE DEF q
<1>8. /\ Pointers(alias', user') /\ KeysTrue(alias', user')
      /\ \A h \in Holders : user'[h] = user[h] \/ user'[h] = o
      /\ \A w \in Requests : user'[w] = user[w]
  <2>1. Joined(r, {<<s, o.id>>, <<s, NameOf[o.is.email]>>})
    BY <1>1, <1>5, <1>6 DEF KeysOf, Joined
  <2>2. Pointers(alias, user) /\ KeysTrue(alias, user) /\ lastId \in Nat
    BY TypedOfInv
  <2>3. ASSUME NEW h \in Holders, user[h].id = o.id
        PROVE  user[h].is.email = o.is.email
    <3>1. user[h] # Blank
      BY <1>4, <1>6, <2>3, BlankTyped, AccountsAssumption DEF Ids
    <3>2. user[h].is # NoRow /\ TrueOf(chosen, lastId, em, user[h].id, user[h].is)
      BY <1>3, <3>1 DEF CopiesTrue
    <3>3. user[h].is.email = em[user[h].id]
      BY <3>2 DEF TrueOf
    <3>4. QED
      BY <1>4, <1>6, <2>3, <3>3
  <2>4. o # Blank /\ NameOf[o.is.email] \in Names
    BY <1>4, <1>6
  <2>5. QED
    BY <1>6, <2>1, <2>2, <2>3, <2>4, SetCacheKeys
<1>9. RequestSound(q, user'[r], tenant, outside, founders, lastId, row, chosen)
  BY <1>1, <1>2, <1>7, <1>8
     DEF RequestSound, CreateSound, InitSound, Creating, Inserted, Initialising
<1>10. \A h \in Holders :
         \/ user'[h] = user[h]
         \/ user'[h].is # NoRow /\ TrueOf(chosen, lastId, em, user'[h].id, user'[h].is)
  BY <1>4, <1>6, <1>8
<1>11. q.pc \notin Inserted
  BY <1>7 DEF Inserted
<1>12. outside' = outside /\ outbox' = outbox /\ mailed' = mailed
  BY <1>1 DEF mail
<1>13. QED
  BY <1>1, <1>2, <1>3, <1>7, <1>8, <1>9, <1>10, <1>11, <1>12, HandlerFrame

\* The id of a new user is one nobody has.
LEMMA InsertUserInv ==
  ASSUME AccountsInv, NEW r \in Requests, InsertUser(r)
  PROVE  AccountsInv'
<1> DEFINE old == req[r]
           new == NewUser(old.email, old.password)
           u == lastId + 1
           q == [old EXCEPT !.pc = "activate", !.id = u, !.image = new]
<1>1. /\ old.pc = "insert" /\ u \in Ids /\ lastId' = u
      /\ chosen' = [chosen EXCEPT ![u] = {new.password} \ {None}]
      /\ founders' = IF old.nested THEN founders \cup {u} ELSE founders
      /\ Step(r, q)
      /\ UNCHANGED <<tables, outside, mail, memory, refresh>>
  BY DEF InsertUser
<1>2. /\ old \in Request /\ r \in Holders
      /\ RequestSound(old, user[r], tenant, outside, founders, lastId, row, chosen)
      /\ old.email \in Emails
  BY <1>1, HandlerFacts DEF RequestSound, CreateSound, Creating
<1>3. /\ Typed /\ lastId \in Nat /\ 1..lastId \subseteq Ids
      /\ Pointers(alias, user) /\ KeysTrue(alias, user)
  BY TypedOfInv
<1>4. PICK em \in AllEmails : CopiesTrue(em)
  BY TypedOfInv
<1>5. /\ tenant' = tenant /\ row' = row /\ invited' = invited /\ session' = session
      /\ outside' = outside /\ outbox' = outbox /\ mailed' = mailed /\ refresh' = refresh
      /\ alias' = alias /\ user' = user
  BY <1>1 DEF tables, mail, memory
<1>6. /\ new \in Row /\ new # NoRow /\ new.status \in {"pending", "normal"}
      /\ new.email = old.email /\ new.password = old.password
      /\ new.status = "pending" <=> old.password = None
  BY <1>2, RequestFields, BlankTyped DEF NewUser, Row, Optional
<1> HIDE DEF new
<1>7. /\ u \in 1..lastId' /\ u \notin 1..lastId /\ 1..lastId \subseteq 1..lastId'
      /\ lastId' \in Nat /\ lastId' \in 0..MaxUsers /\ lastId <= lastId'
      /\ \A v \in Ids : v > lastId' => v > lastId /\ v # u
      /\ u > lastId
  BY <1>1, <1>3, AccountsAssumption DEF Ids
<1> HIDE DEF u
<1>8. /\ q \in Request /\ q.pc = "activate" /\ q.server = old.server /\ q.id = u
      /\ q.email = old.email /\ q.nested = old.nested /\ q.image = new
  BY <1>1, <1>2, <1>6 DEF Request
<1> HIDE DEF q
<1>9. chosen[u] = {} /\ row[u] = NoRow
  <2>1. chosen[u] = {}
    BY <1>1, <1>7 DEF AccountsInv, TablesSound
  <2>2. row[u] = NoRow
    BY <1>1, <1>4, <1>7 DEF CopiesTrue, TrueOf
  <2>3. QED
    BY <2>1, <2>2
<1>10. \A v \in Ids : chosen'[v] = IF v = u THEN {new.password} \ {None} ELSE chosen[v]
  BY <1>1, <1>3 DEF Typed
<1>11. \A w \in Requests : req'[w] = IF w = r THEN q ELSE req[w]
  BY <1>1, <1>3 DEF Step, Typed
<1>12. Typed'
  <2>1. chosen' \in [Ids -> SUBSET Passwords]
    <3>1. {new.password} \ {None} \in SUBSET Passwords
      BY <1>6 DEF Row, Optional
    <3>2. QED
      BY <1>1, <1>3, <3>1 DEF Typed
  <2>2. req' \in [Requests -> Request]
    BY <1>1, <1>3, <1>8 DEF Step, Typed
  <2>3. invited' \cup outbox' \cup mailed' \cup founders' \subseteq 1..lastId'
    BY <1>1, <1>3, <1>5, <1>7 DEF Typed
  <2>4. QED
    BY <1>3, <1>5, <1>7, <2>1, <2>2, <2>3 DEF Typed
<1>13. Forward
  BY <1>1, <1>5, <1>7, <1>9, <1>10 DEF Forward
<1> DEFINE em2 == [em EXCEPT ![u] = old.email]
<1>14. em2 \in AllEmails /\ em2[u] = old.email /\ \A v \in 1..lastId : em2[v] = em[v]
  BY <1>1, <1>2, <1>3, <1>7 DEF AllEmails, Optional
<1> HIDE DEF em2
<1>15. TrueOf(chosen', lastId', em2, u, new)
  BY <1>1, <1>2, <1>6, <1>7, <1>10, <1>14 DEF TrueOf
<1>16. RequestSound(q, user'[r], tenant', outside', founders', lastId', row', chosen')
  BY <1>1, <1>2, <1>5, <1>6, <1>7, <1>8, <1>9
     DEF RequestSound, CreateSound, InitSound, Creating, Inserted, Initialising
<1>17. ASSUME NEW w \in Requests
       PROVE  \/ req'[w] = req[w] /\ Kept(w)
              \/ /\ RequestSound(req'[w], user'[w], tenant', outside', founders', lastId', row',
                                 chosen')
                 /\ \/ req'[w].image = req[w].image /\ req'[w].id = req[w].id
                    \/ TrueOf(chosen', lastId', em2, req'[w].id, req'[w].image)
  <2>1. CASE w = r
    BY <1>8, <1>11, <1>15, <1>16, <2>1
  <2>2. CASE w # r
    BY <1>5, <1>11, <2>2 DEF Kept
  <2>3. QED
    BY <2>1, <2>2
<1>18. IdsDistinct'
  <2>1. \A w \in Requests : req[w].pc \in Inserted => req[w].id \in 1..lastId
    BY HandlerFacts DEF RequestSound, CreateSound, Creating, Inserted
  <2>2. \A w \in Requests : w # r /\ req'[w].pc \in Inserted => req'[w].id # u
    BY <1>7, <1>11, <2>1
  <2>3. QED
    BY <1>8, <1>11, <2>2 DEF AccountsInv, IdsDistinct
<1>19. TablesSound'
  <2>1. \A v \in Ids : v > lastId' => chosen'[v] = {}
    BY <1>7, <1>10 DEF AccountsInv, TablesSound
  <2>2. QED
    BY <1>5, <2>1 DEF AccountsInv, TablesSound
<1>20. TenantComplete'
  BY <1>1, <1>5 DEF AccountsInv, TenantComplete, Stored
<1>21. SessionEarned'
  <2>1. ASSUME NEW t \in session
        PROVE  t[2] \in chosen'[t[1]]
    <3>1. t[1] \in Ids /\ t[2] \in chosen[t[1]]
      BY <1>3 DEF AccountsInv, SessionEarned, Typed
    <3>2. QED
      BY <1>13, <3>1 DEF Forward
  <2>2. QED
    BY <1>5, <2>1 DEF SessionEarned
<1>22. Pointers(alias', user') /\ KeysTrue(alias', user')
  BY <1>3, <1>5
<1>23. QED
  BY <1>4, <1>5, <1>12, <1>13, <1>14, <1>17, <1>18, <1>19, <1>20, <1>21, <1>22, FrameInv

\* A request that has got its answer holds nothing, and the others what they held.
LEMMA AnsweredFacts ==
  ASSUME AccountsInv, NEW r \in Requests, Answered(r)
  PROVE  /\ Pointers(alias', user') /\ KeysTrue(alias', user')
         /\ \A h \in Holders : user'[h] = user[h] \/ user'[h] = Blank
         /\ \A w \in Requests : user'[w] = IF w = r THEN Blank ELSE user[w]
         /\ \A w \in Requests : req'[w] = IF w = r THEN NoRequest ELSE req[w]
         /\ req' \in [Requests -> Request]
         /\ IdsDistinct'
<1>1. Step(r, NoRequest) /\ Detached({r})
  BY DEF Answered
<1>2. Typed /\ Pointers(alias, user) /\ KeysTrue(alias, user)
  BY TypedOfInv
<1>3. /\ Pointers(alias', user') /\ KeysTrue(alias', user')
      /\ \A h \in Holders : user'[h] = IF h \in {r} THEN Blank ELSE user[h]
  <2>1. {r} \in SUBSET Holders /\ \A s \in Servers : Keys(s) \cap {r} = {}
    BY HolderFacts
  <2>2. QED
    BY <1>1, <1>2, <2>1, DetachedPointers
<1>4. \A w \in Requests : user'[w] = IF w = r THEN Blank ELSE user[w]
  BY <1>3, HolderFacts
<1>5. /\ \A w \in Requests : req'[w] = IF w = r THEN NoRequest ELSE req[w]
      /\ req' \in [Requests -> Request]
  BY <1>1, <1>2, NoRequestTyped DEF Step, Typed
<1>6. IdsDistinct'
  BY <1>5, NoRequestTyped DEF AccountsInv, IdsDistinct, Inserted
<1>7. QED
  BY <1>3, <1>4, <1>5, <1>6

\* No request is sound, whatever the tables.
LEMMA NoRequestSound ==
  ASSUME NEW t, NEW out, NEW f, NEW last, NEW rw, NEW c
  PROVE  RequestSound(NoRequest, Blank, t, out, f, last, rw, c)
BY NoRequestTyped DEF RequestSound, CreateSound, InitSound, Creating, Initialising

\* The commit that makes a tenant, its roles and users visible at once.
LEMMA CommitUsersInv ==
  ASSUME AccountsInv, NEW r \in Requests, CommitUsers(r)
  PROVE  AccountsInv'
<1> DEFINE old == req[r]
<1>1. /\ old.pc = "commit" /\ row' = Seen(r)
      /\ invited' = invited \cup Pending(old.image, old.id) /\ tenant' = "stored"
      /\ Queued(r) /\ Answered(r)
      /\ UNCHANGED <<outside, lastId, mailed, session, refresh, chosen, founders>>
  BY DEF CommitUsers, Activations
<1>2. /\ old \in Request /\ old.image \in Row
      /\ RequestSound(old, user[r], tenant, outside, founders, lastId, row, chosen)
  BY HandlerFacts, RequestFields
<1>3. /\ old.id \in 1..lastId /\ row[old.id] = NoRow /\ old.image # NoRow
      /\ old.nested => {"folder", "index"} \subseteq outside /\ old.id \in founders
      /\ old.nested \/ tenant = "stored"
  BY <1>1, <1>2 DEF RequestSound, CreateSound, Creating, Inserted
<1>4. Typed /\ lastId \in Nat /\ 1..lastId \subseteq Ids
  BY TypedOfInv
<1>5. PICK em \in AllEmails : CopiesTrue(em)
  BY TypedOfInv
<1>6. /\ row' \in [Ids -> Row]
      /\ \A u \in Ids : row'[u] = IF u = old.id THEN old.image ELSE row[u]
      /\ \A u \in Ids : TrueOf(chosen, lastId, em, u, row'[u])
  BY <1>1, <1>3, <1>4, <1>5, SeenFacts
<1>7. /\ Pointers(alias', user') /\ KeysTrue(alias', user')
      /\ \A h \in Holders : user'[h] = user[h] \/ user'[h] = Blank
      /\ \A w \in Requests : user'[w] = IF w = r THEN Blank ELSE user[w]
      /\ \A w \in Requests : req'[w] = IF w = r THEN NoRequest ELSE req[w]
      /\ req' \in [Requests -> Request] /\ IdsDistinct'
  BY <1>1, AnsweredFacts
<1>8. outbox' \subseteq outbox \cup Pending(old.image, old.id)
  BY <1>1 DEF Queued
<1>9. Pending(old.image, old.id) \subseteq {old.id}
  BY DEF Pending
<1>10. /\ old.image.status \in {"pending", "normal"}
       /\ old.image.status = "pending" => old.id \in invited'
  <2>1. TrueOf(chosen, lastId, em, old.id, old.image)
    BY <1>5 DEF CopiesTrue
  <2>2. QED
    BY <1>1, <1>2, <1>3, <1>4, <2>1, TrueFacts DEF Pending
<1>11. Typed'
  BY <1>1, <1>3, <1>4, <1>6, <1>7, <1>8, <1>9 DEF Typed
<1>12. Forward
  BY <1>1, <1>3, <1>4, <1>6, BlankTyped DEF Forward
<1>13. ASSUME NEW w \in Requests
       PROVE  \/ req'[w] = req[w] /\ Kept(w)
              \/ /\ RequestSound(req'[w], user'[w], tenant', outside', founders', lastId', row',
                                 chosen')
                 /\ TrueOf(chosen', lastId', em, req'[w].id, req'[w].image)
  <2>1. CASE w = r
    BY <1>7, <2>1, NoRequestSound, NoRequestTyped DEF TrueOf
  <2>2. CASE w # r
    <3>1. req'[w] = req[w] /\ user'[w] = user[w]
      BY <1>7, <2>2
    <3>2. req[w].pc \in Inserted => req[w].id # old.id /\ req[w].id \in Ids
      BY <1>1, <1>4, <2>2, HandlerFacts
         DEF AccountsInv, IdsDistinct, Inserted, RequestSound, CreateSound, Creating
    <3>3. QED
      BY <1>6, <3>1, <3>2 DEF Kept
  <2>3. QED
    BY <2>1, <2>2
<1>14. TablesSound'
  <2>1. \A u \in invited' : row'[u] # NoRow
    BY <1>1, <1>3, <1>4, <1>6, <1>9 DEF AccountsInv, TablesSound, Typed
  <2>2. QED
    BY <1>1, <2>1 DEF AccountsInv, TablesSound
<1>15. TenantComplete'
  <2>1. {"folder", "index"} \subseteq outside'
    BY <1>1, <1>3 DEF AccountsInv, TenantComplete
  <2>2. \E u \in founders' \cap Stored(row') : row'[u].status = "normal" \/ u \in invited'
    <3>1. CASE old.nested
      <4>1. old.id \in founders' /\ old.id \in Stored(row')
        BY <1>1, <1>3, <1>4, <1>6, <1>10, <3>1 DEF Stored
      <4>2. QED
        BY <1>3, <1>4, <1>6, <1>10, <4>1
    <3>2. CASE tenant = "stored"
      <4>1. PICK u \in founders \cap Stored(row) : row[u].status = "normal" \/ u \in invited
        BY <3>2 DEF AccountsInv, TenantComplete
      <4>2. u \in Ids /\ row[u].status # "none" /\ u # old.id
        BY <1>3, <4>1, BlankTyped DEF Stored
      <4>3. row'[u] = row[u]
        BY <1>6, <4>2
      <4>4. QED
        BY <1>1, <4>1, <4>2, <4>3 DEF Stored
    <3>3. QED
      BY <1>3, <3>1, <3>2
  <2>3. \A u \in Ids : row'[u].status = "pending" => u \in invited'
    BY <1>1, <1>6, <1>10 DEF AccountsInv, TenantComplete
  <2>4. QED
    BY <2>1, <2>2, <2>3 DEF TenantComplete
<1>16. SessionEarned'
  BY <1>1 DEF AccountsInv, SessionEarned
<1>17. /\ \A s \in Servers, u \in Ids : refresh'[s].read[u] = refresh[s].read[u]
       /\ \A u \in Ids : TrueOf(chosen', lastId', em, u, row'[u])
  BY <1>1, <1>6
<1>18. QED
  BY <1>5, <1>7, <1>11, <1>12, <1>13, <1>14, <1>15, <1>16, <1>17, FrameInv

\* The commit that activates a user, with its session.
LEMMA CommitInitInv ==
  ASSUME AccountsInv, NEW r \in Requests, CommitInit(r)
  PROVE  AccountsInv'
<1> DEFINE old == req[r]
<1>1. /\ old.pc = "session" /\ row' = Seen(r)
      /\ session' = session \cup {<<old.found, old.password>>} /\ Answered(r)
      /\ UNCHANGED <<tenant, invited, outside, lastId, mail, refresh, chosen, founders>>
  BY DEF CommitInit
<1>2. /\ old \in Request /\ old.image \in Row
      /\ RequestSound(old, user[r], tenant, outside, founders, lastId, row, chosen)
  BY HandlerFacts, RequestFields
<1>3. /\ old.id \in Ids /\ row[old.id] # NoRow /\ old.image.status = "normal"
      /\ old.found \in Ids /\ old.password \in chosen[old.found]
  BY <1>1, <1>2 DEF RequestSound, InitSound, Initialising
<1>4. Typed /\ lastId \in Nat /\ 1..lastId \subseteq Ids
  BY TypedOfInv
<1>5. PICK em \in AllEmails : CopiesTrue(em)
  BY TypedOfInv
<1>6. /\ row' \in [Ids -> Row]
      /\ \A u \in Ids : row'[u] = IF u = old.id THEN old.image ELSE row[u]
      /\ \A u \in Ids : TrueOf(chosen, lastId, em, u, row'[u])
  BY <1>1, <1>3, <1>4, <1>5, SeenFacts
<1>7. /\ Pointers(alias', user') /\ KeysTrue(alias', user')
      /\ \A h \in Holders : user'[h] = user[h] \/ user'[h] = Blank
      /\ \A w \in Requests : user'[w] = IF w = r THEN Blank ELSE user[w]
      /\ \A w \in Requests : req'[w] = IF w = r THEN NoRequest ELSE req[w]
      /\ req' \in [Requests -> Request] /\ IdsDistinct'
  BY <1>1, AnsweredFacts
<1>8. old.password \in Passwords
  BY <1>3, <1>4 DEF Typed
<1>9. outbox' = outbox /\ mailed' = mailed
  BY <1>1 DEF mail
<1>10. Typed'
  BY <1>1, <1>3, <1>4, <1>6, <1>7, <1>8, <1>9 DEF Typed
<1>11. Forward
  BY <1>1, <1>3, <1>4, <1>6, BlankTyped DEF Forward
<1>12. ASSUME NEW w \in Requests
       PROVE  \/ req'[w] = req[w] /\ Kept(w)
              \/ /\ RequestSound(req'[w], user'[w], tenant', outside', founders', lastId', row',
                                 chosen')
                 /\ TrueOf(chosen', lastId', em, req'[w].id, req'[w].image)
  <2>1. CASE w = r
    BY <1>7, <2>1, NoRequestSound, NoRequestTyped DEF TrueOf
  <2>2. CASE w # r
    <3>1. req'[w] = req[w] /\ user'[w] = user[w]
      BY <1>7, <2>2
    <3>2. req[w].pc \in Inserted => req[w].id # old.id /\ req[w].id \in Ids
      BY <1>3, <1>4, HandlerFacts DEF RequestSound, CreateSound, Creating, Inserted
    <3>3. QED
      BY <1>6, <3>1, <3>2 DEF Kept
  <2>3. QED
    BY <2>1, <2>2
<1>13. TablesSound'
  BY <1>1, <1>3, <1>4, <1>11 DEF AccountsInv, TablesSound, Typed, Forward
<1>14. TenantComplete'
  <2>1. \A u \in Ids : row[u].status # "none" => row'[u].status # "none"
    BY <1>3, <1>6
  <2>2. \A u \in Ids : row[u].status = "normal" => row'[u].status = "normal"
    BY <1>3, <1>6
  <2>3. \A u \in Ids : row'[u].status = "pending" => row[u].status = "pending"
    BY <1>3, <1>6
  <2>4. QED
    BY <1>1, <2>1, <2>2, <2>3 DEF AccountsInv, TenantComplete, Stored
<1>15. SessionEarned'
  BY <1>1, <1>3 DEF AccountsInv, SessionEarned
<1>16. /\ \A s \in Servers, u \in Ids : refresh'[s].read[u] = refresh[s].read[u]
       /\ \A u \in Ids : TrueOf(chosen', lastId', em, u, row'[u])
  BY <1>1, <1>6
<1>17. QED
  BY <1>5, <1>7, <1>10, <1>11, <1>12, <1>13, <1>14, <1>15, <1>16, FrameInv

\* A step that leaves the tables alone, but for sessions, and at most ends requests.
LEMMA ServerFrame ==
  ASSUME AccountsInv, UNCHANGED <<tenant, row, invited, outside, lastId, chosen, founders>>,
         outbox' \cup mailed' \subseteq outbox \cup mailed,
         session' \subseteq Ids \X Passwords, SessionEarned',
         refresh' \in [Servers -> Refresh], req' \in [Requests -> Request],
         Pointers(alias', user'), KeysTrue(alias', user'),
         NEW em \in AllEmails, CopiesTrue(em),
         \A s \in Servers, u \in Ids :
           \/ refresh'[s].read[u] = refresh[s].read[u]
           \/ TrueOf(chosen, lastId, em, u, refresh'[s].read[u]),
         \A h \in Holders :
           \/ user'[h] = user[h] \/ user'[h] = Blank
           \/ user'[h].is # NoRow /\ TrueOf(chosen, lastId, em, user'[h].id, user'[h].is),
         \A r \in Requests :
           \/ req'[r] = req[r] /\ user'[r] = user[r]
           \/ req'[r] = NoRequest /\ user'[r] = Blank
  PROVE  AccountsInv'
<1>1. /\ tenant' = tenant /\ row' = row /\ invited' = invited /\ outside' = outside
      /\ lastId' = lastId /\ chosen' = chosen /\ founders' = founders
  OBVIOUS
<1>2. Typed /\ lastId \in Nat
  BY TypedOfInv
<1>3. Typed'
  BY <1>1, <1>2 DEF Typed
<1>4. Forward
  BY <1>1, <1>2 DEF Forward, Typed
<1>5. ASSUME NEW r \in Requests
      PROVE  \/ req'[r] = req[r] /\ Kept(r)
             \/ /\ RequestSound(req'[r], user'[r], tenant', outside', founders', lastId', row',
                                chosen')
                /\ TrueOf(chosen', lastId', em, req'[r].id, req'[r].image)
  <2>1. CASE req'[r] = req[r] /\ user'[r] = user[r]
    BY <1>1, <2>1 DEF Kept
  <2>2. CASE req'[r] = NoRequest /\ user'[r] = Blank
    BY <2>2, NoRequestSound, NoRequestTyped DEF TrueOf
  <2>3. QED
    BY <2>1, <2>2
<1>6. IdsDistinct'
  BY NoRequestTyped DEF AccountsInv, IdsDistinct, Inserted
<1>7. TablesSound'
  BY <1>1 DEF AccountsInv, TablesSound
<1>8. TenantComplete'
  BY <1>1 DEF AccountsInv, TenantComplete, Stored
<1>9. /\ \A u \in Ids : row'[u] = row[u]
      /\ \A s \in Servers, u \in Ids :
           \/ refresh'[s].read[u] = refresh[s].read[u]
           \/ TrueOf(chosen', lastId', em, u, refresh'[s].read[u])
      /\ \A h \in Holders :
           \/ user'[h] = user[h] \/ user'[h] = Blank
           \/ user'[h].is # NoRow /\ TrueOf(chosen', lastId', em, user'[h].id, user'[h].is)
  BY <1>1
<1>10. QED
  BY <1>3, <1>4, <1>5, <1>6, <1>7, <1>8, <1>9, FrameInv

\* Who logs in has given the password of the user that is found.
LEMMA LogInInv ==
  ASSUME AccountsInv, NEW s \in Servers, NEW n \in Names, NEW p \in Passwords, LogIn(s, n, p)
  PROVE  AccountsInv'
<1> DEFINE o == ByUsername(s, n, row)
<1>1. /\ Accepts(o, p) /\ session' = session \cup {<<o.id, p>>}
      /\ UNCHANGED <<tenant, row, invited, outside, lastId, mail, memory, refresh, req,
                     chosen, founders>>
  BY DEF LogIn
<1>2. Typed /\ Pointers(alias, user) /\ KeysTrue(alias, user)
  BY TypedOfInv
<1>3. PICK em \in AllEmails : CopiesTrue(em)
  BY TypedOfInv
<1>4. o.id \in Ids /\ p \in chosen[o.id]
  <2>1. \A u \in Ids : row[u] \in Row /\ TrueOf(chosen, lastId, em, u, row[u])
    BY <1>2, <1>3 DEF Typed, CopiesTrue
  <2>2. QED
    BY <1>1, <1>3, <2>1, AcceptedGiven
<1> HIDE DEF o
<1>5. /\ outbox' = outbox /\ mailed' = mailed /\ alias' = alias /\ user' = user
      /\ req' = req /\ refresh' = refresh /\ chosen' = chosen
  BY <1>1 DEF mail, memory
<1>6. session' \subseteq Ids \X Passwords /\ SessionEarned'
  BY <1>1, <1>2, <1>4, <1>5 DEF AccountsInv, SessionEarned, Typed
<1>7. /\ refresh' \in [Servers -> Refresh] /\ req' \in [Requests -> Request]
      /\ Pointers(alias', user') /\ KeysTrue(alias', user')
  BY <1>2, <1>5 DEF Typed
<1>8. UNCHANGED <<tenant, row, invited, outside, lastId, chosen, founders>>
  BY <1>1
<1>9. QED
  BY <1>3, <1>5, <1>6, <1>7, <1>8, ServerFrame

\* A mail is sent or lost.
LEMMA SendInitMailInv ==
  ASSUME AccountsInv, NEW u \in Ids, SendInitMail(u)
  PROVE  AccountsInv'
<1>1. /\ outbox' \cup mailed' \subseteq outbox \cup mailed
      /\ UNCHANGED <<tables, outside, lastId, memory, refresh, req, chosen, founders>>
  BY DEF SendInitMail
<1>2. Typed /\ Pointers(alias, user) /\ KeysTrue(alias, user)
  BY TypedOfInv
<1>3. PICK em \in AllEmails : CopiesTrue(em)
  BY TypedOfInv
<1>4. /\ alias' = alias /\ user' = user /\ req' = req /\ refresh' = refresh
      /\ session' = session
      /\ UNCHANGED <<tenant, row, invited, outside, lastId, chosen, founders>>
  BY <1>1 DEF memory, tables
<1>5. session' \subseteq Ids \X Passwords /\ SessionEarned'
  BY <1>2, <1>4 DEF AccountsInv, SessionEarned, Typed
<1>6. /\ refresh' \in [Servers -> Refresh] /\ req' \in [Requests -> Request]
      /\ Pointers(alias', user') /\ KeysTrue(alias', user')
  BY <1>2, <1>4 DEF Typed
<1>7. QED
  BY <1>1, <1>3, <1>4, <1>5, <1>6, ServerFrame

\* A refresh has read what is committed.
LEMMA ReadUsersInv ==
  ASSUME AccountsInv, NEW s \in Servers, ReadUsers(s)
  PROVE  AccountsInv'
<1> DEFINE f == [pc |-> "flush", read |-> row]
<1>1. /\ refresh' = [refresh EXCEPT ![s] = f]
      /\ UNCHANGED <<tables, outside, lastId, mail, memory, req, chosen, founders>>
  BY DEF ReadUsers, StoredUsers
<1>2. Typed /\ Pointers(alias, user) /\ KeysTrue(alias, user)
  BY TypedOfInv
<1>3. PICK em \in AllEmails : CopiesTrue(em)
  BY TypedOfInv
<1>4. /\ alias' = alias /\ user' = user /\ req' = req /\ session' = session
      /\ outbox' = outbox /\ mailed' = mailed
      /\ UNCHANGED <<tenant, row, invited, outside, lastId, chosen, founders>>
  BY <1>1 DEF memory, tables, mail
<1>5. session' \subseteq Ids \X Passwords /\ SessionEarned'
  BY <1>2, <1>4 DEF AccountsInv, SessionEarned, Typed
<1>6. f \in Refresh /\ f.read = row
  BY <1>2 DEF Typed, Refresh
<1> HIDE DEF f
<1>7. /\ refresh' \in [Servers -> Refresh]
      /\ \A x \in Servers : refresh'[x] = IF x = s THEN f ELSE refresh[x]
  BY <1>1, <1>2, <1>6 DEF Typed
<1>8. \A x \in Servers, u \in Ids :
        \/ refresh'[x].read[u] = refresh[x].read[u]
        \/ TrueOf(chosen, lastId, em, u, refresh'[x].read[u])
  BY <1>3, <1>6, <1>7 DEF CopiesTrue
<1>9. /\ req' \in [Requests -> Request] /\ Pointers(alias', user') /\ KeysTrue(alias', user')
  BY <1>2, <1>4 DEF Typed
<1>10. QED
  BY <1>3, <1>4, <1>5, <1>7, <1>8, <1>9, ServerFrame

\* A cache that is flushed lets go of all it has.
LEMMA FlushInv ==
  ASSUME AccountsInv, NEW s \in Servers, Flush(s)
  PROVE  AccountsInv'
<1>1. /\ refresh' = [refresh EXCEPT ![s].pc = "set"] /\ Detached(Keys(s))
      /\ UNCHANGED <<tables, outside, lastId, mail, req, chosen, founders>>
  BY DEF Flush
<1>2. Typed /\ Pointers(alias, user) /\ KeysTrue(alias, user)
  BY TypedOfInv
<1>3. PICK em \in AllEmails : CopiesTrue(em)
  BY TypedOfInv
<1>4. /\ req' = req /\ session' = session /\ outbox' = outbox /\ mailed' = mailed
      /\ UNCHANGED <<tenant, row, invited, outside, lastId, chosen, founders>>
  BY <1>1 DEF tables, mail
<1>5. session' \subseteq Ids \X Passwords /\ SessionEarned'
  BY <1>2, <1>4 DEF AccountsInv, SessionEarned, Typed
<1>6. /\ refresh' \in [Servers -> Refresh]
      /\ \A x \in Servers : refresh'[x].read = refresh[x].read
  <2> DEFINE f == [refresh[s] EXCEPT !.pc = "set"]
  <2>1. f \in Refresh /\ f.read = refresh[s].read
    BY <1>2 DEF Typed, Refresh
  <2>2. refresh' = [refresh EXCEPT ![s] = f]
    BY <1>1
  <2> HIDE DEF f
  <2>3. QED
    BY <1>2, <2>1, <2>2 DEF Typed
<1>7. /\ Pointers(alias', user') /\ KeysTrue(alias', user')
      /\ \A h \in Holders : user'[h] = IF h \in Keys(s) THEN Blank ELSE user[h]
  <2>1. \A x \in Servers : Keys(x) \subseteq Keys(s) \/ Keys(x) \cap Keys(s) = {}
    BY DEF Keys
  <2>2. Keys(s) \in SUBSET Holders
    BY HolderFacts
  <2>3. QED
    BY <1>1, <1>2, <2>1, <2>2, DetachedPointers
<1>8. \A r \in Requests : req'[r] = req[r] /\ user'[r] = user[r]
  BY <1>4, <1>7, HolderFacts
<1>9. req' \in [Requests -> Request]
  BY <1>2, <1>4 DEF Typed
<1>10. QED
  BY <1>3, <1>4, <1>5, <1>6, <1>7, <1>8, <1>9, ServerFrame

\* What a refresh has read was true when it was read, and is.
LEMMA ReadFacts ==
  ASSUME AccountsInv, NEW s \in Servers, NEW em, CopiesTrue(em)
  PROVE  /\ \A u \in Ids :
              /\ refresh[s].read[u] \in Row
              /\ TrueOf(chosen, lastId, em, u, refresh[s].read[u])
              /\ refresh[s].read[u] # NoRow => refresh[s].read[u].status # "none"
         /\ \A u \in Ids, h \in Holders : refresh[s].read[u] # NoRow /\ user[h].id = u =>
              refresh[s].read[u].email = user[h].is.email
<1>1. Typed
  BY TypedOfInv
<1>2. \A u \in Ids : refresh[s].read[u] \in Row
  BY <1>1 DEF Typed, Refresh
<1>3. \A u \in Ids : TrueOf(chosen, lastId, em, u, refresh[s].read[u])
  BY DEF CopiesTrue
<1>4. ASSUME NEW u \in Ids, refresh[s].read[u] # NoRow
      PROVE  refresh[s].read[u].status # "none" /\ refresh[s].read[u].email = em[u]
  BY <1>3, <1>4 DEF TrueOf
<1>5. ASSUME NEW u \in Ids, NEW h \in Holders, user[h].id = u
      PROVE  user[h].is.email = em[u]
  <2>1. user[h] # Blank
    BY <1>5, BlankTyped, AccountsAssumption DEF Ids
  <2>2. user[h].is # NoRow /\ TrueOf(chosen, lastId, em, u, user[h].is)
    BY <1>5, <2>1 DEF CopiesTrue
  <2>3. QED
    BY <2>2 DEF TrueOf
<1>6. QED
  BY <1>2, <1>3, <1>4, <1>5

\* What a refresh puts in the cache is true.
LEMMA SetEntriesInv ==
  ASSUME AccountsInv, NEW s \in Servers, SetEntries(s)
  PROVE  AccountsInv'
<1>1. /\ refresh' = [refresh EXCEPT ![s] = IdleRefresh]
      /\ UNCHANGED <<tables, outside, lastId, mail, req, chosen, founders>>
  BY DEF SetEntries
<1>2. Typed /\ Pointers(alias, user) /\ KeysTrue(alias, user)
  BY TypedOfInv
<1>3. PICK em \in AllEmails : CopiesTrue(em)
  BY TypedOfInv
<1>4. /\ req' = req /\ session' = session /\ outbox' = outbox /\ mailed' = mailed
      /\ UNCHANGED <<tenant, row, invited, outside, lastId, chosen, founders>>
  BY <1>1 DEF tables, mail
<1>5. session' \subseteq Ids \X Passwords /\ SessionEarned'
  BY <1>2, <1>4 DEF AccountsInv, SessionEarned, Typed
<1>6. /\ \A u \in Ids :
           /\ refresh[s].read[u] \in Row
           /\ TrueOf(chosen, lastId, em, u, refresh[s].read[u])
           /\ refresh[s].read[u] # NoRow => refresh[s].read[u].status # "none"
      /\ \A u \in Ids, h \in Holders : refresh[s].read[u] # NoRow /\ user[h].id = u =>
           refresh[s].read[u].email = user[h].is.email
  BY <1>3, ReadFacts
<1>7. /\ Pointers(alias', user') /\ KeysTrue(alias', user')
      /\ \A h \in Holders :
           \/ user'[h] = user[h]
           \/ \E u \in Ids : /\ refresh[s].read[u] # NoRow
                             /\ user'[h].id = u /\ user'[h].is = refresh[s].read[u]
      /\ \A r \in Requests : user'[r] = user[r]
  BY <1>2, <1>6, SetEntriesPointers
<1>8. \A h \in Holders :
        \/ user'[h] = user[h]
        \/ user'[h].is # NoRow /\ TrueOf(chosen, lastId, em, user'[h].id, user'[h].is)
  BY <1>6, <1>7
<1>9. IdleRefresh \in Refresh /\ \A u \in Ids : IdleRefresh.read[u] = NoRow
  BY BlankTyped DEF IdleRefresh, Refresh, NoRows
<1>10. /\ refresh' \in [Servers -> Refresh]
       /\ \A x \in Servers : refresh'[x] = IF x = s THEN IdleRefresh ELSE refresh[x]
  BY <1>1, <1>2, <1>9 DEF Typed
<1>11. \A x \in Servers, u \in Ids :
         \/ refresh'[x].read[u] = refresh[x].read[u]
         \/ TrueOf(chosen, lastId, em, u, refresh'[x].read[u])
  BY <1>9, <1>10 DEF TrueOf
<1>12. req' \in [Requests -> Request] /\ \A r \in Requests : req'[r] = req[r]
  BY <1>2, <1>4 DEF Typed
<1>13. QED
  BY <1>3, <1>4, <1>5, <1>7, <1>8, <1>10, <1>11, <1>12, ServerFrame

\* A server that dies takes its requests and its cache with it.
LEMMA RestartInv ==
  ASSUME AccountsInv, NEW s \in Servers, Restart(s)
  PROVE  AccountsInv'
<1> DEFINE mine == {r \in Requests : req[r].server = s}
           f == [pc |-> "set", read |-> row]
           H == Keys(s) \cup mine
<1>1. /\ refresh' = [refresh EXCEPT ![s] = f]
      /\ req' = [r \in Requests |-> IF r \in mine THEN NoRequest ELSE req[r]]
      /\ Detached(H)
      /\ UNCHANGED <<tables, outside, lastId, mail, chosen, founders>>
  BY DEF Restart
<1>2. Typed /\ Pointers(alias, user) /\ KeysTrue(alias, user)
  BY TypedOfInv
<1>3. PICK em \in AllEmails : CopiesTrue(em)
  BY TypedOfInv
<1>4. /\ session' = session /\ outbox' = outbox /\ mailed' = mailed
      /\ UNCHANGED <<tenant, row, invited, outside, lastId, chosen, founders>>
  BY <1>1 DEF tables, mail
<1>5. session' \subseteq Ids \X Passwords /\ SessionEarned'
  BY <1>2, <1>4 DEF AccountsInv, SessionEarned, Typed
<1>6. f \in Refresh /\ f.read = row
  BY <1>2 DEF Typed, Refresh
<1> HIDE DEF f
<1>7. /\ refresh' \in [Servers -> Refresh]
      /\ \A x \in Servers : refresh'[x] = IF x = s THEN f ELSE refresh[x]
  BY <1>1, <1>2, <1>6 DEF Typed
<1>8. \A x \in Servers, u \in Ids :
        \/ refresh'[x].read[u] = refresh[x].read[u]
        \/ TrueOf(chosen, lastId, em, u, refresh'[x].read[u])
  BY <1>3, <1>6, <1>7 DEF CopiesTrue
<1>9. mine \subseteq Requests
  OBVIOUS
<1>10. /\ \A r \in Requests : req'[r] = IF r \in mine THEN NoRequest ELSE req[r]
       /\ req' \in [Requests -> Request]
  <2> HIDE DEF mine
  <2>1. QED
    BY <1>1, <1>2, NoRequestTyped DEF Typed
<1> HIDE DEF mine
<1>11. /\ H \in SUBSET Holders
       /\ \A x \in Servers : Keys(x) \subseteq H \/ Keys(x) \cap H = {}
       /\ \A r \in Requests : r \in H <=> r \in mine
  <2>1. H \in SUBSET Holders /\ \A r \in Requests : r \in H <=> r \in mine
    BY <1>9, HolderFacts
  <2>2. ASSUME NEW x \in Servers
        PROVE  Keys(x) \subseteq H \/ Keys(x) \cap H = {}
    <3>1. Keys(x) \cap mine = {}
      BY <1>9, HolderFacts
    <3>2. Keys(x) = Keys(s) \/ Keys(x) \cap Keys(s) = {}
      BY DEF Keys
    <3>3. QED
      BY <3>1, <3>2
  <2>3. QED
    BY <2>1, <2>2
<1> HIDE DEF H
<1>12. /\ Pointers(alias', user') /\ KeysTrue(alias', user')
       /\ \A h \in Holders : user'[h] = IF h \in H THEN Blank ELSE user[h]
  BY <1>1, <1>2, <1>11, DetachedPointers
<1>13. \A r \in Requests : \/ req'[r] = req[r] /\ user'[r] = user[r]
                           \/ req'[r] = NoRequest /\ user'[r] = Blank
  BY <1>10, <1>11, <1>12, HolderFacts
<1>14. QED
  BY <1>3, <1>4, <1>5, <1>7, <1>8, <1>10, <1>12, <1>13, ServerFrame

\* A request to initialise a user: the token was mailed, and came with the password.
LEMMA InitUserInv ==
  ASSUME AccountsInv, NEW r \in Requests, NEW s \in Servers, NEW u \in Ids,
         NEW p \in Passwords, InitUser(r, s, u, p)
  PROVE  AccountsInv'
<1> DEFINE q == [NoRequest EXCEPT !.pc = "update", !.server = s, !.id = u, !.password = p]
           o == [id |-> u, is |-> row[u]]
<1>1. /\ req[r] = NoRequest /\ u \in invited /\ Step(r, q)
      /\ chosen' = [chosen EXCEPT ![u] = @ \cup {p}]
      /\ IF alias[<<s, u>>] # {} THEN Joined(<<s, u>>, {r}) ELSE PointsToNew(r, o)
      /\ UNCHANGED <<tables, outside, lastId, mail, refresh, founders>>
  BY DEF InitUser
<1>2. /\ q \in Request /\ q.pc = "update" /\ q.server = s /\ q.id = u /\ q.password = p
      /\ q.image = NoRow
  BY NoRequestTyped DEF NoRequest, Request, Optional
<1> HIDE DEF q
<1>3. /\ Typed /\ lastId \in Nat /\ 1..lastId \subseteq Ids
      /\ Pointers(alias, user) /\ KeysTrue(alias, user)
  BY TypedOfInv
<1>4. PICK em \in AllEmails : CopiesTrue(em)
  BY TypedOfInv
<1>5. /\ tenant' = tenant /\ row' = row /\ invited' = invited /\ session' = session
      /\ outside' = outside /\ outbox' = outbox /\ mailed' = mailed /\ refresh' = refresh
      /\ lastId' = lastId /\ founders' = founders
  BY <1>1 DEF tables, mail
<1>6. user[r] = Blank
  BY <1>1, HandlerFacts, NoRequestTyped DEF RequestSound, Initialising
<1>7. /\ row[u] # NoRow /\ row[u] \in Row /\ TrueOf(chosen, lastId, em, u, row[u])
      /\ u \in 1..lastId
  BY <1>1, <1>3, <1>4 DEF AccountsInv, TablesSound, CopiesTrue, Typed
<1>8. \A v \in Ids : chosen'[v] = IF v = u THEN chosen[u] \cup {p} ELSE chosen[v]
  BY <1>1, <1>3 DEF Typed
<1>9. /\ req' \in [Requests -> Request]
      /\ \A w \in Requests : req'[w] = IF w = r THEN q ELSE req[w]
  BY <1>1, <1>2, <1>3 DEF Step, Typed
<1>10. Typed'
  <2>1. chosen' \in [Ids -> SUBSET Passwords]
    BY <1>1, <1>3 DEF Typed
  <2>2. QED
    BY <1>3, <1>5, <1>9, <2>1 DEF Typed
<1>11. Forward
  BY <1>3, <1>5, <1>8 DEF Forward, Typed
<1>12. /\ Pointers(alias', user') /\ KeysTrue(alias', user')
       /\ \A w \in Requests : w # r => user'[w] = user[w]
       /\ user'[r].id = u
       /\ \A h \in Holders :
            \/ user'[h] = user[h]
            \/ user'[h].is # NoRow /\ TrueOf(chosen, lastId, em, user'[h].id, user'[h].is)
  <2>1. CASE alias[<<s, u>>] # {}
    <3>1. Joined(<<s, u>>, {r})
      BY <1>1, <2>1
    <3>2. <<s, u>> \in Holders /\ {r} \in SUBSET Holders
      BY HolderFacts
    <3>3. /\ Pointers(alias', user') /\ KeysTrue(alias', user')
          /\ \A h \in Holders : user'[h] = IF h \in {r} THEN user[<<s, u>>] ELSE user[h]
      <4>1. KeysTrue(alias', user')
        BY <1>3, <2>1, <3>1, <3>2, JoinedKeepsKeys, ZenonT(30)
      <4>2. /\ Pointers(alias', user')
            /\ \A h \in Holders : user'[h] = IF h \in {r} THEN user[<<s, u>>] ELSE user[h]
        BY <1>3, <2>1, <3>1, <3>2, JoinedPointers, ZenonT(30)
      <4>3. QED
        BY <4>1, <4>2
    <3>4. user[<<s, u>>] # Blank /\ user[<<s, u>>].id = u
      BY <1>3, <2>1, <3>2 DEF Pointers, KeysTrue
    <3>5. user'[r] = user[<<s, u>>] /\ \A h \in Holders : h # r => user'[h] = user[h]
      BY <3>3, HolderFacts
    <3>6. user'[r].is # NoRow /\ TrueOf(chosen, lastId, em, user'[r].id, user'[r].is)
      BY <1>4, <3>2, <3>4, <3>5 DEF CopiesTrue
    <3>7. QED
      BY <3>3, <3>4, <3>5, <3>6, HolderFacts
  <2>2. CASE alias[<<s, u>>] = {}
    <3>1. PointsToNew(r, o)
      BY <1>1, <2>2
    <3>2. o \in Object /\ o # Blank /\ o.id = u /\ o.is = row[u]
      BY <1>7 DEF Object, Blank
    <3> HIDE DEF o
    <3>3. /\ Pointers(alias', user') /\ KeysTrue(alias', user')
          /\ \A h \in Holders : user'[h] = IF h = r THEN o ELSE user[h]
      BY <1>3, <1>6, <3>1, <3>2, PointsToNewPointers
    <3>4. user'[r] = o /\ \A h \in Holders : h # r => user'[h] = user[h]
      BY <3>3, HolderFacts
    <3>5. QED
      BY <1>7, <3>2, <3>3, <3>4, HolderFacts
  <2>3. QED
    BY <2>1, <2>2
<1>13. /\ \A h \in Holders :
            \/ user'[h] = user[h]
            \/ user'[h].is # NoRow /\ TrueOf(chosen', lastId', em, user'[h].id, user'[h].is)
  <2>1. \A v \in 1..lastId : em[v] = em[v] /\ chosen[v] \subseteq chosen'[v]
    BY <1>3, <1>11 DEF Forward
  <2>2. \A v, w : TrueOf(chosen, lastId, em, v, w) => TrueOf(chosen', lastId', em, v, w)
    BY <1>3, <1>5, <2>1, TrueGrows
  <2>3. QED
    BY <1>12, <2>2
<1>14. RequestSound(q, user'[r], tenant', outside', founders', lastId', row', chosen')
  BY <1>2, <1>5, <1>7, <1>8, <1>12
     DEF RequestSound, CreateSound, InitSound, Creating, Inserted, Initialising
<1>15. ASSUME NEW w \in Requests
       PROVE  \/ req'[w] = req[w] /\ Kept(w)
              \/ /\ RequestSound(req'[w], user'[w], tenant', outside', founders', lastId', row',
                                 chosen')
                 /\ TrueOf(chosen', lastId', em, req'[w].id, req'[w].image)
  <2>1. CASE w = r
    BY <1>2, <1>9, <1>14, <2>1 DEF TrueOf
  <2>2. CASE w # r
    BY <1>5, <1>9, <1>12, <2>2 DEF Kept
  <2>3. QED
    BY <2>1, <2>2
<1>16. IdsDistinct'
  BY <1>2, <1>9 DEF AccountsInv, IdsDistinct, Inserted
<1>17. TablesSound'
  <2>1. \A v \in Ids : v > lastId' => chosen'[v] = {}
    BY <1>3, <1>5, <1>7, <1>8 DEF AccountsInv, TablesSound
  <2>2. QED
    BY <1>5, <2>1 DEF AccountsInv, TablesSound
<1>18. TenantComplete'
  BY <1>5 DEF AccountsInv, TenantComplete, Stored
<1>19. SessionEarned'
  <2>1. ASSUME NEW t \in session
        PROVE  t[2] \in chosen'[t[1]]
    <3>1. t[1] \in Ids /\ t[2] \in chosen[t[1]]
      BY <1>3 DEF AccountsInv, SessionEarned, Typed
    <3>2. QED
      BY <1>11, <3>1 DEF Forward
  <2>2. QED
    BY <1>5, <2>1 DEF SessionEarned
<1>20. QED
  BY <1>4, <1>5, <1>10, <1>11, <1>12, <1>13, <1>15, <1>16, <1>17, <1>18, <1>19, FrameInv

\* Every step keeps the invariant.
LEMMA StepAccountsInv == AccountsInv /\ [Next]_vars => AccountsInv'
<1> SUFFICES ASSUME AccountsInv, [Next]_vars
             PROVE  AccountsInv'
  OBVIOUS
<1>1. ASSUME NEW r \in Requests, NEW s \in Servers, Begin(r, s)
      PROVE  AccountsInv'
  BY <1>1, CreateTenantInv, CreateUsersInv, InitUserInv DEF Begin
<1>2. ASSUME NEW r \in Requests, HandlerStep(r)
      PROVE  AccountsInv'
  <2>1. CASE ReturnsError(r)
    BY <2>1, ReturnsErrorInv
  <2>2. CASE MakeOutside(r)
    BY <2>2, MakeOutsideInv
  <2>3. CASE InsertTenant(r)
    BY <2>3, InsertTenantInv
  <2>4. CASE CreateStore(r)
    BY <2>4, CreateStoreInv
  <2>5. CASE InsertUser(r)
    BY <2>5, InsertUserInv
  <2>6. CASE InsertActivation(r)
    BY <2>6, InsertActivationInv
  <2>7. CASE CommitUsers(r)
    BY <2>7, CommitUsersInv
  <2>8. CASE UpdateObject(r)
    BY <2>8, UpdateObjectInv
  <2>9. CASE Marshal(r)
    BY <2>9, MarshalInv
  <2>10. CASE WriteUser(r)
    BY <2>10, WriteUserInv
  <2>11. CASE SetCache(r)
    BY <2>11, SetCacheInv
  <2>12. CASE LogInAgain(r)
    BY <2>12, LogInAgainInv
  <2>13. CASE CommitInit(r)
    BY <2>13, CommitInitInv
  <2>14. QED
    BY <1>2, <2>1, <2>2, <2>3, <2>4, <2>5, <2>6, <2>7, <2>8, <2>9, <2>10, <2>11, <2>12, <2>13
       DEF HandlerStep
<1>3. ASSUME NEW s \in Servers, RefreshStep(s)
      PROVE  AccountsInv'
  BY <1>3, ReadUsersInv, FlushInv, SetEntriesInv DEF RefreshStep
<1>4. ASSUME UNCHANGED vars
      PROVE  AccountsInv'
  <2>1. /\ tenant' = tenant /\ row' = row /\ invited' = invited /\ session' = session
        /\ outside' = outside /\ lastId' = lastId /\ outbox' = outbox /\ mailed' = mailed
        /\ alias' = alias /\ user' = user /\ refresh' = refresh /\ req' = req
        /\ chosen' = chosen /\ founders' = founders
    BY <1>4 DEF vars, tables, mail, memory
  <2>2. Typed /\ Pointers(alias, user) /\ KeysTrue(alias, user)
    BY TypedOfInv
  <2>3. PICK em \in AllEmails : CopiesTrue(em)
    BY TypedOfInv
  <2>4. session' \subseteq Ids \X Passwords /\ SessionEarned'
    BY <2>1, <2>2 DEF AccountsInv, SessionEarned, Typed
  <2>5. /\ refresh' \in [Servers -> Refresh] /\ req' \in [Requests -> Request]
        /\ Pointers(alias', user') /\ KeysTrue(alias', user')
    BY <2>1, <2>2 DEF Typed
  <2>6. QED
    BY <2>1, <2>3, <2>4, <2>5, ServerFrame
<1>5. QED
  BY <1>1, <1>2, <1>3, <1>4, SendInitMailInv, RestartInv, LogInInv DEF Next

-----------------------------------------------------------------------------
(* What follows for every execution.                                       *)

\* In every state the copies of a user agree on what never changes, the caches' entries
\* are the objects they stand for, and each handler has what it needs to go on.
THEOREM AccountsInvariant == Spec => []AccountsInv
<1>1. QED
  BY InitAccountsInv, StepAccountsInv, PTL DEF Spec

\* Tables, memory and requests keep the shape the code gives them.
THEOREM TypeCorrect == Spec => []TypeOK
<1>1. AccountsInv => TypeOK
  BY DEF AccountsInv
<1>2. QED
  BY <1>1, AccountsInvariant, PTL

\* A tenant that is stored is complete, whatever failed on the way, and no user of it is
\* pending without an activation.
THEOREM TenantHolds == Spec => []TenantComplete
<1>1. AccountsInv => TenantComplete
  BY DEF AccountsInv
<1>2. QED
  BY <1>1, AccountsInvariant, PTL

\* A step that inserts no tenant and no user of one keeps what the founders rely on:
\* mails at most leave the outbox.
LEMMA FoundingFrame ==
  ASSUME FoundingSound, tenant' = tenant, invited' = invited,
         outbox' \cup mailed' \subseteq outbox \cup mailed, outside \subseteq outside',
         \A w \in Requests : req'[w] = req[w] \/ ~Founding(req'[w])
  PROVE  FoundingSound'
<1>1. \A r \in Requests : Founding(req'[r]) => req'[r] = req[r]
  OBVIOUS
<1>2. \A r \in Requests : Founding(req'[r]) =>
        tenant' = "none" /\ \A w \in Requests : Founding(req'[w]) => w = r
  BY <1>1 DEF FoundingSound
<1>3. tenant' = "stored" \/ IndexFree' => outbox' \cup mailed' \subseteq invited'
  BY DEF FoundingSound, IndexFree
<1>4. ASSUME NEW r \in Requests, Founding(req'[r]), req'[r].pc # "index"
      PROVE  outbox' \cup mailed' \subseteq
               invited' \cup IF req'[r].pc = "commit" THEN Pending(req'[r].image, req'[r].id) ELSE {}
  BY <1>1, <1>4 DEF FoundingSound
<1>5. QED
  BY <1>2, <1>3, <1>4 DEF FoundingSound

\* The handler of r goes on to pc, and the other requests stay where they are.
LEMMA GotoFacts ==
  ASSUME AccountsInv, NEW r \in Requests, NEW pc, Goto(r, pc)
  PROVE  /\ \A w \in Requests : w # r => req'[w] = req[w]
         /\ req'[r].pc = pc /\ req'[r].nested = req[r].nested
         /\ req'[r].image = req[r].image /\ req'[r].id = req[r].id
<1>1. req \in [Requests -> Request] /\ req[r] \in Request
  BY TypedOfInv DEF Typed
<1>2. \A w \in Requests : req'[w] = IF w = r THEN [req[r] EXCEPT !.pc = pc] ELSE req[w]
  BY <1>1 DEF Goto, Step
<1>3. QED
  BY <1>1, <1>2 DEF Request

\* The steps of CreateTenant that FoundingFrame does not cover.
LEMMA FoundingSteps ==
  ASSUME AccountsInv, FoundingSound, NEW r \in Requests,
         \/ InsertTenant(r) \/ CreateStore(r) \/ InsertUser(r)
         \/ InsertActivation(r) \/ CommitUsers(r)
  PROVE  FoundingSound'
<1>1. CASE InsertTenant(r)
  <2>1. /\ tenant = "none" /\ req[r].pc = "tenant" /\ Goto(r, "index")
        /\ \A w \in Requests : ~Founding(req[w])
        /\ tenant' = tenant /\ outside' = outside /\ invited' = invited
        /\ outbox' = outbox /\ mailed' = mailed
    BY <1>1 DEF InsertTenant, Founding, Inserted, tables, mail
  <2>2. /\ \A w \in Requests : w # r => req'[w] = req[w]
        /\ req'[r].pc = "index"
    BY <2>1, GotoFacts
  <2>3. QED
    BY <2>1, <2>2 DEF FoundingSound, IndexFree
<1>2. CASE CreateStore(r)
  <2>1. /\ req[r].pc = "index" /\ Goto(r, "insert") /\ IndexFree
        /\ tenant' = tenant /\ outside' = outside \cup {"index"} /\ invited' = invited
        /\ outbox' = outbox /\ mailed' = mailed
    BY <1>2 DEF CreateStore, tables, mail
  <2>2. /\ \A w \in Requests : w # r => req'[w] = req[w]
        /\ req'[r].pc = "insert" /\ req'[r].nested = req[r].nested
    BY <2>1, GotoFacts
  <2>3. \A w \in Requests : Founding(req'[w]) <=> Founding(req[w])
    <3>1. Founding(req'[r]) <=> Founding(req[r])
      BY <2>1, <2>2 DEF Founding
    <3>2. QED
      BY <2>2, <3>1
  <2>4. outbox' \cup mailed' \subseteq invited'
    BY <2>1 DEF FoundingSound
  <2>5. QED
    BY <2>1, <2>3, <2>4 DEF FoundingSound
<1>3. CASE InsertUser(r)
  <2> DEFINE new == NewUser(req[r].email, req[r].password)
             u == lastId + 1
             q == [req[r] EXCEPT !.pc = "activate", !.id = u, !.image = new]
  <2>1. /\ req[r].pc = "insert" /\ Step(r, q)
        /\ tenant' = tenant /\ outside' = outside /\ invited' = invited
        /\ outbox' = outbox /\ mailed' = mailed
    BY <1>3 DEF InsertUser, tables, mail
  <2>2. req \in [Requests -> Request] /\ req[r] \in Request
    BY TypedOfInv DEF Typed
  <2>3. q.pc = "activate" /\ q.nested = req[r].nested
    BY <2>2 DEF Request
  <2> HIDE DEF q
  <2>4. \A w \in Requests : req'[w] = IF w = r THEN q ELSE req[w]
    BY <2>1, <2>2 DEF Step
  <2>5. \A w \in Requests : Founding(req'[w]) <=> Founding(req[w])
    <3>1. Founding(q) <=> Founding(req[r])
      BY <2>1, <2>3 DEF Founding, Inserted
    <3>2. QED
      BY <2>4, <3>1
  <2>6. ASSUME NEW w \in Requests, Founding(req'[w]), req'[w].pc # "index"
        PROVE  outbox' \cup mailed' \subseteq
                 invited' \cup IF req'[w].pc = "commit" THEN Pending(req'[w].image, req'[w].id) ELSE {}
    <3>1. CASE w = r
      <4>1. Founding(req[r]) /\ req[r].pc # "index" /\ req[r].pc # "commit"
        BY <2>1, <2>5, <2>6, <3>1
      <4>2. outbox \cup mailed \subseteq invited
        BY <4>1 DEF FoundingSound
      <4>3. QED
        BY <2>1, <4>2
    <3>2. CASE w # r
      BY <2>1, <2>4, <2>6, <3>2 DEF FoundingSound
    <3>3. QED
      BY <3>1, <3>2
  <2>7. tenant' = "stored" \/ IndexFree' => outbox' \cup mailed' \subseteq invited'
    BY <2>1 DEF FoundingSound, IndexFree
  <2>8. QED
    BY <2>1, <2>5, <2>6, <2>7 DEF FoundingSound
<1>4. CASE InsertActivation(r)
  <2>1. /\ req[r].pc = "activate" /\ Goto(r, "commit")
        /\ outbox' = IF req[r].nested THEN outbox \cup Pending(req[r].image, req[r].id) ELSE outbox
        /\ tenant' = tenant /\ outside' = outside /\ invited' = invited /\ mailed' = mailed
    BY <1>4 DEF InsertActivation, Queued, MailLeaves, tables
  <2>2. /\ \A w \in Requests : w # r => req'[w] = req[w]
        /\ req'[r].pc = "commit" /\ req'[r].nested = req[r].nested
        /\ req'[r].image = req[r].image /\ req'[r].id = req[r].id
    BY <2>1, GotoFacts
  <2>3. \A w \in Requests : Founding(req'[w]) <=> Founding(req[w])
    <3>1. Founding(req'[r]) <=> Founding(req[r])
      BY <2>1, <2>2 DEF Founding, Inserted
    <3>2. QED
      BY <2>2, <3>1
  <2>4. CASE ~req[r].nested
    <3>1. outbox' = outbox /\ ~Founding(req'[r])
      BY <2>1, <2>2, <2>4 DEF Founding
    <3>2. QED
      BY <2>1, <2>2, <3>1, FoundingFrame
  <2>5. CASE req[r].nested
    <3>1. Founding(req[r])
      BY <2>1, <2>5 DEF Founding, Inserted
    <3>2. /\ tenant = "none" /\ \A w \in Requests : Founding(req[w]) => w = r
          /\ outbox \cup mailed \subseteq invited
      BY <2>1, <3>1 DEF FoundingSound
    <3>3. "index" \in outside
      BY <2>1, <2>5, HandlerFacts DEF RequestSound, CreateSound, Creating, Inserted
    <3>4. outbox' \cup mailed' \subseteq invited' \cup Pending(req'[r].image, req'[r].id)
      BY <2>1, <2>2, <2>5, <3>2
    <3>5. QED
      BY <2>1, <2>2, <2>3, <3>2, <3>3, <3>4 DEF FoundingSound, IndexFree
  <2>6. QED
    BY <2>4, <2>5
<1>5. CASE CommitUsers(r)
  <2> DEFINE mine == Pending(req[r].image, req[r].id)
  <2>1. /\ req[r].pc = "commit" /\ Answered(r) /\ tenant' = "stored"
        /\ invited' = invited \cup mine /\ outbox' \subseteq outbox \cup mine
        /\ mailed' = mailed
    BY <1>5 DEF CommitUsers, Activations, Queued
  <2> HIDE DEF mine
  <2>2. \A w \in Requests : req'[w] = IF w = r THEN NoRequest ELSE req[w]
    BY <2>1, AnsweredFacts
  <2>3. req[r].nested \/ tenant = "stored"
    BY <2>1, HandlerFacts DEF RequestSound, CreateSound, Creating
  <2>4. ASSUME NEW w \in Requests, Founding(req'[w])
        PROVE  FALSE
    <3>1. w # r /\ Founding(req[w])
      BY <2>2, <2>4, NoRequestTyped DEF Founding, Inserted
    <3>2. tenant = "none" /\ ~Founding(req[r])
      BY <3>1 DEF FoundingSound
    <3>3. QED
      BY <2>1, <2>3, <3>2 DEF Founding, Inserted
  <2>5. outbox \cup mailed \subseteq invited \cup mine
    <3>1. CASE tenant = "stored"
      BY <3>1 DEF FoundingSound
    <3>2. CASE req[r].nested
      <4>1. Founding(req[r])
        BY <2>1, <3>2 DEF Founding, Inserted
      <4>2. QED
        BY <2>1, <4>1 DEF FoundingSound, mine
    <3>3. QED
      BY <2>3, <3>1, <3>2
  <2>6. QED
    BY <2>1, <2>4, <2>5 DEF FoundingSound
<1>6. QED
  BY <1>1, <1>2, <1>3, <1>4, <1>5

\* Every step keeps it.
LEMMA StepFounding == AccountsInv /\ FoundingSound /\ [Next]_vars => FoundingSound'
<1> SUFFICES ASSUME AccountsInv, FoundingSound, [Next]_vars
             PROVE  FoundingSound'
  OBVIOUS
<1>1. req \in [Requests -> Request]
  BY TypedOfInv DEF Typed
<1>2. ASSUME NEW r \in Requests, NEW q \in Request, Step(r, q), ~Founding(q),
             tenant' = tenant, invited' = invited, outbox' = outbox, mailed' = mailed,
             outside \subseteq outside'
      PROVE  FoundingSound'
  <2>1. \A w \in Requests : req'[w] = IF w = r THEN q ELSE req[w]
    BY <1>1, <1>2 DEF Step
  <2>2. QED
    BY <1>2, <2>1, FoundingFrame
<1>3. ASSUME NEW r \in Requests, NEW pc,
             pc \in {"folder", "tenant", "marshal", "cache", "login"}, Goto(r, pc),
             tenant' = tenant, invited' = invited, outbox' = outbox, mailed' = mailed,
             outside \subseteq outside'
      PROVE  FoundingSound'
  <2>1. [req[r] EXCEPT !.pc = pc] \in Request /\ [req[r] EXCEPT !.pc = pc].pc = pc
    BY <1>1, <1>3, GotoFields
  <2>2. ~Founding([req[r] EXCEPT !.pc = pc])
    BY <1>3, <2>1 DEF Founding, Inserted
  <2>3. QED
    BY <1>2, <1>3, <2>1, <2>2 DEF Goto
<1>4. ASSUME NEW r \in Requests, NEW s \in Servers, Begin(r, s)
      PROVE  FoundingSound'
  <2>1. /\ tenant' = tenant /\ invited' = invited /\ outbox' = outbox /\ mailed' = mailed
        /\ outside' = outside
    BY <1>4 DEF Begin, CreateTenant, CreateUsers, InitUser, tables, mail
  <2>2. CASE \E e \in Emails, p \in Optional(Passwords) : CreateTenant(r, s, e, p)
    <3>1. PICK e \in Emails, p \in Optional(Passwords) : CreateTenant(r, s, e, p)
      BY <2>2
    <3> DEFINE q == [NoRequest EXCEPT !.pc = "domain", !.server = s, !.email = e,
                                      !.password = p, !.nested = TRUE]
    <3>2. q \in Request /\ q.pc = "domain" /\ Step(r, q)
      BY <3>1, NoRequestTyped DEF CreateTenant, NoRequest, Request, Optional
    <3> HIDE DEF q
    <3>3. ~Founding(q)
      BY <3>2 DEF Founding, Inserted
    <3>4. QED
      BY <1>2, <2>1, <3>2, <3>3
  <2>3. CASE \E e \in Emails, p \in Optional(Passwords) : CreateUsers(r, s, e, p)
    <3>1. PICK e \in Emails, p \in Optional(Passwords) : CreateUsers(r, s, e, p)
      BY <2>3
    <3> DEFINE q == [NoRequest EXCEPT !.pc = "insert", !.server = s, !.email = e,
                                      !.password = p]
    <3>2. q \in Request /\ q.nested = FALSE /\ Step(r, q)
      BY <3>1, NoRequestTyped DEF CreateUsers, NoRequest, Request, Optional
    <3> HIDE DEF q
    <3>3. ~Founding(q)
      BY <3>2 DEF Founding
    <3>4. QED
      BY <1>2, <2>1, <3>2, <3>3
  <2>4. CASE \E u \in Ids, p \in Passwords : InitUser(r, s, u, p)
    <3>1. PICK u \in Ids, p \in Passwords : InitUser(r, s, u, p)
      BY <2>4
    <3> DEFINE q == [NoRequest EXCEPT !.pc = "update", !.server = s, !.id = u, !.password = p]
    <3>2. q \in Request /\ q.pc = "update" /\ Step(r, q)
      BY <3>1, NoRequestTyped DEF InitUser, NoRequest, Request, Optional
    <3> HIDE DEF q
    <3>3. ~Founding(q)
      BY <3>2 DEF Founding, Inserted
    <3>4. QED
      BY <1>2, <2>1, <3>2, <3>3
  <2>5. QED
    BY <1>4, <2>2, <2>3, <2>4 DEF Begin
<1>5. ASSUME NEW r \in Requests, HandlerStep(r)
      PROVE  FoundingSound'
  <2>1. CASE ReturnsError(r)
    <3>1. /\ Step(r, NoRequest) /\ tenant' = tenant /\ invited' = invited
          /\ outbox' = outbox /\ mailed' = mailed /\ outside' = outside
      BY <2>1 DEF ReturnsError, Answered, tables, mail
    <3>2. QED
      BY <1>2, <3>1, NoRequestTyped DEF Founding, Inserted
  <2>2. CASE MakeOutside(r)
    <3>1. /\ Goto(r, "folder") \/ Goto(r, "tenant")
          /\ outside \subseteq outside' /\ tenant' = tenant /\ invited' = invited
          /\ outbox' = outbox /\ mailed' = mailed
      BY <2>2 DEF MakeOutside, tables, mail
    <3>2. QED
      BY <1>3, <3>1
  <2>3. CASE UpdateObject(r) \/ WriteUser(r) \/ SetCache(r)
    <3>1. /\ Goto(r, "marshal") \/ Goto(r, "cache") \/ Goto(r, "login")
          /\ outside' = outside /\ tenant' = tenant /\ invited' = invited
          /\ outbox' = outbox /\ mailed' = mailed
      BY <2>3 DEF UpdateObject, WriteUser, SetCache, tables, mail
    <3>2. QED
      BY <1>3, <3>1
  <2>4. CASE Marshal(r)
    <3> DEFINE q == [req[r] EXCEPT !.pc = "write", !.image = user[r].is]
    <3>1. /\ Step(r, q) /\ outside' = outside /\ tenant' = tenant /\ invited' = invited
          /\ outbox' = outbox /\ mailed' = mailed
      BY <2>4 DEF Marshal, tables, mail
    <3>2. user[r].is \in Row
      BY TypedOfInv, HolderFacts DEF Pointers, Object
    <3>3. q \in Request /\ q.pc = "write"
      BY <1>1, <3>2 DEF Request
    <3> HIDE DEF q
    <3>4. ~Founding(q)
      BY <3>3 DEF Founding, Inserted
    <3>5. QED
      BY <1>2, <3>1, <3>3, <3>4
  <2>5. CASE LogInAgain(r)
    <3>1. PICK o : /\ Step(r, [req[r] EXCEPT !.pc = "session", !.found = o])
                   /\ outside' = outside /\ tenant' = tenant /\ invited' = invited
                   /\ outbox' = outbox /\ mailed' = mailed
      BY <2>5 DEF LogInAgain, tables, mail
    <3> DEFINE q == [req[r] EXCEPT !.pc = "session", !.found = o]
    <3>2. q.pc = "session"
      BY <1>1 DEF Request
    <3> HIDE DEF q
    <3>3. \A w \in Requests : req'[w] = IF w = r THEN q ELSE req[w]
      BY <1>1, <3>1 DEF Step, q
    <3>4. ~Founding(q)
      BY <3>2 DEF Founding, Inserted
    <3>5. QED
      BY <3>1, <3>3, <3>4, FoundingFrame
  <2>6. CASE CommitInit(r)
    <3>1. /\ Step(r, NoRequest) /\ tenant' = tenant /\ invited' = invited
          /\ outbox' = outbox /\ mailed' = mailed /\ outside' = outside
      BY <2>6 DEF CommitInit, Answered, mail
    <3>2. QED
      BY <1>2, <3>1, NoRequestTyped DEF Founding, Inserted
  <2>7. QED
    BY <1>5, <2>1, <2>2, <2>3, <2>4, <2>5, <2>6, FoundingSteps DEF HandlerStep
<1>6. ASSUME tenant' = tenant, invited' = invited, outside' = outside,
             outbox' \cup mailed' \subseteq outbox \cup mailed,
             \A w \in Requests : req'[w] = req[w] \/ req'[w] = NoRequest
      PROVE  FoundingSound'
  <2>1. ~Founding(NoRequest)
    BY NoRequestTyped DEF Founding, Inserted
  <2>2. QED
    BY <1>6, <2>1, FoundingFrame
<1>7. ASSUME NEW u \in Ids, SendInitMail(u)
      PROVE  FoundingSound'
  BY <1>6, <1>7 DEF SendInitMail, tables
<1>8. ASSUME NEW s \in Servers, RefreshStep(s)
      PROVE  FoundingSound'
  BY <1>6, <1>8 DEF RefreshStep, ReadUsers, Flush, SetEntries, tables, mail
<1>9. ASSUME NEW s \in Servers, Restart(s)
      PROVE  FoundingSound'
  <2>1. /\ tenant' = tenant /\ invited' = invited /\ outside' = outside
        /\ outbox' = outbox /\ mailed' = mailed
        /\ \A w \in Requests : req'[w] = req[w] \/ req'[w] = NoRequest
    BY <1>9 DEF Restart, tables, mail
  <2>2. QED
    BY <1>6, <2>1
<1>10. ASSUME NEW s \in Servers, NEW n \in Names, NEW p \in Passwords, LogIn(s, n, p)
       PROVE  FoundingSound'
  BY <1>6, <1>10 DEF LogIn, mail
<1>11. CASE UNCHANGED vars
  BY <1>6, <1>11 DEF vars, tables, mail
<1>12. QED
  BY <1>4, <1>5, <1>7, <1>8, <1>9, <1>10, <1>11 DEF Next

\* Of a tenant that is stored no mail is ahead of its activation, nor is one left from
\* an attempt that failed: who gets a link can use it.
THEOREM MailHolds == Spec => []MailedTokenKnown
<1>1. Init => FoundingSound
  BY NoRequestTyped DEF Init, FoundingSound, Founding, Inserted
<1>2. FoundingSound => MailedTokenKnown
  BY DEF FoundingSound, MailedTokenKnown
<1>3. QED
  BY <1>1, <1>2, StepFounding, AccountsInvariant, PTL DEF Spec

\* A session belongs to someone who gave the password of its user at creation or with
\* the token, whatever objects log in has found in the cache, and whichever of two
\* users of one name the entry of the name stands for.
THEOREM EarnedHolds == Spec => []SessionEarned
<1>1. AccountsInv => SessionEarned
  BY DEF AccountsInv
<1>2. QED
  BY <1>1, AccountsInvariant, PTL

\* The first of the users of a name that has one user is that user.
LEMMA OnlyNamed ==
  ASSUME AccountsInv, NEW s \in Servers, NEW u \in Ids, Coherent,
         row[u].status = "normal", Named(row, NameOf[row[u].email]) = {u}
  PROVE  Accepts(ByUsername(s, NameOf[row[u].email], row), row[u].password)
<1> DEFINE n == NameOf[row[u].email]
<1>1. Typed /\ Pointers(alias, user) /\ KeysTrue(alias, user) /\ lastId \in Nat
  BY TypedOfInv
<1>2. PICK em \in AllEmails : CopiesTrue(em)
  BY TypedOfInv
<1>3. 0 \notin Ids
  BY AccountsAssumption DEF Ids
<1>4. row[u] \in Row /\ row[u] # NoRow /\ TrueOf(chosen, lastId, em, u, row[u])
  BY <1>1, <1>2, BlankTyped DEF Typed, CopiesTrue
<1>5. n \in Names
  <2>1. row[u].email \in Emails
    BY <1>4 DEF TrueOf
  <2>2. QED
    BY <2>1, AccountsAssumption
<1>6. Named(row, n) = {u}
  OBVIOUS
<1> HIDE DEF n
<1>7. CASE alias[<<s, n>>] = {}
  <2>1. Min({u}) = u
    BY MinOfIds
  <2>2. ByUsername(s, n, row) = [id |-> u, is |-> row[u]]
    BY <1>6, <1>7, <2>1 DEF ByUsername, FirstNamed
  <2>3. QED
    BY <1>3, <2>2 DEF Accepts, n
<1>8. CASE alias[<<s, n>>] # {}
  <2> DEFINE o == user[<<s, n>>]
             v == o.id
  <2>1. <<s, n>> \in Holders
    BY <1>5, HolderFacts
  <2>2. v \in Ids /\ NameOf[o.is.email] = n /\ <<s, v>> \in alias[<<s, n>>]
    BY <1>1, <1>5, <1>8, <2>1 DEF Pointers, KeysTrue
  <2>3. alias[<<s, v>>] # {} /\ user[<<s, v>>] = o /\ o # Blank
    BY <1>1, <2>1, <2>2, SharedFacts
  <2>4. o.is = row[v]
    BY <2>2, <2>3 DEF Coherent
  <2>5. o.is.status # "none"
    <3>1. o.is # NoRow /\ TrueOf(chosen, lastId, em, v, o.is)
      BY <1>2, <2>1, <2>3 DEF CopiesTrue
    <3>2. QED
      BY <3>1 DEF TrueOf
  <2>6. v \in Named(row, n)
    BY <2>2, <2>4, <2>5 DEF Named, Stored
  <2>7. v = u
    BY <1>6, <2>6
  <2>8. ByUsername(s, n, row) = o
    BY <1>8 DEF ByUsername
  <2>9. QED
    BY <1>3, <2>4, <2>7, <2>8 DEF Accepts, n
<1>9. QED
  BY <1>7, <1>8 DEF n

\* Who is activated gets in by name wherever the cache is not stale, whatever failed
\* requests have left under the name.
THEOREM LogInHolds == Spec => []LogInByName
<1>1. AccountsInv => LogInByName
  BY OnlyNamed DEF LogInByName
<1>2. QED
  BY <1>1, AccountsInvariant, PTL

\* No commit takes an activation back, or gives a user the password of another.
LEMMA ActivationStep ==
  ASSUME AccountsInv, [Next]_vars, NEW u \in Ids, row[u].status = "normal"
  PROVE  row'[u].status = "normal" /\ row'[u].password \in chosen[u]
<1>1. Typed /\ lastId \in Nat /\ 1..lastId \subseteq Ids
  BY TypedOfInv
<1>2. PICK em \in AllEmails : CopiesTrue(em)
  BY TypedOfInv
<1>3. row[u].password \in chosen[u]
  BY <1>2, BlankTyped DEF CopiesTrue, TrueOf
<1>4. CASE row' = row
  BY <1>3, <1>4
<1>5. ASSUME NEW r \in Requests, req[r].id \in Ids, row' = Seen(r),
             req[r].id = u => req[r].image.status = "normal"
      PROVE  row'[u].status = "normal" /\ row'[u].password \in chosen[u]
  <2>1. /\ row'[u] = IF u = req[r].id THEN req[r].image ELSE row[u]
        /\ TrueOf(chosen, lastId, em, u, row'[u])
    BY <1>2, <1>5, SeenFacts
  <2>2. QED
    BY <1>3, <1>5, <2>1, BlankTyped DEF TrueOf
<1>6. ASSUME NEW r \in Requests, CommitUsers(r)
      PROVE  row'[u].status = "normal" /\ row'[u].password \in chosen[u]
  <2>1. req[r].id \in 1..lastId /\ row[req[r].id] = NoRow
    BY <1>6, HandlerFacts DEF CommitUsers, RequestSound, CreateSound, Creating, Inserted
  <2>2. req[r].id # u
    BY <2>1, BlankTyped
  <2>3. QED
    BY <1>1, <1>5, <1>6, <2>1, <2>2 DEF CommitUsers
<1>7. ASSUME NEW r \in Requests, CommitInit(r)
      PROVE  row'[u].status = "normal" /\ row'[u].password \in chosen[u]
  <2>1. req[r].id \in Ids /\ req[r].image.status = "normal"
    BY <1>7, HandlerFacts DEF CommitInit, RequestSound, InitSound, Initialising
  <2>2. QED
    BY <1>5, <1>7, <2>1 DEF CommitInit
<1>8. \/ row' = row
      \/ \E r \in Requests : CommitUsers(r) \/ CommitInit(r)
  <2>1. ASSUME NEW r \in Requests, NEW s \in Servers, Begin(r, s)
        PROVE  row' = row
    BY <2>1, ZenonT(30) DEF Begin, CreateTenant, CreateUsers, InitUser, tables
  <2>2. ASSUME NEW r \in Requests, HandlerStep(r)
        PROVE  row' = row \/ CommitUsers(r) \/ CommitInit(r)
    BY <2>2, ZenonT(30)
       DEF HandlerStep, ReturnsError, MakeOutside, InsertTenant, CreateStore, InsertUser,
           InsertActivation, UpdateObject, Marshal, WriteUser, SetCache, LogInAgain, tables
  <2>3. ASSUME NEW v \in Ids, SendInitMail(v)
        PROVE  row' = row
    BY <2>3, ZenonT(30) DEF SendInitMail, tables
  <2>4. ASSUME NEW s \in Servers,
               \/ RefreshStep(s) \/ Restart(s)
               \/ \E n \in Names, p \in Passwords : LogIn(s, n, p)
        PROVE  row' = row
    BY <2>4, ZenonT(30) DEF RefreshStep, ReadUsers, Flush, SetEntries, Restart, LogIn, tables
  <2>5. CASE UNCHANGED vars
    BY <2>5 DEF vars, tables
  <2>6. QED
    BY <2>1, <2>2, <2>3, <2>4, <2>5 DEF Next
<1>9. QED
  BY <1>4, <1>6, <1>7, <1>8

\* An activated user stays activated, with a password that was given for it.
THEOREM ActivationHolds == Spec => ActivationKept
<1>1. AccountsInv /\ [Next]_vars
        => [\A u \in Ids : row[u].status = "normal" =>
              row'[u].status = "normal" /\ row'[u].password \in chosen[u]]_vars
  BY ActivationStep
<1>2. QED
  BY <1>1, AccountsInvariant, PTL DEF Spec, ActivationKept
=============================================================================
