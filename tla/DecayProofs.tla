---------------------------- MODULE DecayProofs ----------------------------
(***************************************************************************)
(* Theorems about decay, for any items, durations and bounds.  The calls   *)
(* of the module Decay are compositions on the record of what they change, *)
(* and most of them find an item half way: marked but not listed, or       *)
(* listed but no longer in the world.  So the lemmas say of each call what *)
(* it does to one item, and the invariant is put together again at the     *)
(* end of an action.                                                       *)
(***************************************************************************)
EXTENDS Decay, FiniteSetTheorems, TLAPS

Checks == {c \in UNION {[D -> Nat] : D \in SUBSET Nat} : IsFiniteSet(DOMAIN c)}

WorldType == [map : [Times -> SUBSET Items], checks : Checks, id : Nat,
              item : [Items -> ItemRecord], release : [Items -> Nat],
              saved : Times \cup {End, Gone}]

Listed(w, i) == \E t \in Times : i \in w.map[t]

\* The references an item has for its place, for the map, and for its releases to come.
Own(w, i) == (IF w.item[i].place = "placed" THEN 1 ELSE 0)
             + (IF Listed(w, i) THEN 1 ELSE 0) + w.release[i]

\* The references of i that are accounted for nowhere in w.
Debt(w, i) == w.item[i].refs - Own(w, i)

\* The map lists i under its stamp, unless checkDecay has taken it to T.
Agree(w, T, i) == \A t \in Times : i \in w.map[t] <=> w.item[i].stamp = t /\ i \notin T

\* What is marked expires, but for a copy; what has a stamp is marked, and can expire.
Marked(w, T, i) ==
    /\ w.item[i].state = "true" => w.item[i].stamp # None \/ i \in T \/ w.item[i].copy
    /\ w.item[i].stamp # None => w.item[i].state = "true" /\ CanDecay(w, i)

Unborn(w, i) == w.item[i].place = "unborn" => w.item[i].refs = 0

Sound(w, T) == \A i \in Items : Agree(w, T, i) /\ Marked(w, T, i) /\ Unborn(w, i)

Balanced(w, T) == \A i \in Items : Debt(w, i) = IF i \in T THEN 1 ELSE 0

\* A check is pending for t, or the iterator that checkDecay keeps will see to it.
Covers(w, t) == \E k \in DOMAIN w.checks : w.checks[k] <= Later(t, now) + MinTicks

Covered(w) ==
    w.saved # Gone =>
        \A t \in Buckets(w) : Covers(w, t) \/ (w.saved \in Times /\ w.saved <= t)

IInv ==
    /\ TypeOK /\ checks \in Checks
    /\ pc = "idle" => temp = {} /\ saved = End
    /\ Sound(World, temp)
    /\ Balanced(World, temp)
    /\ ~dangling => Covered(World)

-----------------------------------------------------------------------------
(* What a call does.                                                       *)

\* Nothing changes for the items outside X.
Apart(w, z, X) == \A j \in Items \ X : /\ z.item[j] = w.item[j]
                                       /\ z.release[j] = w.release[j]
                                       /\ \A t \in Times : j \in z.map[t] <=> j \in w.map[t]

\* Nor does any item move, change its type, or owe more or less.
Placing(w, z) == \A j \in Items : /\ z.item[j].burns = w.item[j].burns
                                  /\ z.item[j].place = w.item[j].place
                                  /\ z.item[j].copy = w.item[j].copy

Kept(w, z) == /\ z \in WorldType
              /\ Placing(w, z)
              /\ \A j \in Items : Debt(z, j) = Debt(w, j)
              /\ Covered(w) => Covered(z)
              /\ w.saved = End => z.saved = End

LEMMA ApartOwn ==
    ASSUME NEW w, NEW z, NEW X, Apart(w, z, X), NEW j \in Items \ X
    PROVE  Own(z, j) = Own(w, j) /\ Debt(z, j) = Debt(w, j)
  <1>1. Listed(z, j) <=> Listed(w, j)
    BY DEF Listed, Apart
  <1> QED BY <1>1 DEF Own, Debt, Apart

LEMMA PlacingDecay ==
    ASSUME NEW w, NEW z, Placing(w, z), NEW j \in Items
    PROVE  CanDecay(z, j) <=> CanDecay(w, j)
  BY DEF Placing, CanDecay

LEMMA ApartSound ==
    ASSUME NEW w, NEW z, NEW X, NEW T, Apart(w, z, X), NEW j \in Items \ X,
           CanDecay(w, j) => CanDecay(z, j)
    PROVE  /\ Agree(w, T, j) => Agree(z, T, j)
           /\ Marked(w, T, j) => Marked(z, T, j)
           /\ Unborn(w, j) => Unborn(z, j)
  BY DEF Apart, Agree, Marked, Unborn

LEMMA PutGives ==
    ASSUME NEW w \in WorldType, NEW i \in Items, NEW r \in ItemRecord
    PROVE  LET z == Put(w, i, r) IN
           /\ z \in WorldType
           /\ z.map = w.map /\ z.checks = w.checks /\ z.id = w.id
           /\ z.release = w.release /\ z.saved = w.saved
           /\ \A j \in Items : z.item[j] = IF j = i THEN r ELSE w.item[j]
           /\ Apart(w, z, {i})
           /\ Covered(z) <=> Covered(w)
           /\ \A j \in Items : Listed(z, j) <=> Listed(w, j)
  <1> DEFINE f == [w.item EXCEPT ![i] = r]
             z == [w EXCEPT !.item = f]
  <1>1. Put(w, i, r) = z
    BY DEF Put
  <1>2. f \in [Items -> ItemRecord] /\ f[i] = r /\ \A j \in Items \ {i} : f[j] = w.item[j]
    BY DEF WorldType
  <1> HIDE DEF f
  <1>3. /\ z \in WorldType
        /\ z.map = w.map /\ z.checks = w.checks /\ z.id = w.id
        /\ z.release = w.release /\ z.saved = w.saved /\ z.item = f
    BY <1>2 DEF WorldType
  <1> HIDE DEF z
  <1>4. Apart(w, z, {i})
    BY <1>2, <1>3 DEF Apart
  <1>5. Covered(z) <=> Covered(w)
    BY <1>3 DEF Covered, Covers, Buckets
  <1>6. \A j \in Items : Listed(z, j) <=> Listed(w, j)
    BY <1>3 DEF Listed
  <1> QED BY <1>1, <1>2, <1>3, <1>4, <1>5, <1>6

LEMMA PutItem ==
    ASSUME NEW w \in WorldType, NEW i \in Items, NEW r \in ItemRecord, NEW j \in Items
    PROVE  Put(w, i, r).item[j] = IF j = i THEN r ELSE w.item[j]
  <1> DEFINE f == [w.item EXCEPT ![i] = r]
  <1>1. Put(w, i, r) = [w EXCEPT !.item = f]
    BY DEF Put
  <1>2. f[j] = IF j = i THEN r ELSE w.item[j]
    BY DEF WorldType
  <1> HIDE DEF f
  <1>3. Put(w, i, r).item = f
    BY <1>1 DEF WorldType
  <1> QED BY <1>2, <1>3

LEMMA ReleaseGives ==
    ASSUME NEW w \in WorldType, NEW i \in Items
    PROVE  LET z == Release(w, i) IN
           /\ z \in WorldType
           /\ z.map = w.map /\ z.checks = w.checks /\ z.item = w.item /\ z.saved = w.saved
           /\ \A j \in Items : Debt(z, j) = IF j = i THEN Debt(w, j) - 1 ELSE Debt(w, j)
           /\ Covered(z) <=> Covered(w)
           /\ \A T : Sound(z, T) <=> Sound(w, T)
  <1> DEFINE f == [w.release EXCEPT ![i] = @ + 1]
             z == [w EXCEPT !.release = f]
  <1>1. Release(w, i) = z
    BY DEF Release
  <1>2. /\ f \in [Items -> Nat]
        /\ \A j \in Items : f[j] = IF j = i THEN w.release[j] + 1 ELSE w.release[j]
    BY DEF WorldType
  <1> HIDE DEF f
  <1>3. /\ z \in WorldType
        /\ z.map = w.map /\ z.checks = w.checks /\ z.item = w.item /\ z.saved = w.saved
        /\ z.release = f
    BY <1>2 DEF WorldType
  <1> HIDE DEF z
  <1>4. \A j \in Items : Listed(z, j) <=> Listed(w, j)
    BY <1>3 DEF Listed
  <1>5. \A j \in Items : w.release[j] \in Nat /\ w.item[j].refs \in Nat
    BY DEF WorldType, ItemRecord
  <1>6. \A j \in Items : Debt(z, j) = IF j = i THEN Debt(w, j) - 1 ELSE Debt(w, j)
    BY <1>2, <1>3, <1>4, <1>5 DEF Debt, Own
  <1>7. Covered(z) <=> Covered(w)
    BY <1>3 DEF Covered, Covers, Buckets
  <1>8. \A T : Sound(z, T) <=> Sound(w, T)
    BY <1>3 DEF Sound, Agree, Marked, Unborn, CanDecay
  <1> QED BY <1>1, <1>3, <1>6, <1>7, <1>8

LEMMA Bounds ==
    /\ None \notin Times /\ End \notin Times /\ Gone \notin Times /\ Gone # End
    /\ MaxTime \in Nat /\ MinTicks \in Nat /\ Times \subseteq Nat
  BY DecayAssumption DEF Times

-----------------------------------------------------------------------------
(* The scheduler.                                                          *)

\* The identifier of an event is not that of a pending one.
LEMMA FreshGives ==
    ASSUME NEW w, IsFiniteSet(DOMAIN w.checks)
    PROVE  FreshId(w) \in Nat \ DOMAIN w.checks
  <1> DEFINE D == DOMAIN w.checks
             n == Cardinality(D)
  <1>1. n \in Nat
    BY FS_CardinalityType
  <1>2. \E k \in 1 .. n + 1 : k \notin D
    <2> SUFFICES ASSUME 1 .. n + 1 \subseteq D PROVE FALSE
      OBVIOUS
    <2>1. Cardinality(1 .. n + 1) <= n
      BY FS_Subset
    <2>2. Cardinality(1 .. n + 1) = n + 1
      <3>1. 1 \in Int /\ n + 1 \in Int /\ 1 <= n + 1
        BY <1>1
      <3> HIDE DEF n
      <3> QED BY <1>1, <3>1, FS_Interval
    <2> HIDE DEF n, D
    <2> QED BY <1>1, <2>1, <2>2
  <1>3. FreshId(w) \in 1 .. n + 1 /\ FreshId(w) \notin D
    BY <1>2 DEF FreshId
  <1> HIDE DEF n, D
  <1> QED BY <1>1, <1>3 DEF D

LEMMA ChecksGives ==
    ASSUME NEW c
    PROVE  c \in Checks <=> /\ c = [k \in DOMAIN c |-> c[k]]
                            /\ DOMAIN c \subseteq Nat /\ IsFiniteSet(DOMAIN c)
                            /\ \A k \in DOMAIN c : c[k] \in Nat
  <1>1. ASSUME c \in Checks
        PROVE  /\ c = [k \in DOMAIN c |-> c[k]] /\ DOMAIN c \subseteq Nat /\ IsFiniteSet(DOMAIN c)
               /\ \A k \in DOMAIN c : c[k] \in Nat
    <2>1. IsFiniteSet(DOMAIN c)
      BY <1>1 DEF Checks
    <2>2. PICK D \in SUBSET Nat : c \in [D -> Nat]
      BY <1>1 DEF Checks
    <2> QED BY <2>1, <2>2
  <1>2. ASSUME c = [k \in DOMAIN c |-> c[k]], DOMAIN c \subseteq Nat, IsFiniteSet(DOMAIN c),
               \A k \in DOMAIN c : c[k] \in Nat
        PROVE  c \in Checks
    <2>1. c \in [DOMAIN c -> Nat]
      BY <1>2
    <2>2. DOMAIN c \in SUBSET Nat
      BY <1>2
    <2>3. c \in UNION {[D -> Nat] : D \in SUBSET Nat}
      BY <2>1, <2>2
    <2> QED BY <2>3, <1>2 DEF Checks
  <1> QED BY <1>1, <1>2

LEMMA AddCheckGives ==
    ASSUME NEW w \in WorldType, NEW delay \in Nat, now \in Nat
    PROVE  LET z == AddCheck(w, delay) IN
           /\ z \in WorldType
           /\ z.map = w.map /\ z.item = w.item /\ z.release = w.release /\ z.saved = w.saved
           /\ \A t \in Times : Covers(w, t) => Covers(z, t)
           /\ \A t \in Times : now + delay <= Later(t, now) => Covers(z, t)
  <1> DEFINE k == FreshId(w)
             due == now + (IF delay < MinTicks THEN MinTicks ELSE delay)
             c == [j \in DOMAIN w.checks \cup {k} |-> IF j = k THEN due ELSE w.checks[j]]
             z == [w EXCEPT !.checks = c, !.id = k]
  <1>1. AddCheck(w, delay) = z
    BY DEF AddCheck
  <1>2. /\ DOMAIN w.checks \subseteq Nat /\ IsFiniteSet(DOMAIN w.checks)
        /\ \A j \in DOMAIN w.checks : w.checks[j] \in Nat
    BY ChecksGives DEF WorldType
  <1>3. k \in Nat /\ k \notin DOMAIN w.checks
    BY <1>2, FreshGives
  <1>4. due \in Nat /\ due <= now + delay + MinTicks
    BY Bounds
  <1>5. c \in Checks
    <2>1. DOMAIN c = DOMAIN w.checks \cup {k}
      OBVIOUS
    <2> HIDE DEF k, due
    <2>2. IsFiniteSet(DOMAIN c)
      BY <1>2, <2>1, FS_AddElement
    <2>3. \A j \in DOMAIN c : c[j] \in Nat
      BY <1>2, <1>4
    <2>4. c = [j \in DOMAIN c |-> c[j]]
      OBVIOUS
    <2> QED BY <1>2, <1>3, <2>1, <2>2, <2>3, <2>4, ChecksGives
  <1>6. /\ k \in DOMAIN c /\ c[k] = due
        /\ \A j \in DOMAIN w.checks : j \in DOMAIN c /\ c[j] = w.checks[j]
    BY <1>3
  <1> HIDE DEF c, k, due
  <1>7. /\ z \in WorldType
        /\ z.map = w.map /\ z.item = w.item /\ z.release = w.release /\ z.saved = w.saved
        /\ z.checks = c
    BY <1>3, <1>5 DEF WorldType
  <1> HIDE DEF z
  <1>8. \A t \in Times : Covers(w, t) => Covers(z, t)
    BY <1>6, <1>7 DEF Covers
  <1>9. ASSUME NEW t \in Times, now + delay <= Later(t, now) PROVE Covers(z, t)
    <2>1. c[k] <= Later(t, now) + MinTicks
      <3>1. Later(t, now) \in Nat
        BY DEF Later, Times
      <3> QED BY Bounds, <3>1, <1>4, <1>6, <1>9
    <2> QED BY <2>1, <1>6, <1>7 DEF Covers
  <1> QED BY <1>1, <1>7, <1>8, <1>9

LEMMA StopCheckGives ==
    ASSUME NEW w \in WorldType
    PROVE  LET z == StopCheck(w) IN
           /\ z \in WorldType
           /\ z.map = w.map /\ z.item = w.item /\ z.release = w.release /\ z.saved = w.saved
  <1> DEFINE c == [j \in DOMAIN w.checks \ {w.id} |-> w.checks[j]]
             z == [w EXCEPT !.checks = c]
  <1>1. StopCheck(w) = z
    BY DEF StopCheck
  <1>2. /\ DOMAIN w.checks \subseteq Nat /\ IsFiniteSet(DOMAIN w.checks)
        /\ \A j \in DOMAIN w.checks : w.checks[j] \in Nat
    BY ChecksGives DEF WorldType
  <1>3. c \in Checks
    <2>1. DOMAIN c = DOMAIN w.checks \ {w.id}
      OBVIOUS
    <2>2. IsFiniteSet(DOMAIN c)
      BY <1>2, <2>1, FS_RemoveElement
    <2>3. c = [j \in DOMAIN c |-> c[j]] /\ \A j \in DOMAIN c : c[j] \in Nat
      BY <1>2
    <2> HIDE DEF c
    <2> QED BY <1>2, <2>1, <2>2, <2>3, ChecksGives
  <1> HIDE DEF c
  <1>4. /\ z \in WorldType
        /\ z.map = w.map /\ z.item = w.item /\ z.release = w.release /\ z.saved = w.saved
    BY <1>3 DEF WorldType
  <1> QED BY <1>1, <1>4

-----------------------------------------------------------------------------
(* Lists.                                                                  *)

\* The map lists the items of X under no stamp but their own.
OwnStamp(w, X) == \A i \in X : \A t \in Times : i \in w.map[t] => w.item[i].stamp = t

LEMMA RecordGives ==
    ASSUME NEW r \in ItemRecord
    PROVE  /\ LET z == [r EXCEPT !.state = "none"] IN
                 /\ z \in ItemRecord /\ z.state = "none" /\ z.stamp = r.stamp
                 /\ z.burns = r.burns /\ z.place = r.place /\ z.refs = r.refs /\ z.copy = r.copy
           /\ LET z == [r EXCEPT !.stamp = None] IN
                 /\ z \in ItemRecord /\ z.stamp = None /\ z.state = r.state
                 /\ z.burns = r.burns /\ z.place = r.place /\ z.refs = r.refs /\ z.copy = r.copy
           /\ r.refs \in Nat
  BY DEF ItemRecord, States

LEMMA ListingGives ==
    ASSUME NEW v, NEW i, v.item[i] \in ItemRecord, NEW t \in Times
    PROVE  LET r == Listing(v, i, t) IN
           /\ r \in ItemRecord /\ r.state = "true" /\ r.stamp = t
           /\ r.refs = v.item[i].refs + 1
           /\ r.burns = v.item[i].burns /\ r.place = v.item[i].place /\ r.copy = v.item[i].copy
  <1> DEFINE a == v.item[i]
  <1>1. Listing(v, i, t) = [a EXCEPT !.state = "true", !.stamp = t, !.refs = a.refs + 1]
    BY DEF Listing
  <1>2. a \in ItemRecord
    OBVIOUS
  <1> HIDE DEF a
  <1>3. Listing(v, i, t) = [state |-> "true", stamp |-> t, burns |-> a.burns, place |-> a.place,
                            refs |-> a.refs + 1, copy |-> a.copy]
    BY <1>1, <1>2 DEF ItemRecord
  <1>4. a.burns \in BOOLEAN /\ a.place \in Places /\ a.refs \in Nat /\ a.copy \in BOOLEAN
    BY <1>2 DEF ItemRecord
  <1>5. LET r == Listing(v, i, t) IN
        /\ r \in ItemRecord /\ r.state = "true" /\ r.stamp = t /\ r.refs = a.refs + 1
        /\ r.burns = a.burns /\ r.place = a.place /\ r.copy = a.copy
    BY <1>3, <1>4 DEF ItemRecord, States
  <1> QED BY <1>5 DEF a

LEMMA UnlistGives ==
    ASSUME NEW w \in WorldType, NEW X \in SUBSET Items, OwnStamp(w, X)
    PROVE  LET z == Unlist(w, X) IN
           /\ z \in WorldType /\ z.checks = w.checks
           /\ \A t \in Times : z.map[t] = w.map[t] \ X
           /\ \A i \in Items : IF i \in X /\ Listed(w, i)
                               THEN /\ z.item[i] = [w.item[i] EXCEPT !.state = "none"]
                                    /\ z.release[i] = w.release[i] + 1
                               ELSE z.item[i] = w.item[i] /\ z.release[i] = w.release[i]
           /\ Covered(w) => Covered(z)
           /\ w.saved \notin Times => z.saved = w.saved
           /\ z.saved \in {w.saved, Gone}
  <1> DEFINE F == Found(w, X)
             m == [t \in Times |-> {i \in w.map[t] : ~(i \in F /\ w.item[i].stamp = t)}]
             n == [i \in Items |-> IF i \in F THEN [w.item[i] EXCEPT !.state = "none"] ELSE w.item[i]]
             r == [i \in Items |-> IF i \in F THEN w.release[i] + 1 ELSE w.release[i]]
             s == IF w.saved \in Times /\ m[w.saved] = {} THEN Gone ELSE w.saved
             z == [w EXCEPT !.map = m, !.item = n, !.release = r, !.saved = s]
  <1>1. Unlist(w, X) = z
    BY DEF Unlist
  <1>2. /\ w.map \in [Times -> SUBSET Items] /\ w.item \in [Items -> ItemRecord]
        /\ w.release \in [Items -> Nat] /\ w.saved \in Times \cup {End, Gone}
    BY DEF WorldType
  <1>3. \A i \in Items : i \in F <=> i \in X /\ Listed(w, i)
    <2>1. ASSUME NEW i \in Items, i \in X, NEW t \in Times, i \in w.map[t] PROVE i \in F
      <3>1. w.item[i].stamp = t /\ t # None
        BY Bounds, <2>1 DEF OwnStamp, Times
      <3> QED BY <3>1, <2>1 DEF Found
    <2>2. ASSUME NEW i \in F PROVE i \in X /\ Listed(w, i)
      <3>1. i \in X /\ w.item[i].stamp # None /\ i \in w.map[w.item[i].stamp]
        BY DEF Found
      <3>2. w.item[i].stamp \in Times
        BY <3>1, <1>2 DEF ItemRecord
      <3> QED BY <3>1, <3>2 DEF Listed
    <2> QED BY <2>1, <2>2 DEF Listed
  <1> HIDE DEF F
  <1>4. \A t \in Times : m[t] = w.map[t] \ X
    <2> SUFFICES ASSUME NEW t \in Times PROVE m[t] = w.map[t] \ X
      OBVIOUS
    <2>1. \A i \in w.map[t] : i \in Items
      BY <1>2
    <2>2. \A i \in w.map[t] : (i \in F /\ w.item[i].stamp = t) <=> i \in X
      BY <2>1, <1>3 DEF OwnStamp, Listed
    <2> QED BY <2>2
  <1>5. m \in [Times -> SUBSET Items]
    BY <1>2
  <1>6. n \in [Items -> ItemRecord]
    <2>1. \A i \in Items : [w.item[i] EXCEPT !.state = "none"] \in ItemRecord
      BY <1>2 DEF ItemRecord, States
    <2> QED BY <1>2, <2>1
  <1>7. r \in [Items -> Nat]
    BY <1>2
  <1>8. /\ s \in Times \cup {End, Gone} /\ s \in {w.saved, Gone}
        /\ w.saved \notin Times => s = w.saved
    BY <1>2
  <1>9. \A i \in Items : IF i \in F
                         THEN n[i] = [w.item[i] EXCEPT !.state = "none"] /\ r[i] = w.release[i] + 1
                         ELSE n[i] = w.item[i] /\ r[i] = w.release[i]
    OBVIOUS
  <1> HIDE DEF m, n, r, s
  <1>10. /\ z \in WorldType /\ z.checks = w.checks
         /\ z.map = m /\ z.item = n /\ z.release = r /\ z.saved = s
    BY <1>5, <1>6, <1>7, <1>8 DEF WorldType
  <1> HIDE DEF z
  <1>11. ASSUME Covered(w) PROVE Covered(z)
    <2>1. SUFFICES ASSUME z.saved # Gone, NEW t \in Times, z.map[t] # {}
                   PROVE  Covers(z, t) \/ (z.saved \in Times /\ z.saved <= t)
      BY DEF Covered, Buckets
    <2>2. z.saved = w.saved /\ w.saved # Gone
      BY <2>1, <1>8, <1>10
    <2>3. t \in Buckets(w)
      BY <2>1, <1>4, <1>10 DEF Buckets
    <2>4. Covers(w, t) => Covers(z, t)
      BY <1>10 DEF Covers
    <2> QED BY <2>2, <2>3, <2>4, <1>11 DEF Covered
  <1>12. \A i \in Items : IF i \in X /\ Listed(w, i)
                          THEN /\ z.item[i] = [w.item[i] EXCEPT !.state = "none"]
                               /\ z.release[i] = w.release[i] + 1
                          ELSE z.item[i] = w.item[i] /\ z.release[i] = w.release[i]
    BY <1>3, <1>9, <1>10
  <1>13. /\ \A t \in Times : z.map[t] = w.map[t] \ X
         /\ w.saved \notin Times => z.saved = w.saved
         /\ z.saved \in {w.saved, Gone}
    BY <1>4, <1>8, <1>10
  <1> QED BY <1>1, <1>10, <1>11, <1>12, <1>13

\* Of an item that is listed, the map's reference turns into one to release.
LEMMA UnlistedOwn ==
    ASSUME NEW w \in WorldType, NEW z, NEW j \in Items,
           z.item[j].place = w.item[j].place, z.item[j].refs = w.item[j].refs,
           ~Listed(z, j), z.release[j] = IF Listed(w, j) THEN w.release[j] + 1 ELSE w.release[j]
    PROVE  Debt(z, j) = Debt(w, j)
  <1>1. w.release[j] \in Nat /\ w.item[j].refs \in Nat
    BY DEF WorldType, ItemRecord
  <1> QED BY <1>1 DEF Debt, Own

\* The items of X whose decay has begun, in any way, are not listed afterwards.
Halts(w, X, i) == i \in X /\ w.item[i].state # "none"

LEMMA GameStopGives ==
    ASSUME NEW w \in WorldType, NEW X \in SUBSET Items, OwnStamp(w, X)
    PROVE  LET z == GameStop(w, X) IN
           /\ Kept(w, z)
           /\ Apart(w, z, {i \in Items : Halts(w, X, i)})
           /\ \A i \in Items : z.item[i].refs = w.item[i].refs
           /\ \A i \in Items : Halts(w, X, i) =>
                 /\ z.item[i].stamp = None
                 /\ ~Listed(z, i)
                 /\ z.item[i].state = IF Listed(w, i) \/ w.item[i].stamp = None THEN "none"
                                      ELSE w.item[i].state
  <1> DEFINE S == {i \in X : w.item[i].state # "none"}
             u == Unlist(w, S)
             n == [i \in Items |->
                      IF i \notin S THEN u.item[i]
                      ELSE IF w.item[i].stamp = None THEN [u.item[i] EXCEPT !.state = "none"]
                      ELSE [u.item[i] EXCEPT !.stamp = None]]
             z == [u EXCEPT !.item = n]
  <1>1. GameStop(w, X) = z
    BY DEF GameStop
  <1>2. S \in SUBSET Items /\ OwnStamp(w, S) /\ \A i \in Items : i \in S <=> Halts(w, X, i)
    BY DEF OwnStamp, Halts
  <1> HIDE DEF S
  <1>3. /\ u \in WorldType /\ u.checks = w.checks
        /\ \A t \in Times : u.map[t] = w.map[t] \ S
        /\ \A i \in Items : IF i \in S /\ Listed(w, i)
                            THEN /\ u.item[i] = [w.item[i] EXCEPT !.state = "none"]
                                 /\ u.release[i] = w.release[i] + 1
                            ELSE u.item[i] = w.item[i] /\ u.release[i] = w.release[i]
        /\ Covered(w) => Covered(u)
        /\ w.saved \notin Times => u.saved = w.saved
    BY <1>2, UnlistGives
  <1> HIDE DEF u
  <1>4. \A i \in Items : u.item[i] \in ItemRecord /\ w.item[i] \in ItemRecord
    BY <1>3 DEF WorldType
  <1>5. /\ n \in [Items -> ItemRecord]
        /\ \A i \in Items : i \notin S => n[i] = w.item[i]
        /\ \A i \in Items : i \in S =>
              /\ n[i].stamp = None
              /\ n[i].state = IF Listed(w, i) \/ w.item[i].stamp = None THEN "none"
                              ELSE w.item[i].state
        /\ \A i \in Items : /\ n[i].burns = w.item[i].burns /\ n[i].place = w.item[i].place
                            /\ n[i].refs = w.item[i].refs /\ n[i].copy = w.item[i].copy
    <2>1. ASSUME NEW i \in Items
          PROVE  /\ n[i] \in ItemRecord
                 /\ i \notin S => n[i] = w.item[i]
                 /\ i \in S =>
                     /\ n[i].stamp = None
                     /\ n[i].state = IF Listed(w, i) \/ w.item[i].stamp = None THEN "none"
                                     ELSE w.item[i].state
                 /\ n[i].burns = w.item[i].burns /\ n[i].place = w.item[i].place
                 /\ n[i].refs = w.item[i].refs /\ n[i].copy = w.item[i].copy
      <3> DEFINE a == u.item[i]
                 b == w.item[i]
      <3>1. /\ a \in ItemRecord /\ b \in ItemRecord
            /\ IF i \in S /\ Listed(w, i) THEN a = [b EXCEPT !.state = "none"] ELSE a = b
            /\ n[i] = IF i \notin S THEN a
                      ELSE IF b.stamp = None THEN [a EXCEPT !.state = "none"]
                      ELSE [a EXCEPT !.stamp = None]
        BY <1>3, <1>4
      <3> HIDE DEF n, a, b
      <3>2. /\ a.state = IF i \in S /\ Listed(w, i) THEN "none" ELSE b.state
            /\ a.stamp = b.stamp
            /\ a.burns = b.burns /\ a.place = b.place /\ a.refs = b.refs /\ a.copy = b.copy
        BY <3>1, RecordGives
      <3>3. CASE i \notin S
        BY <3>1, <3>2, <3>3 DEF b
      <3>4. CASE i \in S /\ b.stamp = None
        <4>1. n[i] = [a EXCEPT !.state = "none"]
          BY <3>1, <3>4
        <4>2. /\ n[i] \in ItemRecord /\ n[i].stamp = a.stamp /\ n[i].state = "none"
              /\ n[i].burns = a.burns /\ n[i].place = a.place
              /\ n[i].refs = a.refs /\ n[i].copy = a.copy
          <5>1. a \in ItemRecord
            BY <3>1
          <5> QED BY <4>1, <5>1, RecordGives
        <4> QED BY <3>2, <3>4, <4>2 DEF b
      <3>5. CASE i \in S /\ b.stamp # None
        <4>1. n[i] = [a EXCEPT !.stamp = None]
          BY <3>1, <3>5
        <4>2. /\ n[i] \in ItemRecord /\ n[i].stamp = None /\ n[i].state = a.state
              /\ n[i].burns = a.burns /\ n[i].place = a.place
              /\ n[i].refs = a.refs /\ n[i].copy = a.copy
          <5>1. a \in ItemRecord
            BY <3>1
          <5> QED BY <4>1, <5>1, RecordGives
        <4> QED BY <3>2, <3>5, <4>2 DEF b
      <3> QED BY <3>3, <3>4, <3>5
    <2>2. n = [i \in Items |-> n[i]]
      OBVIOUS
    <2> HIDE DEF n
    <2> QED BY <2>1, <2>2
  <1> HIDE DEF n
  <1>6. /\ z \in WorldType
        /\ z.map = u.map /\ z.checks = w.checks /\ z.release = u.release /\ z.saved = u.saved
        /\ z.item = n
    BY <1>3, <1>5 DEF WorldType
  <1> HIDE DEF z
  <1>7. Placing(w, z) /\ \A i \in Items : z.item[i].refs = w.item[i].refs
    BY <1>5, <1>6 DEF Placing
  <1>8. Covered(w) => Covered(z)
    BY <1>3, <1>6 DEF Covered, Covers, Buckets
  <1>9. Apart(w, z, {i \in Items : Halts(w, X, i)})
    <2> SUFFICES ASSUME NEW i \in Items, i \notin S
                 PROVE  /\ z.item[i] = w.item[i] /\ z.release[i] = w.release[i]
                        /\ \A t \in Times : i \in z.map[t] <=> i \in w.map[t]
      BY <1>2 DEF Apart
    <2>1. z.item[i] = w.item[i]
      BY <1>5, <1>6
    <2>2. z.release[i] = w.release[i]
      BY <1>3, <1>6
    <2>3. \A t \in Times : i \in z.map[t] <=> i \in w.map[t]
      BY <1>3, <1>6
    <2> QED BY <2>1, <2>2, <2>3
  <1>10. \A i \in Items : i \in S => ~Listed(z, i)
    BY <1>3, <1>6 DEF Listed
  <1>11. ASSUME NEW i \in Items PROVE Debt(z, i) = Debt(w, i)
    <2>1. CASE i \in S
      <3>1. z.release[i] = IF Listed(w, i) THEN w.release[i] + 1 ELSE w.release[i]
        BY <2>1, <1>3, <1>6
      <3> QED BY <2>1, <3>1, <1>7, <1>10, UnlistedOwn DEF Placing
    <2>2. CASE i \notin S
      BY <2>2, <1>2, <1>9, ApartOwn
    <2> QED BY <2>1, <2>2
  <1>12. w.saved = End => z.saved = End
    BY Bounds, <1>3, <1>6 DEF Times
  <1>13. Kept(w, z)
    BY <1>6, <1>7, <1>8, <1>11, <1>12 DEF Kept
  <1>14. \A i \in Items : Halts(w, X, i) =>
            /\ z.item[i].stamp = None
            /\ ~Listed(z, i)
            /\ z.item[i].state = IF Listed(w, i) \/ w.item[i].stamp = None THEN "none"
                                 ELSE w.item[i].state
    BY <1>2, <1>5, <1>6, <1>10
  <1> QED BY <1>1, <1>7, <1>9, <1>13, <1>14

LEMMA ListGives ==
    ASSUME NEW w \in WorldType, NEW i \in Items, NEW d \in Nat, OwnStamp(w, {i}),
           now \in Nat, now + d <= MaxTime
    PROVE  LET z == List(w, i, d) IN
           /\ Kept(w, z)
           /\ Apart(w, z, {i})
           /\ z.item[i].state = "true" /\ z.item[i].stamp = now + d
           /\ \A t \in Times : i \in z.map[t] <=> t = now + d
  <1> DEFINE t == now + d
             u == Unlist(w, {i})
             v == IF Buckets(u) = {} THEN AddCheck(u, d)
                  ELSE IF \A b \in Buckets(u) : t < b THEN AddCheck(StopCheck(u), d)
                  ELSE u
             r == Listing(v, i, t)
             y == Put(v, i, r)
             m == [y.map EXCEPT ![t] = @ \cup {i}]
             z == [y EXCEPT !.map = m]
  <1>1. List(w, i, d) = z
    BY DEF List
  <1>2. t \in Times /\ t \in Nat
    BY DEF Times
  <1>3. /\ u \in WorldType
        /\ \A x \in Times : u.map[x] = w.map[x] \ {i}
        /\ \A j \in Items : IF j = i /\ Listed(w, j)
                            THEN /\ u.item[j] = [w.item[j] EXCEPT !.state = "none"]
                                 /\ u.release[j] = w.release[j] + 1
                            ELSE u.item[j] = w.item[j] /\ u.release[j] = w.release[j]
        /\ Covered(w) => Covered(u)
        /\ w.saved \notin Times => u.saved = w.saved
    <2>1. {i} \in SUBSET Items
      OBVIOUS
    <2>2. /\ u \in WorldType
          /\ \A x \in Times : u.map[x] = w.map[x] \ {i}
          /\ \A j \in Items : IF j \in {i} /\ Listed(w, j)
                              THEN /\ u.item[j] = [w.item[j] EXCEPT !.state = "none"]
                                   /\ u.release[j] = w.release[j] + 1
                              ELSE u.item[j] = w.item[j] /\ u.release[j] = w.release[j]
          /\ Covered(w) => Covered(u)
          /\ w.saved \notin Times => u.saved = w.saved
      BY <2>1, UnlistGives, Zenon
    <2> HIDE DEF u
    <2> QED BY <2>2
  <1> HIDE DEF u
  <1>4. /\ v \in WorldType
        /\ v.map = u.map /\ v.item = u.item /\ v.release = u.release /\ v.saved = u.saved
        /\ \/ (\E b \in Buckets(u) : b <= t) /\ \A x \in Times : Covers(u, x) => Covers(v, x)
           \/ (\A b \in Buckets(u) : t <= b) /\ Covers(v, t)
    <2>1. CASE Buckets(u) = {}
      <3>1. v = AddCheck(u, d)
        BY <2>1
      <3>2. now + d <= Later(t, now)
        BY <1>2 DEF Later
      <3> QED BY <2>1, <3>1, <3>2, <1>2, <1>3, AddCheckGives
    <2>2. CASE Buckets(u) # {} /\ \A b \in Buckets(u) : t < b
      <3> DEFINE x == StopCheck(u)
      <3>1. v = AddCheck(x, d)
        BY <2>2
      <3>2. now + d <= Later(t, now)
        BY <1>2 DEF Later
      <3>3. /\ x \in WorldType
            /\ x.map = u.map /\ x.item = u.item /\ x.release = u.release /\ x.saved = u.saved
        BY <1>3, StopCheckGives
      <3> HIDE DEF x
      <3>4. /\ v \in WorldType
            /\ v.map = u.map /\ v.item = u.item /\ v.release = u.release /\ v.saved = u.saved
            /\ Covers(v, t)
        <4> HIDE DEF v
        <4> QED BY <3>1, <3>2, <3>3, <1>2, AddCheckGives
      <3>5. \A b \in Buckets(u) : t <= b
        BY <2>2, <1>2 DEF Buckets, Times
      <3> QED BY <3>4, <3>5
    <2>3. CASE Buckets(u) # {} /\ ~(\A b \in Buckets(u) : t < b)
      <3>1. v = u
        BY <2>3
      <3>2. \E b \in Buckets(u) : b <= t
        BY <2>3, <1>2 DEF Buckets, Times
      <3> QED BY <3>1, <3>2, <1>3
    <2> QED BY <2>1, <2>2, <2>3
  <1> HIDE DEF v
  <1>5. w.item[i] \in ItemRecord /\ v.item[i] \in ItemRecord /\ w.release[i] \in Nat
    BY <1>4 DEF WorldType
  <1>6. /\ v.item[i].burns = w.item[i].burns /\ v.item[i].place = w.item[i].place
        /\ v.item[i].refs = w.item[i].refs /\ v.item[i].copy = w.item[i].copy
    <2>1. v.item[i] = w.item[i] \/ v.item[i] = [w.item[i] EXCEPT !.state = "none"]
      BY <1>3, <1>4
    <2>2. CASE v.item[i] = w.item[i]
      BY <2>2
    <2>3. CASE v.item[i] = [w.item[i] EXCEPT !.state = "none"]
      <3>1. PICK b : b = w.item[i]
        OBVIOUS
      <3>2. b \in ItemRecord /\ v.item[i] = [b EXCEPT !.state = "none"]
        BY <1>5, <2>3, <3>1
      <3>3. /\ v.item[i].burns = b.burns /\ v.item[i].place = b.place
            /\ v.item[i].refs = b.refs /\ v.item[i].copy = b.copy
        BY ONLY <3>2, RecordGives
      <3> QED BY <3>1, <3>3
    <2> QED BY <2>1, <2>2, <2>3
  <1>7. /\ r \in ItemRecord
        /\ r.burns = w.item[i].burns /\ r.place = w.item[i].place /\ r.copy = w.item[i].copy
        /\ r.refs = w.item[i].refs + 1 /\ r.state = "true" /\ r.stamp = t
    BY <1>2, <1>5, <1>6, ListingGives
  <1> HIDE DEF r
  <1>8. /\ y \in WorldType
        /\ y.map = v.map /\ y.checks = v.checks /\ y.release = v.release /\ y.saved = v.saved
        /\ \A j \in Items : y.item[j] = IF j = i THEN r ELSE v.item[j]
    <2>1. v \in WorldType /\ r \in ItemRecord
      BY <1>4, <1>7
    <2>2. /\ y \in WorldType
          /\ y.map = v.map /\ y.checks = v.checks /\ y.release = v.release /\ y.saved = v.saved
      BY <2>1, PutGives
    <2>3. ASSUME NEW j \in Items PROVE y.item[j] = IF j = i THEN r ELSE v.item[j]
      BY <2>1, PutItem
    <2> HIDE DEF y
    <2> QED BY <2>2, <2>3
  <1> HIDE DEF y
  <1>9. /\ m \in [Times -> SUBSET Items]
        /\ \A x \in Times : m[x] = IF x = t THEN y.map[x] \cup {i} ELSE y.map[x]
    BY <1>2, <1>8 DEF WorldType
  <1> HIDE DEF m
  <1>10. /\ z \in WorldType
         /\ z.item = y.item /\ z.checks = v.checks /\ z.release = u.release /\ z.saved = u.saved
         /\ z.map = m
    BY <1>4, <1>8, <1>9 DEF WorldType
  <1> HIDE DEF z
  <1>11. \A x \in Times : i \in z.map[x] <=> x = t
    BY <1>3, <1>4, <1>8, <1>9, <1>10
  <1>12. Apart(w, z, {i})
    <2> SUFFICES ASSUME NEW j \in Items, j # i
                 PROVE  /\ z.item[j] = w.item[j] /\ z.release[j] = w.release[j]
                        /\ \A x \in Times : j \in z.map[x] <=> j \in w.map[x]
      BY DEF Apart
    <2>1. z.item[j] = w.item[j] /\ z.release[j] = w.release[j]
      BY <1>3, <1>4, <1>8, <1>10
    <2>2. \A x \in Times : j \in z.map[x] <=> j \in w.map[x]
      BY <1>3, <1>4, <1>8, <1>9, <1>10
    <2> QED BY <2>1, <2>2
  <1>13. Placing(w, z)
    BY <1>7, <1>8, <1>10, <1>12 DEF Placing, Apart
  <1>14. ASSUME NEW j \in Items PROVE Debt(z, j) = Debt(w, j)
    <2>1. CASE j = i
      <3>1. Listed(z, i)
        BY <1>2, <1>11 DEF Listed
      <3>2. /\ z.item[i].refs = w.item[i].refs + 1 /\ z.item[i].place = w.item[i].place
            /\ z.release[i] = IF Listed(w, i) THEN w.release[i] + 1 ELSE w.release[i]
        BY <1>3, <1>7, <1>8, <1>10
      <3>3. w.item[i].refs \in Nat
        BY <1>5 DEF ItemRecord
      <3> QED BY <2>1, <3>1, <3>2, <3>3, <1>5 DEF Debt, Own
    <2>2. CASE j # i
      BY <2>2, <1>12, ApartOwn
    <2> QED BY <2>1, <2>2
  <1>15. ASSUME Covered(w) PROVE Covered(z)
    <2>1. SUFFICES ASSUME z.saved # Gone, NEW x \in Times, z.map[x] # {}
                   PROVE  Covers(z, x) \/ (z.saved \in Times /\ z.saved <= x)
      BY DEF Covered, Buckets
    <2>2. x \in Buckets(u) \/ x = t
      BY <2>1, <1>4, <1>8, <1>9, <1>10 DEF Buckets
    <2>3. \A b \in Times : Covers(v, b) => Covers(z, b)
      BY <1>10 DEF Covers
    <2>4. \A b \in Buckets(u) : Covers(u, b) \/ (u.saved \in Times /\ u.saved <= b)
      BY <1>3, <1>10, <1>15, <2>1 DEF Covered
    <2>5. \A a, b \in Times : Covers(v, a) /\ a <= b => Covers(v, b)
      <3> SUFFICES ASSUME NEW a \in Times, NEW b \in Times, a <= b,
                          NEW k \in DOMAIN v.checks, v.checks[k] <= Later(a, now) + MinTicks
                   PROVE  v.checks[k] <= Later(b, now) + MinTicks
        BY DEF Covers
      <3>1. v.checks[k] \in Nat
        BY <1>4, ChecksGives DEF WorldType
      <3> QED BY Bounds, <3>1 DEF Later, Times
    <2>6. CASE (\E b \in Buckets(u) : b <= t) /\ \A c \in Times : Covers(u, c) => Covers(v, c)
      <3>1. CASE x \in Buckets(u)
        BY <2>3, <2>4, <2>6, <3>1, <1>10
      <3>2. CASE x = t
        <4>1. PICK b \in Buckets(u) : b <= t
          BY <2>6
        <4>2. b \in Times
          BY DEF Buckets
        <4>3. CASE Covers(u, b)
          BY <2>3, <2>5, <2>6, <3>2, <4>1, <4>2, <4>3
        <4>4. CASE u.saved \in Times /\ u.saved <= b
          <5>1. u.saved <= t
            BY <4>1, <4>2, <4>4, <1>2 DEF Times
          <5> QED BY <5>1, <3>2, <4>4, <1>10
        <4> QED BY <2>4, <4>3, <4>4
      <3> QED BY <2>2, <3>1, <3>2
    <2>7. CASE (\A b \in Buckets(u) : t <= b) /\ Covers(v, t)
      <3>1. t <= x
        BY <2>2, <2>7, <1>2
      <3> QED BY <2>3, <2>5, <2>7, <3>1, <1>2
    <2> QED BY <2>6, <2>7, <1>4
  <1>16. w.saved = End => z.saved = End
    BY Bounds, <1>3, <1>10 DEF Times
  <1>17. Kept(w, z)
    BY <1>10, <1>13, <1>14, <1>15, <1>16 DEF Kept
  <1>18. z.item[i].state = "true" /\ z.item[i].stamp = t
    BY <1>7, <1>8, <1>10
  <1> QED BY <1>1, <1>11, <1>12, <1>17, <1>18

-----------------------------------------------------------------------------
(* Game.                                                                   *)

\* Sound, but for the items of X.
SoundBut(w, T, X) == \A j \in Items \ X : Agree(w, T, j) /\ Marked(w, T, j) /\ Unborn(w, j)

\* Whatever state startDecay finds i in, it leaves it sound.
LEMMA GameStartGives ==
    ASSUME NEW w \in WorldType, NEW i \in Items, NEW d \in Nat, NEW T, i \notin T,
           now \in Nat, OwnStamp(w, {i}),
           w.item[i].burns => now + d <= MaxTime,
           SoundBut(w, T, {i}),
           w.item[i].state = "true" /\ w.item[i].stamp # None => Listed(w, i) \/ w.item[i].copy,
           IF CanDecay(w, i) THEN w.item[i].state = "true" => Agree(w, T, i) /\ Marked(w, T, i)
           ELSE w.item[i].state \in {"none", "pending"} => Agree(w, T, i) /\ Marked(w, T, i)
    PROVE  LET z == GameStart(w, i, d) IN
           /\ Kept(w, z)
           /\ SoundBut(z, T, {i}) /\ Agree(z, T, i) /\ Marked(z, T, i)
           /\ Unborn(w, i) => Sound(z, T)
  <1> DEFINE s == w.item[i].state
             z == GameStart(w, i, d)
             Goal == /\ Kept(w, z)
                     /\ SoundBut(z, T, {i}) /\ Agree(z, T, i) /\ Marked(z, T, i)
                     /\ Unborn(w, i) => Sound(z, T)
  <1>1. s \in States
    BY DEF WorldType, ItemRecord
  <1>2. ASSUME s = "stopping" \/ (~CanDecay(w, i) /\ s = "true") PROVE Goal
    <2> DEFINE y == GameStop(w, {i})
    <2>1. z = y
      BY <1>2 DEF GameStart
    <2>2. {i} \in SUBSET Items /\ Halts(w, {i}, i) /\ \A j \in Items : Halts(w, {i}, j) => j = i
      BY <1>2 DEF Halts
    <2>3. /\ Kept(w, y)
          /\ Apart(w, y, {j \in Items : Halts(w, {i}, j)})
          /\ \A j \in Items : y.item[j].refs = w.item[j].refs
          /\ y.item[i].stamp = None
          /\ ~Listed(y, i)
          /\ y.item[i].state = IF Listed(w, i) \/ w.item[i].stamp = None THEN "none"
                               ELSE w.item[i].state
      <3>1. /\ Kept(w, y)
            /\ Apart(w, y, {j \in Items : Halts(w, {i}, j)})
            /\ \A j \in Items : y.item[j].refs = w.item[j].refs
            /\ \A j \in Items : Halts(w, {i}, j) =>
                  /\ y.item[j].stamp = None
                  /\ ~Listed(y, j)
                  /\ y.item[j].state = IF Listed(w, j) \/ w.item[j].stamp = None THEN "none"
                                       ELSE w.item[j].state
        BY ONLY w \in WorldType, {i} \in SUBSET Items, OwnStamp(w, {i}), GameStopGives
      <3> QED BY <2>2, <3>1
    <2> HIDE DEF y
    <2>4. Apart(w, y, {i}) /\ Placing(w, y)
      BY <2>2, <2>3 DEF Apart, Kept
    <2>5. SoundBut(y, T, {i})
      BY <2>4, ApartSound, PlacingDecay DEF SoundBut
    <2>6. Agree(y, T, i)
      BY <2>3, Bounds DEF Agree, Listed
    <2>7. Marked(y, T, i)
      BY <2>3, <2>4, <1>2 DEF Marked, Placing
    <2>8. Unborn(w, i) => Unborn(y, i)
      BY <2>3, <2>4 DEF Unborn, Placing
    <2> QED BY <2>1, <2>3, <2>5, <2>6, <2>7, <2>8 DEF Sound, SoundBut
  <1>3. ASSUME CanDecay(w, i) /\ s \notin {"stopping", "true"} PROVE Goal
    <2> DEFINE y == List(w, i, d)
    <2>1. z = y
      BY <1>3 DEF GameStart
    <2>2. now + d <= MaxTime
      BY <1>3 DEF CanDecay
    <2>3. /\ Kept(w, y)
          /\ Apart(w, y, {i})
          /\ y.item[i].state = "true" /\ y.item[i].stamp = now + d
          /\ \A t \in Times : i \in y.map[t] <=> t = now + d
      BY <2>2, ListGives
    <2> HIDE DEF y
    <2>4. Placing(w, y)
      BY <2>3 DEF Kept
    <2>5. SoundBut(y, T, {i})
      BY <2>3, <2>4, ApartSound, PlacingDecay DEF SoundBut
    <2>6. Agree(y, T, i)
      BY <2>3 DEF Agree
    <2>7. Marked(y, T, i)
      <3>1. now + d \in Nat /\ None \notin Nat
        BY DecayAssumption
      <3>2. CanDecay(y, i)
        BY <2>4, <1>3, PlacingDecay
      <3> QED BY <2>3, <3>1, <3>2 DEF Marked
    <2>8. Unborn(y, i)
      BY <2>4, <1>3 DEF Unborn, Placing, CanDecay
    <2> QED BY <2>1, <2>3, <2>5, <2>6, <2>7, <2>8 DEF Sound, SoundBut
  <1>4. ASSUME \/ CanDecay(w, i) /\ s = "true"
               \/ ~CanDecay(w, i) /\ s \in {"none", "pending"}
        PROVE  Goal
    <2>1. z = w
      BY <1>4 DEF GameStart
    <2>2. Agree(w, T, i) /\ Marked(w, T, i)
      BY <1>4
    <2>3. Kept(w, w)
      BY DEF Kept, Placing
    <2>4. Unborn(w, i) => Sound(w, T)
      BY <2>2 DEF Sound, SoundBut
    <2> HIDE DEF z
    <2> QED BY <2>1, <2>2, <2>3, <2>4
  <1>5. \/ s = "stopping" \/ (~CanDecay(w, i) /\ s = "true")
        \/ CanDecay(w, i) /\ s \notin {"stopping", "true"}
        \/ CanDecay(w, i) /\ s = "true"
        \/ ~CanDecay(w, i) /\ s \in {"none", "pending"}
    BY <1>1 DEF States
  <1> HIDE DEF s, z, Goal
  <1>6. Goal
    BY <1>2, <1>3, <1>4, <1>5
  <1> QED BY <1>6 DEF Goal, z

\* i has left the world, and may still be listed, as may what it contains.
LEMMA RemoveItemGives ==
    ASSUME NEW w \in WorldType, NEW i \in Items, NEW T, now \in Nat, Sound(w, T),
           w.item[i].place = "placed"
    PROVE  LET z == RemoveItem(w, i) IN
           /\ z \in WorldType
           /\ Sound(z, T)
           /\ \A j \in Items : Debt(z, j) = Debt(w, j)
           /\ Covered(w) => Covered(z)
           /\ w.saved = End => z.saved = End
  <1> DEFINE X == {i} \cup Inside[i]
             r == [w.item[i] EXCEPT !.place = "removed"]
             u == Put(w, i, r)
             v == GameStop(u, X)
             z == Release(v, i)
  <1>1. RemoveItem(w, i) = z
    BY DEF RemoveItem
  <1>2. /\ r \in ItemRecord /\ r.place = "removed" /\ w.item[i] \in ItemRecord
        /\ r.refs = w.item[i].refs /\ r.burns = w.item[i].burns /\ r.copy = w.item[i].copy
        /\ r.state = w.item[i].state /\ r.stamp = w.item[i].stamp
    <2>1. w.item[i] \in ItemRecord
      BY DEF WorldType
    <2> QED BY <2>1 DEF ItemRecord, Places
  <1> HIDE DEF r
  <1>3. /\ u \in WorldType /\ u.map = w.map /\ u.release = w.release /\ u.saved = w.saved
        /\ Covered(u) <=> Covered(w)
        /\ \A j \in Items : Listed(u, j) <=> Listed(w, j)
        /\ Apart(w, u, {i})
    BY <1>2, PutGives
  <1>4. \A j \in Items : u.item[j] = IF j = i THEN r ELSE w.item[j]
    BY <1>2, PutItem
  <1> HIDE DEF u
  <1>5. X \in SUBSET Items /\ OwnStamp(u, X)
    <2>1. X \in SUBSET Items
      BY DecayAssumption
    <2>2. ASSUME NEW j \in X, NEW t \in Times, j \in u.map[t] PROVE u.item[j].stamp = t
      <3>1. j \in Items /\ w.item[j].stamp = t
        BY <2>1, <2>2, <1>3 DEF Sound, Agree
      <3> QED BY <3>1, <1>2, <1>4
    <2> QED BY <2>1, <2>2 DEF OwnStamp
  <1> DEFINE H == {j \in Items : Halts(u, X, j)}
  <1>6. /\ Kept(u, v)
        /\ Apart(u, v, H)
        /\ \A j \in Items : v.item[j].refs = u.item[j].refs
        /\ \A j \in Items : Halts(u, X, j) =>
              /\ v.item[j].stamp = None
              /\ ~Listed(v, j)
              /\ v.item[j].state = IF Listed(u, j) \/ u.item[j].stamp = None THEN "none"
                                   ELSE u.item[j].state
    BY <1>3, <1>5, GameStopGives
  <1> HIDE DEF v, X
  <1>7. \A j \in Items : v.item[j].place = u.item[j].place /\ v.item[j].copy = u.item[j].copy
                         /\ v.item[j].burns = u.item[j].burns
    BY <1>6 DEF Kept, Placing
  <1>8. \A j \in Items \ X : CanDecay(w, j) => CanDecay(v, j)
    <2> SUFFICES ASSUME NEW j \in Items \ X, CanDecay(w, j) PROVE CanDecay(v, j)
      OBVIOUS
    <2>1. j # i /\ j \notin Inside[i]
      BY DEF X
    <2>2. v.item[j].burns = w.item[j].burns /\ v.item[j].place = w.item[j].place
      BY <2>1, <1>4, <1>7
    <2>3. \A c \in Items : j \in Inside[c] => v.item[c].place = w.item[c].place
      BY <2>1, <1>4, <1>7
    <2> QED BY <2>2, <2>3 DEF CanDecay
  <1>9. ASSUME NEW j \in Items PROVE Agree(v, T, j) /\ Marked(v, T, j) /\ Unborn(v, j)
    <2>1. Agree(w, T, j) /\ Marked(w, T, j) /\ Unborn(w, j)
      BY DEF Sound
    <2>2. Unborn(v, j)
      BY <2>1, <1>2, <1>4, <1>6, <1>7 DEF Unborn
    <2>3. u.item[j].state = w.item[j].state /\ u.item[j].stamp = w.item[j].stamp
          /\ u.item[j].copy = w.item[j].copy
      BY <1>2, <1>4
    <2>4. CASE j \in H
      <3>1. Agree(v, T, j)
        BY <2>4, <1>6, Bounds DEF Agree, Listed
      <3>2. Marked(v, T, j)
        <4>1. SUFFICES ASSUME v.item[j].state = "true" PROVE j \in T \/ v.item[j].copy
          BY <2>4, <1>6 DEF Marked
        <4>2. w.item[j].state = "true" /\ ~Listed(w, j) /\ w.item[j].stamp # None
          BY <4>1, <2>3, <2>4, <1>3, <1>6
        <4>3. w.item[j].stamp \in Times
          BY <4>2 DEF WorldType, ItemRecord
        <4> QED BY <4>2, <4>3, <2>1 DEF Agree, Listed
      <3> QED BY <3>1, <3>2, <2>2
    <2>5. CASE j \notin H
      <3>1. /\ v.item[j] = u.item[j] /\ \A t \in Times : j \in v.map[t] <=> j \in w.map[t]
        BY <2>5, <1>3, <1>6 DEF Apart
      <3>2. Agree(v, T, j)
        BY <3>1, <2>1, <2>3 DEF Agree
      <3>3. CASE j \in X
        <4>1. v.item[j].state = "none" /\ w.item[j].state = "none"
          BY <2>3, <2>5, <3>1, <3>3 DEF Halts
        <4>2. v.item[j].stamp = None
          BY <4>1, <2>1, <2>3, <3>1 DEF Marked
        <4> QED BY <4>1, <4>2, <3>2, <2>2 DEF Marked
      <3>4. CASE j \notin X
        BY <3>4, <3>1, <3>2, <2>1, <2>2, <2>3, <1>8 DEF Marked
      <3> QED BY <3>3, <3>4
    <2> QED BY <2>4, <2>5
  <1> HIDE DEF H
  <1>10. v \in WorldType /\ Sound(v, T)
    BY <1>6, <1>9 DEF Sound, Kept
  <1>11. \A j \in Items : Debt(v, j) = IF j = i THEN Debt(w, j) + 1 ELSE Debt(w, j)
    <2>1. \A j \in Items : Debt(v, j) = Debt(u, j)
      BY <1>6 DEF Kept
    <2>2. ASSUME NEW j \in Items PROVE Debt(u, j) = IF j = i THEN Debt(w, j) + 1 ELSE Debt(w, j)
      <3>1. w.item[j].refs \in Nat /\ w.release[j] \in Nat
        BY DEF WorldType, ItemRecord
      <3> QED BY <3>1, <1>2, <1>3, <1>4 DEF Debt, Own
    <2> QED BY <2>1, <2>2
  <1>12. /\ z \in WorldType
         /\ z.saved = v.saved
         /\ \A j \in Items : Debt(z, j) = IF j = i THEN Debt(v, j) - 1 ELSE Debt(v, j)
         /\ Covered(z) <=> Covered(v)
         /\ Sound(z, T) <=> Sound(v, T)
    BY <1>10, ReleaseGives
  <1> HIDE DEF z
  <1>13. \A j \in Items : Debt(z, j) = Debt(w, j)
    <2> SUFFICES ASSUME NEW j \in Items PROVE Debt(z, j) = Debt(w, j)
      OBVIOUS
    <2>1. Debt(w, j) \in Int
      BY DEF Debt, Own, WorldType, ItemRecord
    <2> QED BY <2>1, <1>11, <1>12
  <1> QED BY <1>1, <1>3, <1>6, <1>10, <1>12, <1>13 DEF Kept

-----------------------------------------------------------------------------
(* The invariant and the actions.                                          *)

LEMMA IInvGives ==
    ASSUME IInv
    PROVE  /\ World \in WorldType /\ now \in Nat /\ Sound(World, temp)
           /\ Balanced(World, temp)
           /\ ~dangling => Covered(World)
           /\ World.item = item /\ World.map = map /\ World.checks = checks
           /\ World.release = release /\ World.saved = saved
           /\ \A i \in Items : /\ World.item[i] \in ItemRecord
                               /\ OwnStamp(World, {i})
                               /\ SoundBut(World, temp, {i})
  <1>1. /\ World \in WorldType /\ now \in Nat /\ Sound(World, temp)
        /\ Balanced(World, temp)
        /\ ~dangling => Covered(World)
    BY DEF IInv, TypeOK, World, WorldType
  <1>2. /\ World.item = item /\ World.map = map /\ World.checks = checks
        /\ World.release = release /\ World.saved = saved
    BY DEF World
  <1>3. \A i \in Items : World.item[i] \in ItemRecord
    BY <1>1 DEF WorldType
  <1>4. \A i \in Items : OwnStamp(World, {i}) /\ SoundBut(World, temp, {i})
    BY <1>1 DEF Sound, SoundBut, Agree, OwnStamp
  <1> QED BY <1>1, <1>2, <1>3, <1>4

\* What is left of an action when the record it ends with is known.
LEMMA BecomeKeeps ==
    ASSUME NEW z, Become(z), z \in WorldType, Sound(z, temp'), Balanced(z, temp'),
           ~dangling' /\ z.saved # Gone =>
              \A t \in Buckets(z) : (\E k \in DOMAIN z.checks :
                    z.checks[k] <= Later(t, now') + MinTicks)
                 \/ (z.saved \in Times /\ z.saved <= t),
           temp' \in SUBSET Items, pc' \in {"idle", "checking"}, dangling' \in BOOLEAN, now' \in Nat,
           pc' = "idle" => temp' = {} /\ z.saved = End
    PROVE  IInv'
  <1>1. World' = z
    BY DEF World, Become, WorldType
  <1>2. checks' \in Checks /\ checks' = z.checks /\ saved' = z.saved
    BY DEF Become, WorldType
  <1>3. TypeOK'
    <2>1. DOMAIN checks' \subseteq Nat /\ \A k \in DOMAIN checks' : checks'[k] \in Nat
      BY <1>2, ChecksGives
    <2> QED BY <2>1 DEF TypeOK, Become, WorldType
  <1>4. Sound(World', temp') /\ Balanced(World', temp')
    BY <1>1
  <1>5. dangling' \/ Covered(World)'
    BY <1>1 DEF Covered, Covers, Buckets
  <1>6. Sound(World, temp)' /\ Balanced(World, temp)'
    BY <1>4 DEF Sound, Balanced, Agree, Marked, Unborn, CanDecay, Debt, Own, Listed
  <1> QED BY <1>2, <1>3, <1>5, <1>6 DEF IInv

\* A call of a client, while no check is under way.
LEMMA ClientKeeps ==
    ASSUME IInv, Idle, NEW z, Become(z), z \in WorldType, Sound(z, {}),
           \A i \in Items : Debt(z, i) = 0,
           Covered(World) => Covered(z), World.saved = End => z.saved = End
    PROVE  IInv'
  <1>1. /\ temp' = temp /\ pc' = pc /\ dangling' = dangling /\ now' = now
        /\ pc = "idle" /\ temp = {} /\ saved = End
        /\ dangling \in BOOLEAN /\ now \in Nat
    BY DEF Idle, IInv, TypeOK
  <1>2. Balanced(z, temp')
    BY <1>1 DEF Balanced
  <1>3. Sound(z, temp') /\ z.saved = End
    BY <1>1, IInvGives
  <1>4. ~dangling => Covered(z)
    BY IInvGives
  <1>5. ~dangling' /\ z.saved # Gone =>
              \A t \in Buckets(z) : (\E k \in DOMAIN z.checks :
                    z.checks[k] <= Later(t, now') + MinTicks)
                 \/ (z.saved \in Times /\ z.saved <= t)
    BY <1>1, <1>4 DEF Covered, Covers
  <1> QED BY <1>1, <1>2, <1>3, <1>5, BecomeKeeps

LEMMA InitGives == Init => IInv
  <1> SUFFICES ASSUME Init PROVE IInv
    OBVIOUS
  <1>1. checks \in Checks /\ DOMAIN checks = {}
    <2>1. DOMAIN checks = {} /\ checks = [k \in DOMAIN checks |-> checks[k]]
      BY DEF Init
    <2> QED BY <2>1, ChecksGives, FS_EmptySet
  <1>2. TypeOK
    BY <1>1 DEF Init, TypeOK, ItemRecord, States, Places
  <1>3. Sound(World, temp)
    BY Bounds DEF Init, World, Sound, Agree, Marked, Unborn
  <1>4. Balanced(World, temp)
    BY DEF Init, World, Balanced, Debt, Own, Listed
  <1>5. Covered(World)
    BY DEF Init, World, Covered, Buckets
  <1> QED BY <1>1, <1>2, <1>3, <1>4, <1>5 DEF IInv, Init

-----------------------------------------------------------------------------
(* Clients.                                                                *)

\* The record of i is replaced, of an item that does not leave the world.
LEMMA PutKeeps ==
    ASSUME NEW w \in WorldType, NEW i \in Items, NEW r \in ItemRecord, NEW T,
           SoundBut(w, T, {i}), r.place = "placed" \/ w.item[i].place # "placed"
    PROVE  LET z == Put(w, i, r) IN
           /\ z \in WorldType
           /\ SoundBut(z, T, {i})
           /\ \A j \in Items \ {i} : Debt(z, j) = Debt(w, j)
           /\ z.item[i] = r /\ z.map = w.map /\ z.release = w.release /\ z.saved = w.saved
           /\ Listed(z, i) <=> Listed(w, i)
           /\ r.refs = w.item[i].refs /\ r.place = w.item[i].place => Debt(z, i) = Debt(w, i)
           /\ \A j \in Items : CanDecay(w, j) /\ r.burns => CanDecay(z, j)
           /\ Covered(z) <=> Covered(w)
  <1> DEFINE z == Put(w, i, r)
  <1>1. /\ z \in WorldType /\ z.map = w.map /\ z.release = w.release /\ z.saved = w.saved
        /\ Apart(w, z, {i})
        /\ Covered(z) <=> Covered(w)
        /\ \A j \in Items : Listed(z, j) <=> Listed(w, j)
    BY PutGives
  <1>2. \A j \in Items : z.item[j] = IF j = i THEN r ELSE w.item[j]
    BY PutItem
  <1> HIDE DEF z
  <1>3. \A j \in Items : w.item[j].place = "placed" => z.item[j].place = "placed"
    BY <1>2
  <1>4. \A j \in Items : CanDecay(w, j) /\ (r.burns \/ j # i) => CanDecay(z, j)
    BY <1>2, <1>3 DEF CanDecay
  <1>5. SoundBut(z, T, {i})
    BY <1>1, <1>4, ApartSound DEF SoundBut
  <1>6. \A j \in Items \ {i} : Debt(z, j) = Debt(w, j)
    BY <1>1, ApartOwn
  <1>7. r.refs = w.item[i].refs /\ r.place = w.item[i].place => Debt(z, i) = Debt(w, i)
    BY <1>1, <1>2 DEF Debt, Own
  <1> QED BY <1>1, <1>2, <1>4, <1>5, <1>6, <1>7 DEF z

\* A client sets the attributes of i, which is in the world then, and starts its decay.
LEMMA StartKeeps ==
    ASSUME IInv, Idle, NEW i \in Items, NEW d \in Durations, NEW r \in ItemRecord,
           r.place = "placed", r.stamp = item[i].stamp,
           r.burns => now <= MaxStart,
           \/ Placed(i) /\ r.refs = item[i].refs
           \/ item[i].place = "unborn" /\ r.refs = 1,
           r.state # "true",
           CanDecay(Put(World, i, r), i) \/ r.state = "stopping" \/ r.stamp = None,
           Become(GameStart(Put(World, i, r), i, d))
    PROVE  IInv'
  <1> DEFINE u == Put(World, i, r)
             z == GameStart(u, i, d)
  <1>1. /\ World \in WorldType /\ now \in Nat /\ SoundBut(World, {}, {i})
        /\ Agree(World, {}, i) /\ Marked(World, {}, i) /\ Unborn(World, i)
        /\ \A j \in Items : Debt(World, j) = 0
        /\ World.item = item
    <2>1. temp = {}
      BY DEF IInv, Idle
    <2> QED BY <2>1, IInvGives DEF Sound, Balanced
  <1>2. /\ u \in WorldType
        /\ SoundBut(u, {}, {i})
        /\ \A j \in Items \ {i} : Debt(u, j) = Debt(World, j)
        /\ u.item[i] = r /\ u.map = World.map /\ u.release = World.release
        /\ u.saved = World.saved
        /\ Listed(u, i) <=> Listed(World, i)
        /\ r.refs = World.item[i].refs /\ r.place = World.item[i].place =>
              Debt(u, i) = Debt(World, i)
        /\ Covered(u) <=> Covered(World)
    BY <1>1, PutKeeps
  <1> HIDE DEF u
  <1>3. Debt(u, i) = 0
    <2>1. CASE Placed(i) /\ r.refs = item[i].refs
      BY <2>1, <1>1, <1>2 DEF Placed
    <2>2. CASE item[i].place = "unborn" /\ r.refs = 1
      <3>1. World.item[i].refs = 0 /\ World.release[i] \in Nat
        BY <2>2, <1>1 DEF Unborn, WorldType
      <3>2. World.release[i] = 0 /\ ~Listed(World, i)
        BY <3>1, <2>2, <1>1 DEF Debt, Own
      <3> QED BY <3>2, <2>2, <1>2 DEF Debt, Own
    <2> QED BY <2>1, <2>2
  <1>4. \A t \in Times : i \in u.map[t] <=> u.item[i].stamp = t
    BY <1>1, <1>2 DEF Agree
  <1>5. d \in Nat /\ (r.burns => now + d <= MaxTime)
    <2>1. d \in Nat /\ MaxStart + d <= MaxTime /\ MaxStart \in Nat /\ MaxTime \in Nat
      BY DecayAssumption
    <2> QED BY <2>1, <1>1
  <1>6. OwnStamp(u, {i}) /\ Agree(u, {}, i)
    BY <1>4 DEF OwnStamp, Agree
  <1>7. /\ u.item[i].burns => now + d <= MaxTime
        /\ u.item[i].state # "true"
        /\ Unborn(u, i)
    BY <1>2, <1>5 DEF Unborn
  <1>8. ~CanDecay(u, i) /\ u.item[i].state \in {"none", "pending"} => Marked(u, {}, i)
    BY <1>2 DEF Marked, u
  <1>9. Kept(u, z) /\ Sound(z, {})
    BY <1>1, <1>2, <1>5, <1>6, <1>7, <1>8, GameStartGives
  <1> HIDE DEF z
  <1>10. \A j \in Items : Debt(z, j) = 0
    BY <1>1, <1>2, <1>3, <1>9 DEF Kept
  <1>11. z \in WorldType /\ (Covered(World) => Covered(z)) /\ (World.saved = End => z.saved = End)
    BY <1>2, <1>9 DEF Kept
  <1>12. Become(z)
    BY DEF z, u
  <1> QED BY <1>9, <1>10, <1>11, <1>12, ClientKeeps

\* Of an item that is not in the world, or of a type that does not decay.
LEMMA NoStamp ==
    ASSUME IInv, NEW i \in Items, ~CanDecay(World, i) \/ item[i].state # "true"
    PROVE  item[i].stamp = None
  BY IInvGives DEF Sound, Marked

LEMMA PlaceKeeps ==
    ASSUME IInv, NEW i \in Items, NEW d \in Durations, Place(i, d) PROVE IInv'
  <1> DEFINE r == [item[i] EXCEPT !.place = "placed", !.refs = 1, !.burns = TRUE,
                                  !.state = "pending"]
  <1>1. item[i] \in ItemRecord /\ item[i].place = "unborn"
    BY IInvGives DEF Place
  <1>2. /\ r \in ItemRecord /\ r.place = "placed" /\ r.refs = 1 /\ r.burns /\ r.state = "pending"
        /\ r.stamp = item[i].stamp
    BY <1>1 DEF ItemRecord, States, Places
  <1>3. r.stamp = None
    <2>1. ~CanDecay(World, i)
      BY <1>1 DEF CanDecay, World
    <2> QED BY <2>1, <1>2, NoStamp
  <1>4. Become(GameStart(Put(World, i, r), i, d)) /\ Idle /\ now <= MaxStart
    BY DEF Place, MayStart
  <1> HIDE DEF r
  <1> QED BY <1>1, <1>2, <1>3, <1>4, StartKeeps

LEMMA IgniteKeeps ==
    ASSUME IInv, NEW i \in Items, NEW d \in Durations, Ignite(i, d) PROVE IInv'
  <1> DEFINE r == [item[i] EXCEPT !.burns = TRUE, !.state = "pending"]
  <1>1. item[i] \in ItemRecord /\ Placed(i) /\ ~item[i].burns
    BY IInvGives DEF Ignite
  <1>2. /\ r \in ItemRecord /\ r.place = "placed" /\ r.refs = item[i].refs /\ r.burns
        /\ r.state = "pending" /\ r.stamp = item[i].stamp
    BY <1>1 DEF ItemRecord, States, Placed
  <1>3. r.stamp = None
    <2>1. ~CanDecay(World, i)
      BY <1>1 DEF CanDecay, World
    <2> QED BY <2>1, <1>2, NoStamp
  <1>4. Become(GameStart(Put(World, i, r), i, d)) /\ Idle /\ now <= MaxStart
    BY DEF Ignite, MayStart, SetBurning, World
  <1> HIDE DEF r
  <1> QED BY <1>1, <1>2, <1>3, <1>4, StartKeeps

LEMMA ExtinguishKeeps ==
    ASSUME IInv, NEW i \in Items, Extinguish(i) PROVE IInv'
  <1> DEFINE r == [item[i] EXCEPT !.burns = FALSE,
                                  !.state = IF item[i].state = "none" THEN "none" ELSE "stopping"]
  <1>1. item[i] \in ItemRecord /\ Placed(i)
    BY IInvGives DEF Extinguish
  <1>2. /\ r \in ItemRecord /\ r.place = "placed" /\ r.refs = item[i].refs /\ ~r.burns
        /\ r.state = IF item[i].state = "none" THEN "none" ELSE "stopping"
        /\ r.stamp = item[i].stamp
    BY <1>1 DEF ItemRecord, States, Placed
  <1>3. r.state = "stopping" \/ r.stamp = None
    BY <1>2, NoStamp
  <1>4. PICK d \in Durations : Become(GameStart(Put(World, i, r), i, d))
    BY DEF Extinguish, SetInert, World
  <1>5. Idle
    BY DEF Extinguish
  <1> HIDE DEF r
  <1> QED BY <1>1, <1>2, <1>3, <1>4, <1>5, StartKeeps

LEMMA SetDurationKeeps ==
    ASSUME IInv, NEW i \in Items, NEW d \in Durations, SetDuration(i, d) PROVE IInv'
  <1> DEFINE r == [item[i] EXCEPT !.state = "pending"]
  <1>1. item[i] \in ItemRecord /\ Placed(i)
    BY IInvGives DEF SetDuration
  <1>2. /\ r \in ItemRecord /\ r.place = "placed" /\ r.refs = item[i].refs
        /\ r.burns = item[i].burns /\ r.state = "pending" /\ r.stamp = item[i].stamp
    BY <1>1 DEF ItemRecord, States, Placed
  <1>3. Become(GameStart(Put(World, i, r), i, d)) /\ Idle /\ now <= MaxStart
    BY DEF SetDuration, MayStart
  <1> HIDE DEF r
  <1>4. CanDecay(Put(World, i, r), i) \/ r.stamp = None
    <2>1. CASE CanDecay(World, i)
      <3>1. r.burns /\ World \in WorldType /\ SoundBut(World, temp, {i})
        BY <2>1, <1>2, IInvGives DEF CanDecay
      <3> QED BY <2>1, <3>1, <1>2, PutKeeps
    <2>2. CASE ~CanDecay(World, i)
      BY <2>2, <1>2, NoStamp
    <2> QED BY <2>1, <2>2
  <1> QED BY <1>1, <1>2, <1>3, <1>4, StartKeeps

LEMMA ScriptStartsKeeps ==
    ASSUME IInv, NEW i \in Items, NEW d \in Durations, ScriptStarts(i, d) PROVE IInv'
  <1> DEFINE z == GameStart(World, i, d)
  <1>1. /\ Idle /\ now <= MaxStart /\ Become(z)
    BY DEF ScriptStarts, MayStart
  <1>2. /\ World \in WorldType /\ now \in Nat /\ Sound(World, {}) /\ OwnStamp(World, {i})
        /\ SoundBut(World, {}, {i})
        /\ \A j \in Items : Debt(World, j) = 0
    <2>1. temp = {}
      BY <1>1 DEF IInv, Idle
    <2> QED BY <2>1, IInvGives DEF Balanced
  <1>3. Agree(World, {}, i) /\ Marked(World, {}, i) /\ Unborn(World, i)
    BY <1>2 DEF Sound
  <1>4. d \in Nat /\ now + d <= MaxTime
    <2>1. d \in Nat /\ MaxStart + d <= MaxTime /\ MaxStart \in Nat /\ MaxTime \in Nat
      BY DecayAssumption
    <2> QED BY <2>1, <1>1, <1>2
  <1>5. World.item[i].stamp # None => Listed(World, i)
    BY <1>2, <1>3 DEF Agree, Listed, WorldType, ItemRecord
  <1>6. Kept(World, z) /\ Sound(z, {})
    BY <1>2, <1>3, <1>4, <1>5, GameStartGives
  <1> HIDE DEF z
  <1>7. /\ z \in WorldType /\ (Covered(World) => Covered(z)) /\ (World.saved = End => z.saved = End)
        /\ \A j \in Items : Debt(z, j) = 0
    BY <1>2, <1>6 DEF Kept
  <1> QED BY <1>1, <1>6, <1>7, ClientKeeps

LEMMA ScriptStopsKeeps ==
    ASSUME IInv, NEW i \in Items, ScriptStops(i) PROVE IInv'
  <1> DEFINE z == GameStop(World, {i})
  <1>1. Idle /\ Become(z)
    BY DEF ScriptStops
  <1>2. /\ World \in WorldType /\ Sound(World, {}) /\ OwnStamp(World, {i})
        /\ {i} \in SUBSET Items
        /\ \A j \in Items : Debt(World, j) = 0
    <2>1. temp = {}
      BY <1>1 DEF IInv, Idle
    <2> QED BY <2>1, IInvGives DEF Balanced
  <1>3. /\ Kept(World, z)
        /\ Apart(World, z, {j \in Items : Halts(World, {i}, j)})
        /\ \A j \in Items : z.item[j].refs = World.item[j].refs
        /\ \A j \in Items : Halts(World, {i}, j) =>
              /\ z.item[j].stamp = None
              /\ ~Listed(z, j)
              /\ z.item[j].state = IF Listed(World, j) \/ World.item[j].stamp = None THEN "none"
                                   ELSE World.item[j].state
    BY <1>2, GameStopGives
  <1> HIDE DEF z
  <1>4. ASSUME NEW j \in Items PROVE Agree(z, {}, j) /\ Marked(z, {}, j) /\ Unborn(z, j)
    <2>1. Agree(World, {}, j) /\ Marked(World, {}, j) /\ Unborn(World, j)
      BY <1>2 DEF Sound
    <2>2. CASE Halts(World, {i}, j)
      <3>1. World.item[j].stamp # None => Listed(World, j)
        BY <1>2, <2>1 DEF Agree, Listed, WorldType, ItemRecord
      <3>2. z.item[j].stamp = None /\ ~Listed(z, j) /\ z.item[j].state = "none"
        BY <2>2, <3>1, <1>3
      <3>3. Agree(z, {}, j)
        BY <3>2, Bounds DEF Agree, Listed
      <3>4. Unborn(z, j)
        BY <2>1, <1>3 DEF Unborn, Kept, Placing
      <3> QED BY <3>2, <3>3, <3>4 DEF Marked
    <2>3. CASE ~Halts(World, {i}, j)
      <3>1. Placing(World, z)
        BY <1>3 DEF Kept
      <3>2. j \in Items \ {k \in Items : Halts(World, {i}, k)}
        BY <2>3
      <3>3. CanDecay(World, j) => CanDecay(z, j)
        BY <3>1, PlacingDecay
      <3> QED BY <2>1, <3>2, <3>3, <1>3, ApartSound
    <2> QED BY <2>2, <2>3
  <1>5. /\ z \in WorldType /\ (Covered(World) => Covered(z)) /\ (World.saved = End => z.saved = End)
        /\ \A j \in Items : Debt(z, j) = 0
    BY <1>2, <1>3 DEF Kept
  <1>6. Sound(z, {})
    BY <1>4 DEF Sound
  <1> QED BY <1>1, <1>5, <1>6, ClientKeeps

LEMMA RemoveKeeps ==
    ASSUME IInv, NEW i \in Items, Remove(i) PROVE IInv'
  <1> DEFINE z == RemoveItem(World, i)
  <1>1. Idle /\ Become(z) /\ World.item[i].place = "placed"
    BY DEF Remove, Placed, World
  <1>2. /\ World \in WorldType /\ now \in Nat /\ Sound(World, {})
        /\ \A j \in Items : Debt(World, j) = 0
    <2>1. temp = {}
      BY <1>1 DEF IInv, Idle
    <2> QED BY <2>1, IInvGives DEF Balanced
  <1>3. /\ z \in WorldType
        /\ Sound(z, {})
        /\ \A j \in Items : Debt(z, j) = Debt(World, j)
        /\ Covered(World) => Covered(z)
        /\ World.saved = End => z.saved = End
    BY <1>1, <1>2, RemoveItemGives
  <1> HIDE DEF z
  <1> QED BY <1>1, <1>2, <1>3, ClientKeeps

\* The copy is made, of attributes that may say it decays, and put into the world.
LEMMA CloneKeeps ==
    ASSUME IInv, NEW i \in Items, NEW j \in Items, NEW d \in Durations, Clone(i, j, d) PROVE IInv'
  <1> DEFINE r == [item[i] EXCEPT !.place = "unborn", !.refs = 1, !.copy = TRUE]
             u == Put(World, j, r)
             v == GameStart(u, j, d)
             s == [v.item[j] EXCEPT !.place = "placed"]
             y == Put(v, j, s)
             z == GameStart(y, j, d)
  <1>1. /\ Idle /\ now <= MaxStart /\ Placed(i) /\ item[j].place = "unborn"
        /\ Become(y) \/ Become(z)
    BY DEF Clone, MayStart
  <1>2. /\ World \in WorldType /\ now \in Nat /\ Sound(World, {}) /\ SoundBut(World, {}, {j})
        /\ \A k \in Items : Debt(World, k) = 0
        /\ World.item = item /\ item[i] \in ItemRecord
    <2>1. temp = {}
      BY <1>1 DEF IInv, Idle
    <2> QED BY <2>1, IInvGives DEF Balanced
  <1>3. World.release[j] = 0 /\ ~Listed(World, j)
    <2>1. World.item[j].refs = 0 /\ World.release[j] \in Nat
      BY <1>1, <1>2 DEF Sound, Unborn, WorldType
    <2> QED BY <2>1, <1>1, <1>2 DEF Debt, Own
  <1>4. /\ r \in ItemRecord /\ r.place = "unborn" /\ r.refs = 1 /\ r.copy
        /\ r.burns = item[i].burns /\ r.state = item[i].state /\ r.stamp = item[i].stamp
    BY <1>2 DEF ItemRecord, Places
  <1>5. d \in Nat /\ now + d <= MaxTime
    <2>1. d \in Nat /\ MaxStart + d <= MaxTime /\ MaxStart \in Nat /\ MaxTime \in Nat
      BY DecayAssumption
    <2> QED BY <2>1, <1>1, <1>2
  <1> HIDE DEF r
  <1>6. /\ u \in WorldType
        /\ SoundBut(u, {}, {j})
        /\ \A k \in Items \ {j} : Debt(u, k) = Debt(World, k)
        /\ u.item[j] = r /\ u.map = World.map /\ u.release = World.release
        /\ u.saved = World.saved
        /\ Listed(u, j) <=> Listed(World, j)
        /\ Covered(u) <=> Covered(World)
    BY <1>1, <1>2, <1>4, PutKeeps
  <1> HIDE DEF u
  <1>7. Debt(u, j) = 1
    BY <1>3, <1>4, <1>6 DEF Debt, Own
  <1>8. OwnStamp(u, {j}) /\ ~CanDecay(u, j)
    BY <1>3, <1>4, <1>6 DEF OwnStamp, Listed, CanDecay
  <1>9. r.state \in {"none", "pending"} => Agree(u, {}, j) /\ Marked(u, {}, j)
    <2> SUFFICES ASSUME r.state \in {"none", "pending"} PROVE Agree(u, {}, j) /\ Marked(u, {}, j)
      OBVIOUS
    <2>1. r.stamp = None
      BY <1>4, NoStamp
    <2> QED BY <2>1, <1>3, <1>6, Bounds DEF Agree, Marked, Listed
  <1>10. /\ Kept(u, v)
         /\ SoundBut(v, {}, {j}) /\ Agree(v, {}, j) /\ Marked(v, {}, j)
    BY <1>2, <1>4, <1>5, <1>6, <1>8, <1>9, GameStartGives
  <1> HIDE DEF v
  <1>11. /\ v \in WorldType /\ v.item[j].place = "unborn" /\ v.item[j].copy
         /\ v.item[j] \in ItemRecord
    BY <1>4, <1>6, <1>10 DEF Kept, Placing, WorldType
  <1>12. v.item[j].stamp = None /\ ~Listed(v, j)
    <2>1. ~CanDecay(v, j)
      BY <1>11 DEF CanDecay
    <2>2. v.item[j].stamp = None
      BY <2>1, <1>10 DEF Marked
    <2> QED BY <2>2, <1>10, Bounds DEF Agree, Listed
  <1>13. /\ s \in ItemRecord /\ s.place = "placed" /\ s.copy /\ s.stamp = None
         /\ s.refs = v.item[j].refs
    BY <1>11, <1>12 DEF ItemRecord, Places
  <1> HIDE DEF s
  <1>14. /\ y \in WorldType
         /\ SoundBut(y, {}, {j})
         /\ \A k \in Items \ {j} : Debt(y, k) = Debt(v, k)
         /\ y.item[j] = s /\ y.map = v.map /\ y.release = v.release /\ y.saved = v.saved
         /\ Listed(y, j) <=> Listed(v, j)
         /\ Covered(y) <=> Covered(v)
    <2>1. v \in WorldType /\ s \in ItemRecord /\ SoundBut(v, {}, {j}) /\ s.place = "placed"
      BY <1>10, <1>11, <1>13
    <2> QED BY <2>1, PutKeeps, SMTT(30)
  <1> HIDE DEF y
  <1>15. \A k \in Items : Debt(y, k) = 0
    <2>1. Debt(y, j) = Debt(v, j) - 1
      <3>1. v.item[j].refs \in Nat /\ v.release[j] \in Nat
        BY <1>11 DEF WorldType, ItemRecord
      <3> QED BY <3>1, <1>11, <1>12, <1>13, <1>14 DEF Debt, Own
    <2>2. \A k \in Items : Debt(v, k) = Debt(u, k)
      BY <1>10 DEF Kept
    <2> QED BY <2>1, <2>2, <1>2, <1>6, <1>7, <1>14
  <1>16. Agree(y, {}, j) /\ Marked(y, {}, j) /\ Unborn(y, j)
    BY <1>12, <1>13, <1>14, Bounds DEF Agree, Marked, Unborn, Listed
  <1>17. Sound(y, {})
    BY <1>14, <1>16 DEF Sound, SoundBut
  <1>18. (Covered(World) => Covered(y)) /\ (World.saved = End => y.saved = End)
    BY <1>6, <1>10, <1>14 DEF Kept
  <1>19. CASE Become(y)
    BY <1>1, <1>14, <1>15, <1>17, <1>18, <1>19, ClientKeeps
  <1>20. CASE Become(z)
    <2>1. OwnStamp(y, {j})
      BY <1>16 DEF Agree, OwnStamp
    <2>2. Kept(y, z) /\ Sound(z, {})
      BY <2>1, <1>2, <1>5, <1>13, <1>14, <1>16, GameStartGives
    <2> HIDE DEF z
    <2>3. /\ z \in WorldType /\ (Covered(World) => Covered(z))
          /\ (World.saved = End => z.saved = End)
          /\ \A k \in Items : Debt(z, k) = 0
      BY <2>2, <1>15, <1>18 DEF Kept
    <2> QED BY <2>2, <2>3, <1>1, <1>20, ClientKeeps
  <1> QED BY <1>1, <1>19, <1>20

-----------------------------------------------------------------------------
(* The game: what is released is deleted, and time passes.                 *)

LEMMA CleanupKeeps ==
    ASSUME IInv, Cleanup PROVE IInv'
  <1> DEFINE rest(i)  == item[i].refs - release[i]
             freed    == {i \in Items : item[i].place \notin {"unborn", "freed"} /\ rest(i) = 0}
             orphans  == {i \in Items : \E c \in freed : i \in Inside[c] /\ Placed(i)}
             final(i) == IF i \in orphans THEN rest(i) - 1 ELSE rest(i)
             place(i) == IF item[i].place = "unborn" THEN "unborn"
                         ELSE IF final(i) = 0 THEN "freed"
                         ELSE IF i \in orphans THEN "removed" ELSE item[i].place
             n == [i \in Items |-> [item[i] EXCEPT !.refs = final(i), !.place = place(i)]]
             r == [i \in Items |-> 0]
             z == [World EXCEPT !.item = n, !.release = r]
  <1>1. Idle /\ item' = n /\ release' = r /\ UNCHANGED <<map, checks, eventId, saved>>
    BY DEF Cleanup
  <1>2. /\ World \in WorldType /\ Sound(World, {})
        /\ \A j \in Items : Debt(World, j) = 0 /\ item[j] \in ItemRecord /\ release[j] \in Nat
        /\ World.item = item /\ World.map = map /\ World.release = release
    <2>1. temp = {}
      BY <1>1 DEF IInv, Idle
    <2>2. \A j \in Items : World.release[j] \in Nat /\ World.item[j] \in ItemRecord
      BY IInvGives DEF WorldType
    <2> QED BY <2>1, <2>2, IInvGives DEF Balanced
  <1>3. ASSUME NEW i \in Items
        PROVE  rest(i) = (IF Placed(i) THEN 1 ELSE 0) + (IF Listed(World, i) THEN 1 ELSE 0)
    <2>1. Debt(World, i) = 0 /\ item[i].refs \in Nat /\ release[i] \in Nat
      BY <1>2 DEF ItemRecord
    <2> QED BY <2>1, <1>2 DEF Debt, Own, Placed
  <1> HIDE DEF rest
  <1>4. ASSUME NEW i \in Items
        PROVE  /\ final(i) \in Nat
               /\ final(i) = (IF place(i) = "placed" THEN 1 ELSE 0)
                             + (IF Listed(World, i) THEN 1 ELSE 0)
               /\ place(i) \in Places
               /\ place(i) = "unborn" <=> item[i].place = "unborn"
    <2>1. /\ rest(i) = (IF item[i].place = "placed" THEN 1 ELSE 0)
                       + (IF Listed(World, i) THEN 1 ELSE 0)
          /\ i \in orphans => item[i].place = "placed"
          /\ item[i].place \in Places
      BY <1>2, <1>3 DEF Placed, ItemRecord
    <2>2. item[i].place = "unborn" => ~Listed(World, i)
      <3>1. item[i].place = "unborn" => item[i].refs = 0 /\ Debt(World, i) = 0 /\ release[i] \in Nat
        BY <1>2 DEF Sound, Unborn
      <3> QED BY <3>1, <1>2 DEF Debt, Own
    <2> HIDE DEF orphans
    <2> QED BY <2>1, <2>2 DEF Places
  <1>5. ASSUME NEW i \in Items, item[i].stamp # None
        PROVE  /\ item[i].burns /\ place(i) = "placed"
               /\ \A c \in Items : i \in Inside[c] => place(c) = "placed"
    <2>1. CanDecay(World, i) /\ Listed(World, i)
      <3>1. Agree(World, {}, i) /\ Marked(World, {}, i)
        BY <1>2 DEF Sound
      <3>2. item[i].stamp \in Times
        BY <1>2, <1>5 DEF ItemRecord
      <3> QED BY <3>1, <3>2, <1>2, <1>5 DEF Agree, Marked, Listed
    <2>2. /\ item[i].burns /\ item[i].place = "placed"
          /\ \A c \in Items : i \in Inside[c] => item[c].place = "placed"
      BY <2>1, <1>2 DEF CanDecay
    <2>3. \A c \in Items : item[c].place = "placed" => rest(c) # 0
      BY <1>3 DEF Placed
    <2>4. i \notin orphans
      BY <2>2, <2>3
    <2>5. rest(i) # 0
      BY <2>2, <2>3
    <2>6. place(i) = "placed"
      BY <2>2, <2>4, <2>5
    <2>7. ASSUME NEW c \in Items, i \in Inside[c] PROVE place(c) = "placed"
      <3>1. c \notin orphans
        BY <2>7, DecayAssumption
      <3>2. rest(c) # 0 /\ item[c].place = "placed"
        BY <2>2, <2>3, <2>7
      <3> QED BY <3>1, <3>2
    <2> QED BY <2>2, <2>6, <2>7
  <1> HIDE DEF final, place, freed, orphans
  <1>6. ASSUME NEW i \in Items
        PROVE  LET x == [item[i] EXCEPT !.refs = final(i), !.place = place(i)] IN
               /\ x \in ItemRecord
               /\ x.refs = final(i) /\ x.place = place(i) /\ x.state = item[i].state
               /\ x.stamp = item[i].stamp /\ x.burns = item[i].burns /\ x.copy = item[i].copy
    <2>1. item[i] \in ItemRecord /\ final(i) \in Nat /\ place(i) \in Places
      BY <1>2, <1>4
    <2> QED BY <2>1 DEF ItemRecord
  <1>7. /\ n \in [Items -> ItemRecord]
        /\ \A i \in Items : /\ n[i].refs = final(i) /\ n[i].place = place(i)
                            /\ n[i].state = item[i].state /\ n[i].stamp = item[i].stamp
                            /\ n[i].burns = item[i].burns /\ n[i].copy = item[i].copy
    BY <1>6
  <1>8. r \in [Items -> Nat] /\ \A i \in Items : r[i] = 0
    OBVIOUS
  <1> HIDE DEF n, r
  <1>9. /\ z \in WorldType
        /\ z.item = n /\ z.release = r /\ z.map = map /\ z.checks = checks /\ z.saved = saved
        /\ z.id = eventId
    BY <1>2, <1>7, <1>8 DEF World, WorldType
  <1> HIDE DEF z
  <1>10. Become(z)
    BY <1>1, <1>9 DEF Become
  <1>11. \A i \in Items : Listed(z, i) <=> Listed(World, i)
    BY <1>2, <1>9 DEF Listed
  <1>12. \A i \in Items : Debt(z, i) = 0
    BY <1>4, <1>7, <1>8, <1>9, <1>11 DEF Debt, Own
  <1>13. ASSUME NEW i \in Items PROVE Agree(z, {}, i) /\ Marked(z, {}, i) /\ Unborn(z, i)
    <2>1. Agree(World, {}, i) /\ Marked(World, {}, i) /\ Unborn(World, i)
      BY <1>2 DEF Sound
    <2>2. Agree(z, {}, i)
      BY <2>1, <1>2, <1>7, <1>9 DEF Agree
    <2>3. Marked(z, {}, i)
      <3>1. item[i].stamp # None => CanDecay(z, i)
        BY <1>5, <1>7, <1>9 DEF CanDecay
      <3> QED BY <3>1, <2>1, <1>2, <1>7, <1>9 DEF Marked
    <2>4. Unborn(z, i)
      <3>1. item[i].place = "unborn" => final(i) = 0
        <4>1. item[i].place = "unborn" => item[i].refs = 0 /\ Debt(World, i) = 0 /\ release[i] \in Nat
          BY <1>2, <2>1 DEF Unborn
        <4>2. item[i].place = "unborn" => ~Listed(World, i)
          BY <4>1, <1>2 DEF Debt, Own
        <4> QED BY <4>2, <1>4
      <3> QED BY <3>1, <1>4, <1>7, <1>9 DEF Unborn
    <2> QED BY <2>2, <2>3, <2>4
  <1>14. /\ Covered(World) => Covered(z)
         /\ World.saved = End => z.saved = End
    BY <1>9 DEF Covered, Covers, Buckets, World
  <1>15. Sound(z, {})
    BY <1>13 DEF Sound
  <1> QED BY <1>1, <1>9, <1>10, <1>12, <1>14, <1>15, ClientKeeps

LEMMA TickKeeps ==
    ASSUME IInv, Tick PROVE IInv'
  <1>1. /\ Become(World) /\ temp' = temp /\ pc' = pc /\ dangling' = dangling /\ now' = now + 1
    BY DEF Tick, Become, World
  <1>2. /\ World \in WorldType /\ Sound(World, temp) /\ Balanced(World, temp) /\ now \in Nat
        /\ temp \in SUBSET Items /\ pc \in {"idle", "checking"} /\ dangling \in BOOLEAN
        /\ pc = "idle" => temp = {} /\ World.saved = End
        /\ ~dangling => Covered(World)
    BY IInvGives DEF IInv, TypeOK
  <1>3. ASSUME NEW t \in Times, Covers(World, t)
        PROVE  \E k \in DOMAIN World.checks : World.checks[k] <= Later(t, now') + MinTicks
    <2>1. PICK k \in DOMAIN World.checks : World.checks[k] <= Later(t, now) + MinTicks
      BY <1>3 DEF Covers
    <2>2. World.checks[k] \in Nat /\ t \in Nat /\ MinTicks \in Nat
      BY <1>2, ChecksGives, Bounds DEF WorldType
    <2>3. World.checks[k] <= Later(t, now') + MinTicks
      BY <2>1, <2>2, <1>1, <1>2 DEF Later
    <2> QED BY <2>3
  <1>4. ~dangling /\ World.saved # Gone =>
              \A t \in Buckets(World) : (\E k \in DOMAIN World.checks :
                    World.checks[k] <= Later(t, now') + MinTicks)
                 \/ (World.saved \in Times /\ World.saved <= t)
    BY <1>2, <1>3 DEF Covered, Buckets
  <1> HIDE DEF World
  <1>5. Sound(World, temp') /\ Balanced(World, temp') /\ now' \in Nat
    BY <1>1, <1>2
  <1> QED BY <1>1, <1>2, <1>4, <1>5, BecomeKeeps

-----------------------------------------------------------------------------
(* checkDecay.                                                             *)

LEMMA BeginCheckKeeps ==
    ASSUME IInv, NEW k, BeginCheck(k) PROVE IInv'
  <1> DEFINE c == [j \in DOMAIN checks \ {k} |-> checks[j]]
             T == UNION {map[t] : t \in Taken}
             m == [t \in Times |-> IF t \in Taken THEN {} ELSE map[t]]
             z == [World EXCEPT !.map = m, !.checks = c, !.saved = saved']
  <1>1. /\ checks' = c /\ temp' = T /\ map' = m /\ pc' = "checking"
        /\ UNCHANGED <<eventId, item, release, dangling, now>>
        /\ IF Buckets(World) = Taken THEN saved' = End
           ELSE \E t \in Buckets(World) \ Taken :
                    /\ \A u \in Buckets(World) \ Taken : t <= u
                    /\ saved' = t
        /\ pc = "idle"
    BY DEF BeginCheck
  <1>2. /\ World \in WorldType /\ Sound(World, {}) /\ now \in Nat /\ dangling \in BOOLEAN
        /\ \A j \in Items : Debt(World, j) = 0
        /\ World.item = item /\ World.map = map /\ World.release = release
        /\ World.checks = checks
    <2>1. temp = {} /\ dangling \in BOOLEAN
      BY <1>1 DEF IInv, TypeOK
    <2> QED BY <2>1, IInvGives DEF Balanced
  <1>3. Taken \subseteq Times /\ Taken \subseteq Buckets(World) /\ Buckets(World) \subseteq Times
    BY DEF Taken, Buckets
  <1>4. map \in [Times -> SUBSET Items]
    BY <1>2 DEF WorldType
  <1>5. \A i \in Items, t \in Times : i \in map[t] <=> item[i].stamp = t
    BY <1>2 DEF Sound, Agree
  <1>6. \A i : i \in T <=> \E t \in Taken : i \in map[t]
    OBVIOUS
  <1>7. T \in SUBSET Items
    BY <1>3, <1>4, <1>6
  <1>8. /\ m \in [Times -> SUBSET Items]
        /\ \A t \in Times : m[t] = IF t \in Taken THEN {} ELSE map[t]
    BY <1>4
  <1>9. c \in Checks
    <2>1. /\ DOMAIN checks \subseteq Nat /\ IsFiniteSet(DOMAIN checks)
          /\ \A j \in DOMAIN checks : checks[j] \in Nat
      BY <1>2, ChecksGives DEF WorldType
    <2>2. DOMAIN c = DOMAIN checks \ {k}
      OBVIOUS
    <2>3. IsFiniteSet(DOMAIN c)
      BY <2>1, <2>2, FS_RemoveElement
    <2>4. c = [j \in DOMAIN c |-> c[j]] /\ \A j \in DOMAIN c : c[j] \in Nat
      BY <2>1
    <2> HIDE DEF c
    <2> QED BY <2>1, <2>2, <2>3, <2>4, ChecksGives
  <1>10. saved' \in Times \cup {End}
    BY <1>1, <1>3
  <1> HIDE DEF c, T, m, Taken
  <1>11. /\ z \in WorldType
         /\ z.map = m /\ z.checks = c /\ z.saved = saved' /\ z.item = item /\ z.release = release
         /\ z.id = eventId
    BY <1>2, <1>8, <1>9, <1>10 DEF World, WorldType
  <1> HIDE DEF z
  <1>12. Become(z)
    BY <1>1, <1>11 DEF Become
  <1>13. ASSUME NEW i \in Items
         PROVE  /\ Agree(z, T, i) /\ Marked(z, T, i) /\ Unborn(z, i)
                /\ Debt(z, i) = IF i \in T THEN 1 ELSE 0
    <2>1. Agree(World, {}, i) /\ Marked(World, {}, i) /\ Unborn(World, i) /\ Debt(World, i) = 0
      BY <1>2 DEF Sound
    <2>2. Agree(z, T, i)
      BY <1>3, <1>5, <1>6, <1>8, <1>11 DEF Agree
    <2>3. Marked(z, T, i) /\ Unborn(z, i)
      BY <2>1, <1>2, <1>11 DEF Marked, Unborn, CanDecay
    <2>4. Listed(World, i) <=> Listed(z, i) \/ i \in T
      BY <1>2, <1>3, <1>5, <1>6, <1>8, <1>11 DEF Listed
    <2>5. ~(Listed(z, i) /\ i \in T)
      BY <2>2 DEF Agree, Listed
    <2>6. Debt(z, i) = IF i \in T THEN 1 ELSE 0
      <3>1. item[i].refs \in Nat /\ release[i] \in Nat
        BY <1>2 DEF WorldType, ItemRecord
      <3>2. /\ Own(World, i) = (IF item[i].place = "placed" THEN 1 ELSE 0)
                               + (IF Listed(World, i) THEN 1 ELSE 0) + release[i]
            /\ Own(z, i) = (IF item[i].place = "placed" THEN 1 ELSE 0)
                           + (IF Listed(z, i) THEN 1 ELSE 0) + release[i]
        BY <1>2, <1>11 DEF Own
      <3>3. item[i].refs - Own(World, i) = 0 /\ Debt(z, i) = item[i].refs - Own(z, i)
        BY <2>1, <1>2, <1>11 DEF Debt
      <3> QED BY <3>1, <3>2, <3>3, <2>4, <2>5
    <2> QED BY <2>2, <2>3, <2>6
  <1>14. ASSUME NEW t \in Buckets(z) PROVE z.saved \in Times /\ z.saved <= t
    <2>1. t \in Buckets(World) \ Taken
      BY <1>2, <1>8, <1>11 DEF Buckets
    <2>2. Buckets(World) # Taken
      BY <2>1
    <2> QED BY <2>1, <2>2, <1>1, <1>3, <1>11
  <1>15. Sound(z, temp') /\ Balanced(z, temp')
    BY <1>1, <1>13 DEF Sound, Balanced
  <1>16. temp' \in SUBSET Items /\ pc' = "checking" /\ dangling' \in BOOLEAN /\ now' \in Nat
    BY <1>1, <1>2, <1>7
  <1> QED BY <1>11, <1>12, <1>14, <1>15, <1>16, BecomeKeeps

\* The reference of the map goes with i, which checkDecay has taken from it.
LEMMA CheckingKeeps ==
    ASSUME IInv, NEW i \in Items, Checking(i), NEW y, y \in WorldType, Sound(y, temp \ {i}),
           \A j \in Items : Debt(y, j) = Debt(World, j),
           Covered(World) => Covered(y), Become(Release(y, i))
    PROVE  IInv'
  <1> DEFINE z == Release(y, i)
  <1>1. /\ temp' = temp \ {i} /\ pc' = "checking" /\ dangling' = dangling /\ now' = now
        /\ i \in temp
    BY DEF Checking
  <1>2. /\ z \in WorldType
        /\ \A j \in Items : Debt(z, j) = IF j = i THEN Debt(y, j) - 1 ELSE Debt(y, j)
        /\ Covered(z) <=> Covered(y)
        /\ Sound(z, temp \ {i}) <=> Sound(y, temp \ {i})
    BY ReleaseGives
  <1> HIDE DEF z
  <1>3. Balanced(z, temp')
    <2>1. \A j \in Items : Debt(World, j) = IF j \in temp THEN 1 ELSE 0
      BY IInvGives DEF Balanced
    <2> QED BY <2>1, <1>1, <1>2 DEF Balanced
  <1>4. ~dangling => Covered(z)
    BY <1>2, IInvGives
  <1>5. ~dangling' /\ z.saved # Gone =>
              \A t \in Buckets(z) : (\E k \in DOMAIN z.checks :
                    z.checks[k] <= Later(t, now') + MinTicks)
                 \/ (z.saved \in Times /\ z.saved <= t)
    BY <1>1, <1>4 DEF Covered, Covers
  <1>6. temp' \in SUBSET Items /\ dangling' \in BOOLEAN /\ now' \in Nat
    BY <1>1 DEF IInv, TypeOK
  <1>7. Sound(z, temp') /\ Become(z)
    BY <1>1, <1>2 DEF z
  <1> QED BY <1>1, <1>2, <1>3, <1>5, <1>6, <1>7, BecomeKeeps

LEMMA UnmarkedGives ==
    ASSUME IInv, NEW i \in Items, i \in temp
    PROVE  LET y == Unmarked(i) IN
           /\ y \in WorldType /\ Sound(y, temp \ {i})
           /\ \A j \in Items : Debt(y, j) = Debt(World, j)
           /\ Covered(World) => Covered(y)
           /\ y.item[i].state = "none" /\ y.item[i].stamp = None
           /\ y.item[i].burns = item[i].burns /\ y.item[i].place = item[i].place
           /\ ~Listed(y, i)
           /\ CanDecay(World, i) => CanDecay(y, i)
  <1> DEFINE r == [item[i] EXCEPT !.state = "none", !.stamp = None]
             y == Put(World, i, r)
  <1>1. Unmarked(i) = y
    BY DEF Unmarked
  <1>2. /\ World \in WorldType /\ Sound(World, temp) /\ World.item = item /\ item[i] \in ItemRecord
    BY IInvGives
  <1>3. /\ r \in ItemRecord /\ r.state = "none" /\ r.stamp = None /\ r.burns = item[i].burns
        /\ r.place = item[i].place /\ r.copy = item[i].copy /\ r.refs = item[i].refs
    BY <1>2 DEF ItemRecord, States
  <1> HIDE DEF r
  <1>4. /\ y \in WorldType /\ y.map = World.map /\ y.release = World.release
        /\ Covered(y) <=> Covered(World)
        /\ \A j \in Items : Listed(y, j) <=> Listed(World, j)
        /\ Apart(World, y, {i})
    BY <1>2, <1>3, PutGives
  <1>5. \A j \in Items : y.item[j] = IF j = i THEN r ELSE item[j]
    BY <1>2, <1>3, PutItem
  <1> HIDE DEF y
  <1>6. Placing(World, y) /\ \A j \in Items : y.item[j].refs = item[j].refs
    BY <1>2, <1>3, <1>5 DEF Placing
  <1>7. \A j \in Items : Debt(y, j) = Debt(World, j)
    BY <1>2, <1>4, <1>6 DEF Debt, Own, Placing
  <1>8. ~Listed(y, i) /\ \A t \in Times : i \notin World.map[t]
    <2>1. \A t \in Times : i \notin World.map[t]
      BY <1>2 DEF Sound, Agree
    <2> QED BY <2>1, <1>4 DEF Listed
  <1>9. ASSUME NEW j \in Items
        PROVE  Agree(y, temp \ {i}, j) /\ Marked(y, temp \ {i}, j) /\ Unborn(y, j)
    <2>1. Agree(World, temp, j) /\ Marked(World, temp, j) /\ Unborn(World, j)
      BY <1>2 DEF Sound
    <2>2. CASE j = i
      <3>1. Agree(y, temp \ {i}, j)
        BY <2>2, <1>3, <1>4, <1>5, <1>8, Bounds DEF Agree
      <3>2. Marked(y, temp \ {i}, j)
        BY <2>2, <1>3, <1>5 DEF Marked
      <3> QED BY <3>1, <3>2, <2>1, <1>2, <1>6 DEF Unborn, Placing
    <2>3. CASE j # i
      <3>1. y.item[j] = World.item[j]
        BY <2>3, <1>2, <1>5
      <3>2. CanDecay(y, j) <=> CanDecay(World, j)
        BY <1>6, PlacingDecay
      <3> QED BY <2>1, <2>3, <3>1, <3>2, <1>4 DEF Agree, Marked, Unborn
    <2> QED BY <2>2, <2>3
  <1>10. CanDecay(World, i) => CanDecay(y, i)
    BY <1>6, PlacingDecay
  <1>11. Sound(y, temp \ {i})
    BY <1>9 DEF Sound
  <1> QED BY <1>1, <1>3, <1>4, <1>5, <1>7, <1>8, <1>10, <1>11

LEMMA SparedKeeps ==
    ASSUME IInv, NEW i \in Items, Spared(i) \/ Stays(i) PROVE IInv'
  <1> DEFINE y == Unmarked(i)
  <1>1. Checking(i) /\ i \in temp /\ Become(Release(y, i))
    BY DEF Spared, Stays, Decays, Checking
  <1>2. /\ y \in WorldType /\ Sound(y, temp \ {i})
        /\ \A j \in Items : Debt(y, j) = Debt(World, j)
        /\ Covered(World) => Covered(y)
    BY <1>1, UnmarkedGives
  <1> HIDE DEF y
  <1> QED BY <1>1, <1>2, CheckingKeeps

LEMMA VanishesKeeps ==
    ASSUME IInv, NEW i \in Items, Vanishes(i) PROVE IInv'
  <1> DEFINE y == Unmarked(i)
             z == RemoveItem(y, i)
  <1>1. Checking(i) /\ i \in temp /\ Become(Release(z, i)) /\ CanDecay(World, i)
    BY DEF Vanishes, Decays, Checking
  <1>2. /\ y \in WorldType /\ Sound(y, temp \ {i})
        /\ \A j \in Items : Debt(y, j) = Debt(World, j)
        /\ Covered(World) => Covered(y)
        /\ CanDecay(y, i)
    BY <1>1, UnmarkedGives
  <1> HIDE DEF y
  <1>3. y.item[i].place = "placed" /\ now \in Nat
    BY <1>2, IInvGives DEF CanDecay
  <1>4. /\ z \in WorldType /\ Sound(z, temp \ {i})
        /\ \A j \in Items : Debt(z, j) = Debt(y, j)
        /\ Covered(y) => Covered(z)
    BY <1>2, <1>3, RemoveItemGives
  <1> HIDE DEF z
  <1>5. /\ \A j \in Items : Debt(z, j) = Debt(World, j)
        /\ Covered(World) => Covered(z)
    BY <1>2, <1>4
  <1> QED BY <1>1, <1>4, <1>5, CheckingKeeps

\* i turns into another item; r is its record before its decay starts anew.
LEMMA BecomesKeeps ==
    ASSUME IInv, NEW i \in Items, Decays(i), NEW d \in Durations, NEW r \in ItemRecord,
           r.refs = Unmarked(i).item[i].refs, r.place = "placed", r.stamp = None,
           r.state # "true", r.burns => now <= MaxStart,
           Become(Release(GameStart(Put(Unmarked(i), i, r), i, d), i))
    PROVE  IInv'
  <1> DEFINE y == Unmarked(i)
             u == Put(y, i, r)
             z == GameStart(u, i, d)
  <1>1. Checking(i) /\ i \in temp /\ CanDecay(World, i)
    BY DEF Decays, Checking
  <1>2. /\ y \in WorldType /\ Sound(y, temp \ {i})
        /\ \A j \in Items : Debt(y, j) = Debt(World, j)
        /\ Covered(World) => Covered(y)
        /\ ~Listed(y, i) /\ y.item[i].place = "placed" /\ r.refs = y.item[i].refs
    <2>1. item[i].place = "placed"
      BY <1>1 DEF CanDecay, World
    <2> QED BY <2>1, <1>1, UnmarkedGives
  <1>3. SoundBut(y, temp \ {i}, {i})
    BY <1>2 DEF Sound, SoundBut
  <1>4. Become(Release(z, i))
    OBVIOUS
  <1> HIDE DEF y
  <1>5. /\ u \in WorldType
        /\ SoundBut(u, temp \ {i}, {i})
        /\ \A j \in Items \ {i} : Debt(u, j) = Debt(y, j)
        /\ u.item[i] = r
        /\ Listed(u, i) <=> Listed(y, i)
        /\ r.refs = y.item[i].refs /\ r.place = y.item[i].place => Debt(u, i) = Debt(y, i)
        /\ Covered(u) <=> Covered(y)
    BY <1>2, <1>3, PutKeeps, ZenonT(40)
  <1> HIDE DEF u
  <1>6. \A j \in Items : Debt(u, j) = Debt(World, j)
    BY <1>2, <1>5
  <1>7. d \in Nat /\ (r.burns => now + d <= MaxTime) /\ now \in Nat
    <2>1. d \in Nat /\ MaxStart + d <= MaxTime /\ MaxStart \in Nat /\ MaxTime \in Nat
      BY DecayAssumption
    <2> QED BY <2>1, IInvGives
  <1>8. OwnStamp(u, {i}) /\ Agree(u, temp \ {i}, i) /\ Unborn(u, i)
    BY <1>2, <1>5, Bounds DEF OwnStamp, Agree, Unborn, Listed
  <1>9. Marked(u, temp \ {i}, i)
    BY <1>5 DEF Marked
  <1>10. Kept(u, z) /\ Sound(z, temp \ {i})
    BY <1>5, <1>7, <1>8, <1>9, GameStartGives
  <1> HIDE DEF z
  <1>11. /\ z \in WorldType /\ \A j \in Items : Debt(z, j) = Debt(World, j)
         /\ Covered(World) => Covered(z)
    BY <1>2, <1>5, <1>6, <1>10 DEF Kept
  <1> QED BY <1>1, <1>4, <1>10, <1>11, CheckingKeeps

LEMMA BecomesBurningKeeps ==
    ASSUME IInv, NEW i \in Items, NEW d \in Durations, BecomesBurning(i, d) PROVE IInv'
  <1> DEFINE y == Unmarked(i)
             r == [y.item[i] EXCEPT !.burns = TRUE, !.state = "pending"]
  <1>1. Decays(i) /\ i \in temp /\ now <= MaxStart
        /\ Become(Release(GameStart(Put(y, i, r), i, d), i))
    BY DEF BecomesBurning, SetBurning, Decays, Checking
  <1>2. /\ y.item[i] \in ItemRecord /\ y.item[i].stamp = None /\ y.item[i].place = "placed"
    <2>1. /\ y \in WorldType /\ y.item[i].stamp = None /\ y.item[i].place = item[i].place
      BY <1>1, UnmarkedGives
    <2>2. item[i].place = "placed"
      BY <1>1 DEF Decays, CanDecay, World
    <2> HIDE DEF y
    <2> QED BY <2>1, <2>2 DEF WorldType
  <1> HIDE DEF y
  <1>3. /\ r \in ItemRecord /\ r.refs = y.item[i].refs /\ r.place = "placed" /\ r.stamp = None
        /\ r.state = "pending"
    BY <1>2 DEF ItemRecord, States
  <1> HIDE DEF r
  <1>4. r.state # "true" /\ (r.burns => now <= MaxStart)
    BY <1>1, <1>3
  <1> QED BY <1>1, <1>3, <1>4, BecomesKeeps DEF y

LEMMA BecomesInertKeeps ==
    ASSUME IInv, NEW i \in Items, BecomesInert(i) PROVE IInv'
  <1> DEFINE y == Unmarked(i)
             r == [y.item[i] EXCEPT !.burns = FALSE,
                      !.state = IF y.item[i].state = "none" THEN "none" ELSE "stopping"]
  <1>1. PICK d \in Durations : Become(Release(GameStart(Put(y, i, r), i, d), i))
    BY DEF BecomesInert, SetInert
  <1>2. Decays(i) /\ i \in temp
    BY DEF BecomesInert, Decays, Checking
  <1>3. /\ y.item[i] \in ItemRecord /\ y.item[i].stamp = None /\ y.item[i].place = "placed"
    <2>1. /\ y \in WorldType /\ y.item[i].stamp = None /\ y.item[i].place = item[i].place
      BY <1>2, UnmarkedGives
    <2>2. item[i].place = "placed"
      BY <1>2 DEF Decays, CanDecay, World
    <2> HIDE DEF y
    <2> QED BY <2>1, <2>2 DEF WorldType
  <1> HIDE DEF y
  <1>4. /\ r \in ItemRecord /\ r.refs = y.item[i].refs /\ r.place = "placed" /\ r.stamp = None
        /\ r.state # "true" /\ ~r.burns
    BY <1>3 DEF ItemRecord, States
  <1> HIDE DEF r
  <1> QED BY <1>1, <1>2, <1>4, BecomesKeeps DEF y

\* The end of checkDecay: what ends the task is a record with the same items.
LEMMA EndCheckKeeps ==
    ASSUME IInv, EndCheck PROVE IInv'
  <1>1. /\ temp' = {} /\ pc' = "idle" /\ now' = now /\ temp = {}
        /\ dangling' = (dangling \/ saved = Gone)
    BY DEF EndCheck
  <1>2. /\ World \in WorldType /\ Sound(World, {}) /\ Balanced(World, {}) /\ now \in Nat
        /\ dangling \in BOOLEAN /\ World.saved = saved
        /\ ~dangling => Covered(World)
    BY <1>1, IInvGives DEF IInv, TypeOK
  <1>3. ASSUME NEW z, Become(z), z \in WorldType, Sound(z, {}), Balanced(z, {}), z.saved = End,
               ~dangling' => \A t \in Buckets(z) : Covers(z, t)
        PROVE  IInv'
    <2>1. ~dangling' /\ z.saved # Gone =>
              \A t \in Buckets(z) : (\E k \in DOMAIN z.checks :
                    z.checks[k] <= Later(t, now') + MinTicks)
                 \/ (z.saved \in Times /\ z.saved <= t)
      BY <1>1, <1>3 DEF Covers
    <2>2. dangling' \in BOOLEAN /\ now' \in Nat
      BY <1>1, <1>2
    <2> QED BY <1>1, <1>3, <2>1, <2>2, BecomeKeeps
  <1>4. CASE saved = End /\ Become(World)
    <2>1. ~dangling' => \A t \in Buckets(World) : Covers(World, t)
      BY <1>1, <1>2, <1>4, Bounds DEF Covered
    <2> QED BY <2>1, <1>2, <1>3, <1>4
  <1>5. ASSUME NEW delay \in Nat, Become([AddCheck(World, delay) EXCEPT !.saved = End]),
               ~dangling' => saved \in Times /\ now + delay <= Later(saved, now)
        PROVE  IInv'
    <2> DEFINE y == AddCheck(World, delay)
               z == [y EXCEPT !.saved = End]
    <2>1. /\ y \in WorldType
          /\ y.map = World.map /\ y.item = World.item /\ y.release = World.release
          /\ \A t \in Times : Covers(World, t) => Covers(y, t)
          /\ \A t \in Times : now + delay <= Later(t, now) => Covers(y, t)
      BY <1>2, AddCheckGives
    <2>2. Become(z)
      BY <1>5
    <2> HIDE DEF y
    <2>3. /\ z \in WorldType /\ z.map = World.map /\ z.item = World.item
          /\ z.release = World.release /\ z.checks = y.checks /\ z.saved = End
      BY <2>1 DEF WorldType
    <2> HIDE DEF z
    <2>4. Sound(z, {}) /\ Balanced(z, {})
      BY <1>2, <2>3 DEF Sound, Balanced, Agree, Marked, Unborn, CanDecay, Debt, Own, Listed
    <2>5. \A t \in Times : Covers(y, t) => Covers(z, t)
      BY <2>3 DEF Covers
    <2>6. ASSUME ~dangling', NEW t \in Buckets(z) PROVE Covers(z, t)
      <3>1. t \in Times /\ t \in Buckets(World)
        BY <2>3 DEF Buckets
      <3>2. saved \in Times /\ now + delay <= Later(saved, now) /\ saved # Gone /\ ~dangling
        BY <1>1, <1>5, <2>6, Bounds
      <3>3. CASE Covers(World, t)
        BY <3>1, <3>3, <2>1, <2>5
      <3>4. CASE saved <= t
        <4>1. saved \in Nat /\ t \in Nat
          BY <3>1, <3>2, Bounds
        <4>2. now + delay <= Later(t, now)
          BY <3>2, <3>4, <4>1, <1>2 DEF Later
        <4> QED BY <4>2, <3>1, <2>1, <2>5
      <3> QED BY <3>1, <3>2, <3>3, <3>4, <1>2 DEF Covered
    <2> QED BY <2>2, <2>3, <2>4, <2>6, <1>3
  <1>6. CASE /\ saved \in Times
             /\ Become([AddCheck(World, IF saved < now THEN 0 ELSE saved - now) EXCEPT !.saved = End])
    <2> DEFINE delay == IF saved < now THEN 0 ELSE saved - now
    <2>1. delay \in Nat /\ now + delay <= Later(saved, now)
      BY <1>2, <1>6, Bounds DEF Later
    <2>2. Become([AddCheck(World, delay) EXCEPT !.saved = End])
      BY <1>6
    <2> HIDE DEF delay
    <2> QED BY <2>1, <2>2, <1>5, <1>6
  <1>7. CASE saved = Gone /\ \E d \in Times : Become([AddCheck(World, d) EXCEPT !.saved = End])
    <2>1. PICK d \in Times : Become([AddCheck(World, d) EXCEPT !.saved = End])
      BY <1>7
    <2>2. d \in Nat /\ dangling'
      BY <1>1, <1>7, Bounds
    <2> QED BY <2>1, <2>2, <1>5
  <1> QED BY <1>4, <1>6, <1>7 DEF EndCheck

-----------------------------------------------------------------------------
(* The invariant and what it implies.                                      *)

LEMMA NextKeeps ==
    ASSUME IInv, [Next]_vars PROVE IInv'
  <1>1. CASE Client
    <2>1. PICK i \in Items :
              \/ \E d \in Durations : \/ Place(i, d) \/ Ignite(i, d)
                                      \/ SetDuration(i, d) \/ ScriptStarts(i, d)
              \/ \E j \in Items, d \in Durations : Clone(i, j, d)
              \/ Extinguish(i)
              \/ ScriptStops(i)
              \/ Remove(i)
      BY <1>1 DEF Client
    <2> QED BY <2>1, PlaceKeeps, IgniteKeeps, SetDurationKeeps, ScriptStartsKeeps, CloneKeeps,
               ExtinguishKeeps, ScriptStopsKeeps, RemoveKeeps
  <1>2. CASE RunCheck
    BY <1>2, BeginCheckKeeps DEF RunCheck
  <1>3. CASE CheckStep
    BY <1>3, SparedKeeps, VanishesKeeps, BecomesBurningKeeps, BecomesInertKeeps, EndCheckKeeps
       DEF CheckStep
  <1>4. CASE Cleanup
    BY <1>4, CleanupKeeps
  <1>5. CASE Tick
    BY <1>5, TickKeeps
  <1>6. CASE UNCHANGED vars
    BY <1>6 DEF vars, IInv, TypeOK, World, Sound, Balanced, Agree, Marked, Unborn, CanDecay,
                Debt, Own, Listed, Covered, Covers, Buckets
  <1> QED BY <1>1, <1>2, <1>3, <1>4, <1>5, <1>6 DEF Next

(***************************************************************************)
(* Whatever players, scripts and checkDecay do to items, between two calls *)
(* the map, the attributes, the references and the pending checks agree as *)
(* IInv says.                                                              *)
(***************************************************************************)
THEOREM DecayInvariant == Spec => []IInv
  <1>1. Init => IInv
    BY InitGives
  <1>2. IInv /\ [Next]_vars => IInv'
    BY NextKeeps
  <1> QED BY <1>1, <1>2, PTL DEF Spec

(***************************************************************************)
(* Types: in particular no count of references or releases is negative.    *)
(***************************************************************************)
THEOREM DecayTypeCorrect == Spec => []TypeOK
  <1>1. IInv => TypeOK
    BY DEF IInv
  <1> QED BY <1>1, DecayInvariant, PTL

\* An item is in one bucket at most, so the buckets that list it are none or one.
LEMMA BucketsOf ==
    ASSUME IInv, NEW i \in Items
    PROVE  Cardinality({t \in Times : i \in map[t]}) = IF Listed(World, i) THEN 1 ELSE 0
  <1> DEFINE B == {t \in Times : i \in map[t]}
  <1>1. Agree(World, temp, i) /\ World.map = map
    BY IInvGives DEF Sound
  <1>2. CASE Listed(World, i)
    <2>1. PICK t \in Times : i \in map[t]
      BY <1>1, <1>2 DEF Listed
    <2>2. B = {t}
      BY <1>1, <2>1 DEF Agree
    <2> QED BY <1>2, <2>2, FS_Singleton
  <1>3. CASE ~Listed(World, i)
    <2>1. B = {}
      BY <1>1, <1>3 DEF Listed
    <2> QED BY <1>3, <2>1, FS_EmptySet
  <1> QED BY <1>2, <1>3

(***************************************************************************)
(* RefsBalance: no item is freed while decayMap or tempItems still points  *)
(* to it, and none is kept for ever.                                       *)
(***************************************************************************)
THEOREM DecayReferences == Spec => []RefsBalance
  <1>1. ASSUME IInv, NEW i \in Items
        PROVE  item[i].refs = (IF Placed(i) THEN 1 ELSE 0) + (IF i \in temp THEN 1 ELSE 0)
                              + Cardinality({t \in Times : i \in map[t]}) + release[i]
    <2>1. /\ Debt(World, i) = IF i \in temp THEN 1 ELSE 0
          /\ World.item = item /\ World.release = release
      BY <1>1, IInvGives DEF Balanced
    <2>2. item[i].refs \in Nat /\ release[i] \in Nat
      BY <1>1 DEF IInv, TypeOK, ItemRecord
    <2>3. Cardinality({t \in Times : i \in map[t]}) = IF Listed(World, i) THEN 1 ELSE 0
      BY <1>1, BucketsOf
    <2> QED BY <2>1, <2>2, <2>3 DEF Debt, Own, Placed
  <1>2. IInv => RefsBalance
    BY <1>1 DEF RefsBalance
  <1> QED BY <1>2, DecayInvariant, PTL

(***************************************************************************)
(* AttributesAgree: the map and the attributes say the same of an item.    *)
(***************************************************************************)
THEOREM DecayAttributes == Spec => []AttributesAgree
  <1>1. ASSUME IInv, NEW i \in Items
        PROVE  /\ \A t \in Times : i \in map[t] <=> item[i].stamp = t /\ i \notin temp
               /\ item[i].state = "true" => item[i].stamp # None \/ i \in temp \/ item[i].copy
               /\ item[i].stamp # None => item[i].state = "true"
    <2>1. Agree(World, temp, i) /\ Marked(World, temp, i) /\ World.item = item /\ World.map = map
      BY <1>1, IInvGives DEF Sound
    <2> QED BY <2>1 DEF Agree, Marked
  <1>2. IInv => AttributesAgree
    BY <1>1 DEF AttributesAgree
  <1> QED BY <1>2, DecayInvariant, PTL

(***************************************************************************)
(* CheckCoversFirst: what is listed is never left without a check in time, *)
(* but for the one that an erased bucket has misled.                       *)
(***************************************************************************)
THEOREM DecayChecks == Spec => []CheckCoversFirst
  <1>1. ASSUME IInv, pc = "idle", ~dangling, NEW t \in Buckets(World)
        PROVE  \E k \in DOMAIN checks : checks[k] <= Later(t, now) + MinTicks
    <2>1. saved = End /\ Covered(World) /\ World.saved = saved /\ World.checks = checks
      BY <1>1, IInvGives DEF IInv
    <2>2. Covers(World, t)
      BY <1>1, <2>1, Bounds DEF Covered
    <2> QED BY <2>1, <2>2 DEF Covers
  <1>2. IInv => CheckCoversFirst
    BY <1>1 DEF CheckCoversFirst
  <1> QED BY <1>2, DecayInvariant, PTL
=============================================================================
