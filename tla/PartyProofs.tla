---------------------------- MODULE PartyProofs ----------------------------
(***************************************************************************)
(* Theorems about parties, for any players and parties.  The operations of *)
(* the module Party are compositions of calls on the record of what a      *)
(* party touches, and so are their proofs: each call takes a record that   *)
(* is sound, but for the party it is about, to one that is sounder.        *)
(***************************************************************************)
EXTENDS Party, WellFoundedInduction, SequenceTheorems, TLAPS

USE PartyAssumption

NoRepeat(s) == \A i, j \in 1 .. Len(s) : s[i] = s[j] => i = j

-----------------------------------------------------------------------------
(* Sequences of members.                                                   *)

LEMMA Least ==
    ASSUME NEW T \in SUBSET Nat, T # {}
    PROVE  \E x \in T : \A y \in T : x <= y
  <1>1. PICK x \in T : \A y \in T : ~(<<y, x>> \in OpToRel(<, Nat))
    BY NatLessThanWellFounded, WFMin
  <1>2. x \in Nat /\ \A y \in T : y \in Nat
    OBVIOUS
  <1>3. \A y \in T : ~(y < x)
    BY <1>1, <1>2, Zenon DEF OpToRel
  <1> QED BY <1>2, <1>3

\* std::find and erase, in a list without duplicates.
LEMMA RemoveFirstGives ==
    ASSUME NEW S, NEW s \in Seq(S), NEW e, NoRepeat(s)
    PROVE  /\ RemoveFirst(s, e) \in Seq(S)
           /\ NoRepeat(RemoveFirst(s, e))
           /\ \A x : In(x, RemoveFirst(s, e)) <=> (x # e /\ In(x, s))
  <1>1. CASE ~In(e, s)
    BY <1>1 DEF RemoveFirst, In
  <1>2. CASE In(e, s)
    <2> DEFINE I == {i \in 1 .. Len(s) : s[i] = e}
               k == Min(I)
               z == SubSeq(s, 1, k - 1) \o SubSeq(s, k + 1, Len(s))
    <2>1. \E x \in I : \A y \in I : x <= y
      <3>1. I \in SUBSET Nat /\ I # {}
        BY <1>2 DEF In
      <3> QED BY <3>1, Least
    <2>2. k \in 1 .. Len(s) /\ s[k] = e
      BY <2>1 DEF Min
    <2>3. RemoveFirst(s, e) = z
      BY <1>2, <2>2 DEF RemoveFirst, RemoveAt, SelectInSeq, In
    <2> HIDE DEF k, I
    <2>4. /\ z \in Seq(S)
          /\ Len(z) = Len(s) - 1
          /\ \A i \in 1 .. Len(z) : z[i] = IF i < k THEN s[i] ELSE s[i + 1]
      <3> DEFINE a == SubSeq(s, 1, k - 1)
                 b == SubSeq(s, k + 1, Len(s))
      <3>1. /\ a \in Seq(S)
            /\ Len(a) = k - 1
            /\ \A i \in 1 .. k - 1 : a[i] = s[i]
        BY <2>2, SubSeqProperties
      <3>2. /\ b \in Seq(S)
            /\ Len(b) = Len(s) - k
            /\ \A i \in 1 .. Len(s) - k : b[i] = s[k + i]
        BY <2>2, SubSeqProperties
      <3> HIDE DEF a, b
      <3>3. /\ a \o b \in Seq(S)
            /\ Len(a \o b) = Len(a) + Len(b)
            /\ \A i \in 1 .. Len(a) + Len(b) :
                  (a \o b)[i] = IF i <= Len(a) THEN a[i] ELSE b[i - Len(a)]
        BY <3>1, <3>2, ConcatProperties
      <3>4. z = a \o b
        BY DEF a, b
      <3> HIDE DEF z
      <3>5. Len(z) = Len(s) - 1 /\ Len(s) \in Nat /\ Len(a) = k - 1
        <4>1. Len(s) \in Nat /\ k \in Int
          BY <2>2
        <4>2. Len(z) = Len(a) + Len(b) /\ Len(a) = k - 1 /\ Len(b) = Len(s) - k
          BY <3>1, <3>2, <3>3, <3>4
        <4> HIDE DEF a, b
        <4> QED BY <4>1, <4>2
      <3>6. ASSUME NEW i \in 1 .. Len(z)
            PROVE  z[i] = IF i < k THEN s[i] ELSE s[i + 1]
        <4>1. z[i] = IF i <= k - 1 THEN a[i] ELSE b[i - (k - 1)]
          BY <3>1, <3>2, <3>3, <3>4, <3>5, <2>2
        <4>2. CASE i < k
          BY <4>1, <4>2, <3>1, <3>5, <2>2
        <4>3. CASE i >= k
          <5>1. i - (k - 1) \in 1 .. Len(s) - k
            BY <4>3, <3>5, <2>2
          <5>2. b[i - (k - 1)] = s[k + (i - (k - 1))]
            BY <5>1, <3>2
          <5>3. k + (i - (k - 1)) = i + 1
            BY <3>5, <2>2
          <5> QED BY <4>1, <4>3, <5>2, <5>3, <2>2
        <4> QED BY <4>2, <4>3, <2>2
      <3> QED BY <3>3, <3>4, <3>5, <3>6
    <2> HIDE DEF z
    <2>5. NoRepeat(z)
      BY <2>2, <2>4 DEF NoRepeat
    <2>6. ASSUME NEW x PROVE In(x, z) <=> (x # e /\ In(x, s))
      <3>1. ASSUME NEW i \in 1 .. Len(z), z[i] = x PROVE x # e /\ In(x, s)
        BY <2>2, <2>4, <3>1 DEF NoRepeat, In
      <3>2. ASSUME NEW i \in 1 .. Len(s), s[i] = x, x # e PROVE In(x, z)
        <4>1. CASE i < k
          BY <4>1, <2>2, <2>4, <3>2 DEF In
        <4>2. CASE i > k
          <5>1. i - 1 \in 1 .. Len(z) /\ z[i - 1] = x
            BY <4>2, <2>2, <2>4, <3>2
          <5> QED BY <5>1 DEF In
        <4> QED BY <4>1, <4>2, <2>2, <3>2
      <3> QED BY <3>1, <3>2 DEF In
    <2> QED BY <2>3, <2>4, <2>5, <2>6
  <1> QED BY <1>1, <1>2

LEMMA AppendGives ==
    ASSUME NEW S, NEW s \in Seq(S), NEW e \in S, NoRepeat(s), ~In(e, s)
    PROVE  /\ Append(s, e) \in Seq(S)
           /\ Append(s, e) # <<>>
           /\ NoRepeat(Append(s, e))
           /\ \A x : In(x, Append(s, e)) <=> (x = e \/ In(x, s))
  <1> DEFINE a == Append(s, e)
  <1>1. /\ a \in Seq(S)
        /\ Len(a) = Len(s) + 1
        /\ Len(s) \in Nat
        /\ a[Len(s) + 1] = e
        /\ \A i \in 1 .. Len(s) : a[i] = s[i]
    OBVIOUS
  <1> HIDE DEF a
  <1>2. NoRepeat(a)
    BY <1>1 DEF NoRepeat, In
  <1>3. \A x : In(x, a) <=> (x = e \/ In(x, s))
    BY <1>1 DEF In
  <1>4. a # <<>>
    BY <1>1
  <1> QED BY <1>1, <1>2, <1>3, <1>4 DEF a

LEMMA ConsGives ==
    ASSUME NEW S, NEW s \in Seq(S), NEW e \in S, NoRepeat(s), ~In(e, s)
    PROVE  /\ <<e>> \o s \in Seq(S)
           /\ <<e>> \o s # <<>>
           /\ NoRepeat(<<e>> \o s)
           /\ \A x : In(x, <<e>> \o s) <=> (x = e \/ In(x, s))
  <1> DEFINE a == <<e>> \o s
  <1>1. /\ a \in Seq(S)
        /\ Len(a) = Len(s) + 1
        /\ Len(s) \in Nat
        /\ a[1] = e
        /\ \A i \in 1 .. Len(s) : a[i + 1] = s[i]
    OBVIOUS
  <1> HIDE DEF a
  <1>2. \A i \in 1 .. Len(a) : i = 1 \/ (i - 1 \in 1 .. Len(s) /\ a[i] = s[i - 1])
    BY <1>1
  <1>3. NoRepeat(a)
    <2> SUFFICES ASSUME NEW i \in 1 .. Len(a), NEW j \in 1 .. Len(a), a[i] = a[j]
                 PROVE  i = j
      BY DEF NoRepeat
    <2>1. CASE i = 1
      BY <1>1, <1>2, <2>1 DEF In
    <2>2. CASE j = 1
      BY <1>1, <1>2, <2>2 DEF In
    <2>3. CASE i # 1 /\ j # 1
      <3>1. i - 1 \in 1 .. Len(s) /\ j - 1 \in 1 .. Len(s) /\ s[i - 1] = s[j - 1]
        BY <1>2, <2>3
      <3>2. i - 1 = j - 1
        BY <3>1 DEF NoRepeat
      <3> QED BY <3>2
    <2> QED BY <2>1, <2>2, <2>3
  <1>4. ASSUME NEW x PROVE In(x, a) <=> (x = e \/ In(x, s))
    <2>1. In(x, a) => (x = e \/ In(x, s))
      <3>1. SUFFICES ASSUME NEW i \in 1 .. Len(a), a[i] = x, x # e PROVE In(x, s)
        BY DEF In
      <3>2. i - 1 \in 1 .. Len(s) /\ s[i - 1] = x
        BY <1>1, <1>2, <3>1
      <3> QED BY <3>2 DEF In
    <2>2. x = e => In(x, a)
      BY <1>1 DEF In
    <2>3. ASSUME NEW i \in 1 .. Len(s), s[i] = x PROVE In(x, a)
      <3>1. i + 1 \in 1 .. Len(a) /\ a[i + 1] = x
        BY <1>1, <2>3
      <3> QED BY <3>1 DEF In
    <2> QED BY <2>1, <2>2, <2>3 DEF In
  <1>5. a # <<>>
    BY <1>1
  <1> QED BY <1>1, <1>3, <1>4, <1>5 DEF a

LEMMA EmptyGives ==
    ASSUME NEW S, NEW s \in Seq(S)
    PROVE  /\ s = <<>> <=> \A x : ~In(x, s)
           /\ s # <<>> => In(Head(s), s)
           /\ \A x : In(x, s) => x \in S
           /\ \A x, y : Len(s) = 1 /\ In(x, s) /\ In(y, s) => x = y
           /\ NoRepeat(<<>>) /\ <<>> \in Seq(S)
  BY DEF In, NoRepeat

-----------------------------------------------------------------------------
(* What holds of the record, party by party.                               *)

SharedType == [active : BOOLEAN, enabled : BOOLEAN, fit : BOOLEAN, ticks : [Players -> Ages]]

WorldType ==
    [leader : [Parties -> Players \cup {NoPlayer}],
     members : [Parties -> Seq(Players)],
     invites : [Parties -> SUBSET Players],
     party : [Players -> Parties \cup {NoParty}],
     invitations : [Players -> SUBSET Parties],
     shared : [Parties -> SharedType]]

\* The party and its players know each other, once.
Linked(w, p) ==
    /\ \A q \in Players : w.party[q] = p <=> Within(w, p, q)
    /\ ~In(w.leader[p], w.members[p])
    /\ NoRepeat(w.members[p])

\* A party that does not exist leaves nothing behind, and one that does is not empty.
Alive(w, p) ==
    IF w.leader[p] = NoPlayer
    THEN w.members[p] = <<>> /\ w.invites[p] = {} /\ w.shared[p] = NotShared
    ELSE ~IsEmpty(w, p)

Invited(w) == \A p \in Parties, q \in Players : q \in w.invites[p] <=> p \in w.invitations[q]

\* Nobody in a formed party has an invitation.
Formed(w, p) ==
    w.members[p] # <<>> => \A q \in Players : Within(w, p, q) => w.invitations[q] = {}

\* Only the party's own have an entry in ticksMap.
OwnTicks(w, p) == \A q \in Players : w.shared[p].ticks[q] # "none" => Within(w, p, q)

\* The answer the party keeps, on sharing experience, is up to date.
UpToDate(w, p) ==
    w.shared[p].active =>
        /\ CanEnable(w, p) => w.shared[p].enabled
        /\ w.shared[p].enabled =>
              /\ w.members[p] # <<>> /\ w.shared[p].fit
              /\ \A q \in Players : Within(w, p, q) => w.shared[p].ticks[q] # "none"

\* All of it, but that the answers of the parties of late may be out of date.
Sound(w, late) ==
    /\ w \in WorldType
    /\ Invited(w)
    /\ \A p \in Parties : /\ Linked(w, p) /\ Alive(w, p) /\ Formed(w, p) /\ OwnTicks(w, p)
                          /\ p \in late \/ UpToDate(w, p)

\* Whoever is in a party or invited to one is one of S.
Present(w, S) ==
    \A q \in Players : w.party[q] # NoParty \/ w.invitations[q] # {} => q \in S

IInv == TypeOK /\ Sound(World, {}) /\ Present(World, online)

-----------------------------------------------------------------------------
(* The calls.                                                              *)

\* A call, from w to z, that puts nobody in a party and invites nobody.
Shrinks(w, z) ==
    \A q \in Players : /\ z.party[q] \in {w.party[q], NoParty}
                       /\ z.invitations[q] \subseteq w.invitations[q]

Same(w, z, p) == /\ z.leader[p] = w.leader[p]
                 /\ z.members[p] = w.members[p]
                 /\ z.shared[p] = w.shared[p]

LEMMA SameKeeps ==
    ASSUME NEW w, NEW z, NEW p \in Parties, Same(w, z, p)
    PROVE  /\ \A q : Within(z, p, q) <=> Within(w, p, q)
           /\ UpToDate(w, p) => UpToDate(z, p)
           /\ OwnTicks(w, p) => OwnTicks(z, p)
           /\ Formed(w, p) /\ Shrinks(w, z) => Formed(z, p)
  <1>1. \A q : Within(z, p, q) <=> Within(w, p, q)
    BY DEF Same, Within
  <1>2. CanEnable(z, p) <=> CanEnable(w, p)
    BY <1>1 DEF Same, CanEnable
  <1>3. UpToDate(w, p) => UpToDate(z, p)
    BY <1>1, <1>2 DEF Same, UpToDate
  <1>4. OwnTicks(w, p) => OwnTicks(z, p)
    BY <1>1 DEF Same, OwnTicks
  <1>5. ASSUME Formed(w, p), Shrinks(w, z) PROVE Formed(z, p)
    <2>1. SUFFICES ASSUME z.members[p] # <<>>, NEW q \in Players, Within(z, p, q)
                   PROVE  z.invitations[q] = {}
      BY DEF Formed
    <2>2. w.invitations[q] = {}
      BY <1>1, <1>5, <2>1 DEF Formed, Same
    <2>3. z.invitations[q] \subseteq w.invitations[q]
      BY <1>5 DEF Shrinks
    <2> QED BY <2>2, <2>3
  <1> QED BY <1>1, <1>3, <1>4, <1>5

Dead(z, p) == /\ z.leader[p] = NoPlayer
              /\ z.members[p] = <<>>
              /\ z.invites[p] = {}
              /\ z.shared[p] = NotShared

LEMMA DeadGives ==
    ASSUME NEW z, NEW p \in Parties, Dead(z, p)
    PROVE  /\ \A q \in Players : ~Within(z, p, q)
           /\ ~In(z.leader[p], z.members[p]) /\ NoRepeat(z.members[p])
           /\ Alive(z, p) /\ Formed(z, p) /\ OwnTicks(z, p) /\ UpToDate(z, p)
  <1>1. /\ ~In(z.leader[p], z.members[p]) /\ NoRepeat(z.members[p])
        /\ \A q \in Players : ~Within(z, p, q)
    <2>1. \A x : ~In(x, <<>>)
      BY DEF In
    <2> QED BY <2>1 DEF Dead, Within, NoRepeat
  <1>2. Alive(z, p) /\ Formed(z, p)
    BY DEF Dead, Alive, Formed
  <1>3. OwnTicks(z, p) /\ UpToDate(z, p)
    BY DEF Dead, OwnTicks, UpToDate, NotShared
  <1> QED BY <1>1, <1>2, <1>3

\* What is written of one party is what is read of it, and no other changes.
SetShared(w, p, s) == [w EXCEPT !.shared = [w.shared EXCEPT ![p] = s]]

LEMMA SharedGives ==
    ASSUME NEW w \in WorldType, NEW p \in Parties, NEW s \in SharedType,
           NEW e, e = SetShared(w, p, s)
    PROVE  /\ e \in WorldType
           /\ e.leader = w.leader /\ e.members = w.members /\ e.invites = w.invites
           /\ e.party = w.party /\ e.invitations = w.invitations
           /\ \A r \in Parties \ {p} : e.shared[r] = w.shared[r]
           /\ e.shared[p] = s
  <1> DEFINE f == [w.shared EXCEPT ![p] = s]
  <1>1. /\ f \in [Parties -> SharedType]
        /\ \A r \in Parties \ {p} : f[r] = w.shared[r]
        /\ f[p] = s
    BY DEF WorldType
  <1>2. e = [w EXCEPT !.shared = f]
    BY DEF SetShared
  <1> HIDE DEF f
  <1> QED BY <1>1, <1>2 DEF WorldType

LEMMA UpdateGives ==
    ASSUME NEW w \in WorldType, NEW p \in Parties
    PROVE  LET z == Update(w, p) IN
           /\ z \in WorldType
           /\ z.leader = w.leader /\ z.members = w.members /\ z.invites = w.invites
           /\ z.party = w.party /\ z.invitations = w.invitations
           /\ \A r \in Parties \ {p} : z.shared[r] = w.shared[r]
           /\ z.shared[p].ticks = w.shared[p].ticks
           /\ UpToDate(z, p)
  <1> DEFINE z == Update(w, p)
             b == CanEnable(w, p)
  <1>0. b \in BOOLEAN
    BY DEF CanEnable
  <1>1. CASE w.shared[p].active
    <2> DEFINE e == [w EXCEPT !.shared[p].enabled = b]
    <2>1. z = e
      BY <1>1 DEF Update
    <2> HIDE DEF b
    <2>2. /\ e \in WorldType
          /\ e.leader = w.leader /\ e.members = w.members /\ e.invites = w.invites
          /\ e.party = w.party /\ e.invitations = w.invitations
          /\ \A r \in Parties \ {p} : e.shared[r] = w.shared[r]
          /\ e.shared[p].ticks = w.shared[p].ticks
          /\ e.shared[p].fit = w.shared[p].fit
          /\ e.shared[p].enabled = b
      <3> DEFINE s == [w.shared[p] EXCEPT !.enabled = b]
      <3>1. /\ s \in SharedType
            /\ s.ticks = w.shared[p].ticks /\ s.fit = w.shared[p].fit /\ s.enabled = b
        <4>1. w.shared[p] \in SharedType
          BY DEF WorldType
        <4> QED BY <4>1, <1>0 DEF SharedType
      <3>2. e = SetShared(w, p, s)
        BY DEF WorldType, SetShared
      <3> HIDE DEF s, e
      <3> QED BY <3>1, <3>2, SharedGives
    <2> HIDE DEF e
    <2>3. \A q : Within(e, p, q) <=> Within(w, p, q)
      BY <2>2 DEF Within
    <2>4. b <=> CanEnable(e, p)
      BY <2>2, <2>3 DEF b, CanEnable
    <2>5. UpToDate(e, p)
      BY <2>2, <2>4 DEF UpToDate, CanEnable
    <2> QED BY <2>1, <2>2, <2>5
  <1>2. CASE ~w.shared[p].active
    BY <1>2 DEF Update, UpToDate
  <1> QED BY <1>1, <1>2

LEMMA ClearPointsGives ==
    ASSUME NEW w \in WorldType, NEW p \in Parties, NEW q \in Players
    PROVE  LET z == ClearPoints(w, p, q) IN
           /\ z \in WorldType
           /\ z.leader = w.leader /\ z.members = w.members /\ z.invites = w.invites
           /\ z.party = w.party /\ z.invitations = w.invitations
           /\ \A r \in Parties \ {p} : z.shared[r] = w.shared[r]
           /\ \A x \in Players : z.shared[p].ticks[x] = IF x = q THEN "none" ELSE w.shared[p].ticks[x]
           /\ UpToDate(w, p) => UpToDate(z, p)
  <1>1. CASE w.shared[p].ticks[q] = "none"
    BY <1>1 DEF ClearPoints
  <1>2. CASE w.shared[p].ticks[q] # "none"
    <2> DEFINE e == [w EXCEPT !.shared[p].ticks[q] = "none"]
    <2>1. ClearPoints(w, p, q) = Update(e, p)
      BY <1>2 DEF ClearPoints
    <2>2. /\ e \in WorldType
          /\ e.leader = w.leader /\ e.members = w.members /\ e.invites = w.invites
          /\ e.party = w.party /\ e.invitations = w.invitations
          /\ \A r \in Parties \ {p} : e.shared[r] = w.shared[r]
          /\ \A x \in Players : e.shared[p].ticks[x] = IF x = q THEN "none" ELSE w.shared[p].ticks[x]
      <3> DEFINE t == [w.shared[p].ticks EXCEPT ![q] = "none"]
                 s == [w.shared[p] EXCEPT !.ticks = t]
      <3>1. /\ t \in [Players -> Ages]
            /\ \A x \in Players : t[x] = IF x = q THEN "none" ELSE w.shared[p].ticks[x]
        BY DEF WorldType, SharedType, Ages
      <3> HIDE DEF t
      <3>2. s \in SharedType /\ s.ticks = t
        <4>1. w.shared[p] \in SharedType
          BY DEF WorldType
        <4> QED BY <3>1, <4>1 DEF SharedType
      <3>3. e = SetShared(w, p, s)
        BY DEF WorldType, SharedType, SetShared, t
      <3> HIDE DEF s, e
      <3> QED BY <3>1, <3>2, <3>3, SharedGives
    <2> HIDE DEF e
    <2> QED BY <2>1, <2>2, UpdateGives, SMTT(30)
  <1> QED BY <1>1, <1>2

\* disband, of a party that may have lost the one who leaves it already.
LEMMA DisbandGives ==
    ASSUME NEW w, NEW p \in Parties, w \in WorldType, Invited(w),
           \A x \in Players : w.party[x] = p => Within(w, p, x),
           \A x \in Players : Within(w, p, x) => w.party[x] \in {p, NoParty}
    PROVE  LET z == Disband(w, p) IN
           /\ z \in WorldType
           /\ Invited(z)
           /\ Dead(z, p)
           /\ \A r \in Parties \ {p} : Same(w, z, r) /\ z.invites[r] = w.invites[r]
           /\ \A q \in Players : z.party[q] = IF w.party[q] = p THEN NoParty ELSE w.party[q]
           /\ Shrinks(w, z)
  <1> DEFINE z == Disband(w, p)
             l == [w.leader EXCEPT ![p] = NoPlayer]
             m == [w.members EXCEPT ![p] = <<>>]
             i == [w.invites EXCEPT ![p] = {}]
             s == [w.shared EXCEPT ![p] = NotShared]
             y == [q \in Players |-> IF Within(w, p, q) THEN NoParty ELSE w.party[q]]
             v == [q \in Players |-> IF q \in w.invites[p] THEN w.invitations[q] \ {p}
                                     ELSE w.invitations[q]]
  <1>1. z = [w EXCEPT !.leader = l, !.members = m, !.invites = i, !.shared = s,
                      !.party = y, !.invitations = v]
    BY DEF Disband, WorldType
  <1>2. /\ l \in [Parties -> Players \cup {NoPlayer}]
        /\ l[p] = NoPlayer /\ \A r \in Parties \ {p} : l[r] = w.leader[r]
    BY DEF WorldType
  <1>3. /\ m \in [Parties -> Seq(Players)]
        /\ m[p] = <<>> /\ \A r \in Parties \ {p} : m[r] = w.members[r]
    BY EmptyGives DEF WorldType
  <1>4. /\ i \in [Parties -> SUBSET Players]
        /\ i[p] = {} /\ \A r \in Parties \ {p} : i[r] = w.invites[r]
    BY DEF WorldType
  <1>5. /\ s \in [Parties -> SharedType]
        /\ s[p] = NotShared /\ \A r \in Parties \ {p} : s[r] = w.shared[r]
    <2>1. NotShared \in SharedType
      BY DEF NotShared, SharedType, Ages
    <2> QED BY <2>1 DEF WorldType
  <1>6. /\ y \in [Players -> Parties \cup {NoParty}]
        /\ \A q \in Players : y[q] = IF w.party[q] = p THEN NoParty ELSE w.party[q]
    BY DEF WorldType
  <1>7. /\ v \in [Players -> SUBSET Parties]
        /\ \A q \in Players : v[q] = w.invitations[q] \ {p}
    BY DEF WorldType, Invited
  <1> HIDE DEF l, m, i, s, y, v
  <1>8. /\ z \in WorldType
        /\ z.leader = l /\ z.members = m /\ z.invites = i /\ z.shared = s
        /\ z.party = y /\ z.invitations = v
    BY <1>1, <1>2, <1>3, <1>4, <1>5, <1>6, <1>7 DEF WorldType
  <1> HIDE DEF z
  <1>9. Invited(z)
    BY <1>8, <1>4, <1>7 DEF Invited
  <1>10. Dead(z, p)
    BY <1>8, <1>2, <1>3, <1>4, <1>5 DEF Dead
  <1>11. \A r \in Parties \ {p} : Same(w, z, r) /\ z.invites[r] = w.invites[r]
    BY <1>8, <1>2, <1>3, <1>4, <1>5 DEF Same
  <1>12. \A q \in Players : z.party[q] = IF w.party[q] = p THEN NoParty ELSE w.party[q]
    BY <1>8, <1>6
  <1>13. Shrinks(w, z)
    BY <1>8, <1>6, <1>7, <1>12 DEF Shrinks
  <1> QED BY <1>8, <1>9, <1>10, <1>11, <1>12, <1>13 DEF z

\* clearPartyInvitations: every party that invited q forgets it, and is gone if
\* it had nobody else.
LEMMA ClearInvitationsGives ==
    ASSUME NEW w, NEW q \in Players, w \in WorldType, Invited(w),
           \A p \in Parties : Linked(w, p) /\ Alive(w, p)
    PROVE  LET z == ClearInvitations(w, q) IN
           /\ z \in WorldType
           /\ Invited(z)
           /\ \A p \in Parties : Linked(z, p) /\ Alive(z, p)
           /\ \A p \in Parties :
                Dead(z, p) \/ (Same(w, z, p) /\ \A x \in Players : z.party[x] = p <=> w.party[x] = p)
           /\ \A p \in Parties : z.invites[p] = w.invites[p] \ {q}
           /\ \A p \in Parties : w.members[p] # <<>> \/ w.invites[p] \ {q} # {} =>
                 Same(w, z, p) /\ \A x \in Players : z.party[x] = p <=> w.party[x] = p
           /\ Shrinks(w, z)
           /\ z.invitations[q] = {}
  <1> DEFINE z == ClearInvitations(w, q)
             inviting == {p \in w.invitations[q] : q \in w.invites[p]}
             left == [p \in Parties |-> IF p \in inviting THEN w.invites[p] \ {q} ELSE w.invites[p]]
             gone == {p \in inviting : w.members[p] = <<>> /\ left[p] = {}}
             l == [p \in Parties |-> IF p \in gone THEN NoPlayer ELSE w.leader[p]]
             y == [x \in Players |-> IF \E p \in gone : w.leader[p] = x THEN NoParty ELSE w.party[x]]
             s == [p \in Parties |-> IF p \in gone THEN NotShared ELSE w.shared[p]]
             v == [w.invitations EXCEPT ![q] = {}]
  <1>1. z = [w EXCEPT !.invites = left, !.leader = l, !.party = y, !.shared = s, !.invitations = v]
    BY DEF ClearInvitations, WorldType
  <1>2. /\ left \in [Parties -> SUBSET Players]
        /\ \A p \in Parties : left[p] = w.invites[p] \ {q}
    BY DEF WorldType, Invited
  <1>3. /\ gone \subseteq Parties
        /\ \A p \in Parties : p \in gone <=> /\ q \in w.invites[p]
                                             /\ w.members[p] = <<>>
                                             /\ w.invites[p] \ {q} = {}
    BY <1>2 DEF WorldType, Invited
  <1> HIDE DEF left, gone
  <1>4. /\ l \in [Parties -> Players \cup {NoPlayer}]
        /\ \A p \in Parties : l[p] = IF p \in gone THEN NoPlayer ELSE w.leader[p]
    BY DEF WorldType
  <1>5. ASSUME NEW p \in Parties, NEW x \in Players
        PROVE  p \in gone => (w.leader[p] = x <=> w.party[x] = p)
    <2>1. p \in gone => \A a : ~In(a, w.members[p])
      BY <1>3, EmptyGives DEF WorldType
    <2> QED BY <2>1 DEF Linked, Within
  <1>6. /\ y \in [Players -> Parties \cup {NoParty}]
        /\ \A x \in Players : y[x] = IF w.party[x] \in gone THEN NoParty ELSE w.party[x]
    BY <1>3, <1>5 DEF WorldType
  <1>7. /\ s \in [Parties -> SharedType]
        /\ \A p \in Parties : s[p] = IF p \in gone THEN NotShared ELSE w.shared[p]
    <2>1. NotShared \in SharedType
      BY DEF NotShared, SharedType, Ages
    <2> QED BY <2>1 DEF WorldType
  <1>8. /\ v \in [Players -> SUBSET Parties]
        /\ \A x \in Players : v[x] = IF x = q THEN {} ELSE w.invitations[x]
    BY DEF WorldType
  <1> HIDE DEF l, y, s, v
  <1>9. /\ z \in WorldType
        /\ z.leader = l /\ z.members = w.members /\ z.invites = left /\ z.shared = s
        /\ z.party = y /\ z.invitations = v
    BY <1>1, <1>2, <1>4, <1>6, <1>7, <1>8 DEF WorldType
  <1> HIDE DEF z
  <1>10. Invited(z)
    BY <1>2, <1>8, <1>9 DEF Invited
  <1>11. \A p \in gone : Dead(z, p)
    BY <1>2, <1>3, <1>4, <1>7, <1>9 DEF Dead
  <1>12. ASSUME NEW p \in Parties \ gone
         PROVE  Same(w, z, p) /\ \A x \in Players : z.party[x] = p <=> w.party[x] = p
    BY <1>4, <1>6, <1>7, <1>9 DEF Same
  <1>13. ASSUME NEW p \in Parties PROVE Linked(z, p) /\ Alive(z, p)
    <2>1. CASE p \in gone
      <3>1. \A x \in Players : z.party[x] # p
        BY <2>1, <1>6, <1>9
      <3> QED BY <2>1, <3>1, <1>11, DeadGives DEF Linked
    <2>2. CASE p \notin gone
      <3>1. Linked(z, p)
        BY <2>2, <1>12, SameKeeps DEF Linked, Same
      <3>2. Alive(z, p)
        BY <2>2, <1>2, <1>3, <1>9, <1>12 DEF Alive, Same, IsEmpty
      <3> QED BY <3>1, <3>2
    <2> QED BY <2>1, <2>2
  <1>14. Shrinks(w, z)
    BY <1>6, <1>8, <1>9 DEF Shrinks
  <1>15. \A p \in Parties : w.members[p] # <<>> \/ w.invites[p] \ {q} # {} => p \notin gone
    BY <1>3
  <1>16. z.invitations[q] = {}
    BY <1>8, <1>9
  <1>17. \A p \in Parties : z.invites[p] = w.invites[p] \ {q}
    BY <1>2, <1>9
  <1> QED BY <1>9, <1>10, <1>11, <1>12, <1>13, <1>14, <1>15, <1>16, <1>17 DEF z

LEMMA ClearKeeps ==
    ASSUME NEW w, NEW late, NEW q \in Players, Sound(w, late)
    PROVE  Sound(ClearInvitations(w, q), late)
  <1> DEFINE z == ClearInvitations(w, q)
  <1>1. /\ w \in WorldType /\ Invited(w)
        /\ \A p \in Parties : Linked(w, p) /\ Alive(w, p)
    BY DEF Sound
  <1>2. /\ z \in WorldType
        /\ Invited(z)
        /\ \A p \in Parties : Linked(z, p) /\ Alive(z, p)
        /\ \A p \in Parties : Dead(z, p) \/ Same(w, z, p)
        /\ Shrinks(w, z)
    BY <1>1, ClearInvitationsGives
  <1> HIDE DEF z
  <1>3. ASSUME NEW p \in Parties
        PROVE  Formed(z, p) /\ OwnTicks(z, p) /\ (p \in late \/ UpToDate(z, p))
    <2>1. CASE Dead(z, p)
      BY <2>1, DeadGives
    <2>2. CASE Same(w, z, p)
      BY <2>2, <1>2, SameKeeps DEF Sound
    <2> QED BY <2>1, <2>2, <1>2
  <1> QED BY <1>2, <1>3 DEF Sound, z

\* The other parties are sound; of this one, only the one who leaves is not linked.
LEMMA DisbandKeeps ==
    ASSUME NEW w, NEW p \in Parties, w \in WorldType, Invited(w),
           \A r \in Parties \ {p} :
              Linked(w, r) /\ Alive(w, r) /\ Formed(w, r) /\ OwnTicks(w, r) /\ UpToDate(w, r),
           \A x \in Players : w.party[x] = p => Within(w, p, x),
           \A x \in Players : Within(w, p, x) => w.party[x] \in {p, NoParty}
    PROVE  Sound(Disband(w, p), {}) /\ Shrinks(w, Disband(w, p))
  <1> DEFINE z == Disband(w, p)
  <1>1. /\ z \in WorldType
        /\ Invited(z)
        /\ Dead(z, p)
        /\ \A r \in Parties \ {p} : Same(w, z, r) /\ z.invites[r] = w.invites[r]
        /\ \A q \in Players : z.party[q] = IF w.party[q] = p THEN NoParty ELSE w.party[q]
        /\ Shrinks(w, z)
    BY DisbandGives
  <1> HIDE DEF z
  <1>2. ASSUME NEW r \in Parties
        PROVE  Linked(z, r) /\ Alive(z, r) /\ Formed(z, r) /\ OwnTicks(z, r) /\ UpToDate(z, r)
    <2>1. CASE r = p
      <3>1. \A x \in Players : z.party[x] # p
        BY <1>1
      <3> QED BY <2>1, <3>1, <1>1, DeadGives DEF Linked
    <2>2. CASE r # p
      <3>1. \A x \in Players : z.party[x] = r <=> w.party[x] = r
        BY <2>2, <1>1
      <3>2. Linked(z, r)
        BY <2>2, <3>1, <1>1, SameKeeps DEF Linked, Same
      <3>3. Alive(z, r)
        BY <2>2, <1>1 DEF Alive, Same, IsEmpty
      <3> QED BY <2>2, <3>2, <3>3, <1>1, SameKeeps
    <2> QED BY <2>1, <2>2
  <1> QED BY <1>1, <1>2 DEF Sound, z

LEMMA DisbandIfEmptyKeeps ==
    ASSUME NEW w, NEW p \in Parties, w \in WorldType, Invited(w), w.leader[p] # NoPlayer,
           \A r \in Parties : /\ Linked(w, r) /\ Formed(w, r) /\ OwnTicks(w, r) /\ UpToDate(w, r)
                              /\ r # p => Alive(w, r)
    PROVE  Sound(DisbandIfEmpty(w, p), {}) /\ Shrinks(w, DisbandIfEmpty(w, p))
  <1>1. CASE IsEmpty(w, p)
    <2>1. DisbandIfEmpty(w, p) = Disband(w, p)
      BY <1>1 DEF DisbandIfEmpty
    <2>2. /\ \A x \in Players : w.party[x] = p => Within(w, p, x)
          /\ \A x \in Players : Within(w, p, x) => w.party[x] \in {p, NoParty}
      BY DEF Linked
    <2> QED BY <2>1, <2>2, DisbandKeeps
  <1>2. CASE ~IsEmpty(w, p)
    <2>1. DisbandIfEmpty(w, p) = w
      BY <1>2 DEF DisbandIfEmpty
    <2>2. Alive(w, p)
      BY <1>2 DEF Alive
    <2>3. Shrinks(w, w)
      BY DEF Shrinks
    <2> QED BY <2>1, <2>2, <2>3 DEF Sound
  <1> QED BY <1>1, <1>2

LEMMA RemoveInviteKeeps ==
    ASSUME NEW w, NEW p \in Parties, NEW q \in Players, Sound(w, {}), w.leader[p] # NoPlayer
    PROVE  Sound(RemoveInvite(w, p, q), {}) /\ Shrinks(w, RemoveInvite(w, p, q))
  <1>1. CASE q \notin w.invites[p]
    <2>1. RemoveInvite(w, p, q) = w
      BY <1>1 DEF RemoveInvite
    <2>2. Shrinks(w, w)
      BY DEF Shrinks
    <2> QED BY <2>1, <2>2
  <1>2. CASE q \in w.invites[p]
    <2> DEFINE e == [w EXCEPT !.invites[p] = @ \ {q}, !.invitations[q] = @ \ {p}]
               z == DisbandIfEmpty(e, p)
    <2>0. RemoveInvite(w, p, q) = z
      BY <1>2 DEF RemoveInvite
    <2>1. /\ w \in WorldType /\ Invited(w)
          /\ \A r \in Parties : /\ Linked(w, r) /\ Alive(w, r) /\ Formed(w, r)
                                /\ OwnTicks(w, r) /\ UpToDate(w, r)
      BY DEF Sound
    <2>2. /\ e \in WorldType
          /\ e.leader = w.leader /\ e.members = w.members /\ e.shared = w.shared
          /\ e.party = w.party
          /\ \A r \in Parties : e.invites[r] = IF r = p THEN w.invites[r] \ {q} ELSE w.invites[r]
          /\ \A x \in Players : e.invitations[x] = IF x = q THEN w.invitations[x] \ {p}
                                                   ELSE w.invitations[x]
      <3> DEFINE i == [w.invites EXCEPT ![p] = w.invites[p] \ {q}]
                 v == [w.invitations EXCEPT ![q] = w.invitations[q] \ {p}]
      <3>1. e = [w EXCEPT !.invites = i, !.invitations = v]
        BY DEF WorldType
      <3>2. i \in [Parties -> SUBSET Players] /\ v \in [Players -> SUBSET Parties]
        BY <2>1 DEF WorldType
      <3>3. /\ \A r \in Parties : i[r] = IF r = p THEN w.invites[r] \ {q} ELSE w.invites[r]
            /\ \A x \in Players : v[x] = IF x = q THEN w.invitations[x] \ {p}
                                         ELSE w.invitations[x]
        BY <2>1 DEF WorldType
      <3> HIDE DEF e, i, v
      <3> QED BY <3>1, <3>2, <3>3, <2>1 DEF WorldType
    <2> HIDE DEF e
    <2>3. Invited(e)
      <3> SUFFICES ASSUME NEW r \in Parties, NEW x \in Players
                   PROVE  x \in e.invites[r] <=> r \in e.invitations[x]
        BY DEF Invited
      <3>1. x \in w.invites[r] <=> r \in w.invitations[x]
        BY <2>1 DEF Invited
      <3>2. x \in e.invites[r] <=> x \in w.invites[r] /\ ~(r = p /\ x = q)
        BY <2>2
      <3>3. r \in e.invitations[x] <=> r \in w.invitations[x] /\ ~(r = p /\ x = q)
        BY <2>2
      <3> QED BY <3>1, <3>2, <3>3
    <2>4. \A r \in Parties : Same(w, e, r)
      BY <2>2 DEF Same
    <2>5. Shrinks(w, e)
      BY <2>2 DEF Shrinks
    <2>6. ASSUME NEW r \in Parties
          PROVE  /\ Linked(e, r) /\ Formed(e, r) /\ OwnTicks(e, r) /\ UpToDate(e, r)
                 /\ r # p => Alive(e, r)
      <3>1. Linked(e, r)
        BY <2>1, <2>2 DEF Linked, Within
      <3>2. r # p => Alive(e, r)
        BY <2>1, <2>2 DEF Alive, IsEmpty
      <3>3. Formed(e, r) /\ OwnTicks(e, r) /\ UpToDate(e, r)
        BY <2>1, <2>4, <2>5, SameKeeps
      <3> QED BY <3>1, <3>2, <3>3
    <2>7. e.leader[p] # NoPlayer
      BY <2>2
    <2>8. Sound(z, {}) /\ Shrinks(e, z)
      BY <2>2, <2>3, <2>6, <2>7, DisbandIfEmptyKeeps
    <2>9. Shrinks(w, z)
      BY <2>5, <2>8 DEF Shrinks
    <2> QED BY <2>0, <2>8, <2>9
  <1> QED BY <1>1, <1>2

LEMMA PassLeadershipKeeps ==
    ASSUME NEW w, NEW p \in Parties, NEW q \in Players, Sound(w, {p}),
           w.party[q] = p, w.leader[p] # q
    PROVE  LET z == PassLeadership(w, p, q) IN
           /\ Sound(z, {})
           /\ z.leader[p] = q
           /\ z.party = w.party /\ z.invitations = w.invitations
  <1> DEFINE o == w.leader[p]
             n == RemoveFirst(w.members[p], q)
             l == [w.leader EXCEPT ![p] = q]
             m == [w.members EXCEPT ![p] = <<o>> \o n]
             e == [w EXCEPT !.members = m, !.leader = l]
             z == Update(e, p)
  <1>1. PassLeadership(w, p, q) = z
    BY DEF PassLeadership, Sound, WorldType
  <1>2. /\ w \in WorldType /\ Invited(w)
        /\ \A r \in Parties : /\ Linked(w, r) /\ Alive(w, r) /\ Formed(w, r) /\ OwnTicks(w, r)
                              /\ r # p => UpToDate(w, r)
    BY DEF Sound
  <1>3. w.members[p] \in Seq(Players) /\ NoRepeat(w.members[p]) /\ In(q, w.members[p])
        /\ w.members[p] # <<>>
    <2>1. w.members[p] \in Seq(Players) /\ NoRepeat(w.members[p]) /\ In(q, w.members[p])
      BY <1>2 DEF WorldType, Linked, Within
    <2> QED BY <2>1, EmptyGives
  <1>4. o \in Players /\ ~In(o, w.members[p]) /\ o # q
    BY <1>2, <1>3 DEF WorldType, Linked, Alive
  <1>5. /\ n \in Seq(Players) /\ NoRepeat(n)
        /\ \A x : In(x, n) <=> (x # q /\ In(x, w.members[p]))
    BY <1>3, RemoveFirstGives
  <1> HIDE DEF n, o
  <1>6. /\ <<o>> \o n \in Seq(Players) /\ <<o>> \o n # <<>> /\ NoRepeat(<<o>> \o n)
        /\ \A x : In(x, <<o>> \o n) <=> (x = o \/ In(x, n))
    BY <1>4, <1>5, ConsGives
  <1>7. /\ e \in WorldType
        /\ e.leader[p] = q /\ e.members[p] = <<o>> \o n
        /\ \A r \in Parties \ {p} : Same(w, e, r)
        /\ e.invites = w.invites /\ e.party = w.party /\ e.invitations = w.invitations
        /\ e.shared = w.shared
    <2>1. /\ l \in [Parties -> Players \cup {NoPlayer}] /\ m \in [Parties -> Seq(Players)]
          /\ l[p] = q /\ m[p] = <<o>> \o n
          /\ \A r \in Parties \ {p} : l[r] = w.leader[r] /\ m[r] = w.members[r]
      BY <1>2, <1>6 DEF WorldType
    <2> HIDE DEF l, m
    <2> QED BY <1>2, <2>1 DEF WorldType, Same
  <1> HIDE DEF e
  <1>8. /\ z \in WorldType
        /\ z.leader = e.leader /\ z.members = e.members /\ z.invites = e.invites
        /\ z.party = e.party /\ z.invitations = e.invitations
        /\ \A r \in Parties \ {p} : z.shared[r] = e.shared[r]
        /\ z.shared[p].ticks = e.shared[p].ticks
        /\ UpToDate(z, p)
    BY <1>7, UpdateGives
  <1> HIDE DEF z
  <1>9. \A x : Within(z, p, x) <=> Within(w, p, x)
    BY <1>3, <1>5, <1>6, <1>7, <1>8 DEF Within, o
  <1>10. \A r \in Parties \ {p} : Same(w, z, r)
    BY <1>7, <1>8 DEF Same
  <1>11. Shrinks(w, z) /\ Invited(z)
    BY <1>2, <1>7, <1>8 DEF Shrinks, Invited
  <1>12. ASSUME NEW r \in Parties
         PROVE  Linked(z, r) /\ Alive(z, r) /\ Formed(z, r) /\ OwnTicks(z, r) /\ UpToDate(z, r)
    <2>1. CASE r = p
      <3>1. ~In(q, <<o>> \o n)
        BY <1>4, <1>5, <1>6
      <3>2. Linked(z, p)
        <4>1. \A x \in Players : z.party[x] = p <=> Within(z, p, x)
          BY <1>2, <1>7, <1>8, <1>9 DEF Linked
        <4>2. ~In(z.leader[p], z.members[p]) /\ NoRepeat(z.members[p])
          BY <3>1, <1>6, <1>7, <1>8
        <4> QED BY <4>1, <4>2 DEF Linked
      <3>3. Alive(z, p)
        BY <1>6, <1>7, <1>8 DEF Alive, IsEmpty
      <3>4. Formed(z, p)
        BY <1>2, <1>3, <1>7, <1>8, <1>9 DEF Formed
      <3>5. OwnTicks(z, p)
        BY <1>2, <1>7, <1>8, <1>9 DEF OwnTicks
      <3> QED BY <2>1, <3>2, <3>3, <3>4, <3>5, <1>8
    <2>2. CASE r # p
      <3>1. Linked(z, r)
        <4>1. \A x \in Players : z.party[x] = r <=> Within(z, r, x)
          BY <2>2, <1>2, <1>7, <1>8, <1>9, <1>10, SameKeeps DEF Linked
        <4>2. ~In(z.leader[r], z.members[r]) /\ NoRepeat(z.members[r])
          BY <2>2, <1>2, <1>10 DEF Linked, Same
        <4> QED BY <4>1, <4>2 DEF Linked
      <3>2. Alive(z, r)
        BY <2>2, <1>2, <1>7, <1>8, <1>10 DEF Alive, Same, IsEmpty
      <3> QED BY <2>2, <3>1, <3>2, <1>2, <1>10, <1>11, SameKeeps
    <2> QED BY <2>1, <2>2
  <1> QED BY <1>1, <1>7, <1>8, <1>11, <1>12 DEF Sound

\* What leaveParty does to the one who leaves, before the party is disbanded or not.
TakeOut(w, p, q) ==
    ClearPoints(Update([w EXCEPT !.members[p] = RemoveFirst(@, q), !.party[q] = NoParty], p), p, q)

\* How that relates the record after it to w.
TakenOut(w, z, p, q) ==
    /\ z \in WorldType /\ Invited(z)
    /\ z.leader = w.leader /\ z.invites = w.invites /\ z.invitations = w.invitations
    /\ \A x \in Players : z.party[x] = IF x = q THEN NoParty ELSE w.party[x]
    /\ NoRepeat(z.members[p])
    /\ \A x : In(x, z.members[p]) <=> (x # q /\ In(x, w.members[p]))
    /\ \A x \in Players : z.shared[p].ticks[x] # "none" => x # q /\ Within(w, p, x)
    /\ UpToDate(z, p)
    /\ \A r \in Parties \ {p} : /\ Linked(z, r) /\ Alive(z, r) /\ Formed(z, r)
                                /\ OwnTicks(z, r) /\ UpToDate(z, r)
    /\ Shrinks(w, z)

LEMMA TakeOutGives ==
    ASSUME NEW w, NEW p \in Parties, NEW q \in Players, Sound(w, {p}), w.party[q] = p
    PROVE  TakenOut(w, TakeOut(w, p, q), p, q)
  <1> DEFINE n == RemoveFirst(w.members[p], q)
             m == [w.members EXCEPT ![p] = n]
             y == [w.party EXCEPT ![q] = NoParty]
             e == [w EXCEPT !.members = m, !.party = y]
             u == Update(e, p)
             z == ClearPoints(u, p, q)
  <1>1. TakeOut(w, p, q) = z
    BY DEF TakeOut, Sound, WorldType
  <1>2. /\ w \in WorldType /\ Invited(w)
        /\ \A r \in Parties : /\ Linked(w, r) /\ Alive(w, r) /\ Formed(w, r) /\ OwnTicks(w, r)
                              /\ r # p => UpToDate(w, r)
    BY DEF Sound
  <1>3. w.members[p] \in Seq(Players) /\ NoRepeat(w.members[p])
    BY <1>2 DEF WorldType, Linked
  <1>4. /\ n \in Seq(Players) /\ NoRepeat(n)
        /\ \A x : In(x, n) <=> (x # q /\ In(x, w.members[p]))
    BY <1>3, RemoveFirstGives
  <1> HIDE DEF n
  <1>5. /\ e \in WorldType
        /\ e.leader = w.leader /\ e.invites = w.invites /\ e.invitations = w.invitations
        /\ e.shared = w.shared
        /\ e.members[p] = n /\ \A r \in Parties \ {p} : e.members[r] = w.members[r]
        /\ \A x \in Players : e.party[x] = IF x = q THEN NoParty ELSE w.party[x]
    <2>1. /\ m \in [Parties -> Seq(Players)] /\ y \in [Players -> Parties \cup {NoParty}]
          /\ m[p] = n /\ \A r \in Parties \ {p} : m[r] = w.members[r]
          /\ \A x \in Players : y[x] = IF x = q THEN NoParty ELSE w.party[x]
      BY <1>2, <1>4 DEF WorldType
    <2> HIDE DEF m, y
    <2> QED BY <1>2, <2>1 DEF WorldType
  <1> HIDE DEF e
  <1>6. /\ u \in WorldType
        /\ u.leader = e.leader /\ u.members = e.members /\ u.invites = e.invites
        /\ u.party = e.party /\ u.invitations = e.invitations
        /\ \A r \in Parties \ {p} : u.shared[r] = e.shared[r]
        /\ u.shared[p].ticks = e.shared[p].ticks
        /\ UpToDate(u, p)
    BY <1>5, UpdateGives
  <1> HIDE DEF u
  <1>7. /\ z \in WorldType
        /\ z.leader = u.leader /\ z.members = u.members /\ z.invites = u.invites
        /\ z.party = u.party /\ z.invitations = u.invitations
        /\ \A r \in Parties \ {p} : z.shared[r] = u.shared[r]
        /\ \A x \in Players : z.shared[p].ticks[x] = IF x = q THEN "none" ELSE u.shared[p].ticks[x]
        /\ UpToDate(z, p)
    BY <1>6, ClearPointsGives
  <1> HIDE DEF z
  <1>8. Shrinks(w, z) /\ Invited(z)
    BY <1>2, <1>5, <1>6, <1>7 DEF Shrinks, Invited
  <1>9. \A x \in Players : z.shared[p].ticks[x] # "none" => x # q /\ Within(w, p, x)
    BY <1>2, <1>5, <1>6, <1>7 DEF OwnTicks
  <1>10. ASSUME NEW r \in Parties \ {p}
         PROVE  Linked(z, r) /\ Alive(z, r) /\ Formed(z, r) /\ OwnTicks(z, r) /\ UpToDate(z, r)
    <2>1. Same(w, z, r)
      BY <1>5, <1>6, <1>7 DEF Same
    <2>2. \A x \in Players : z.party[x] = r <=> w.party[x] = r
      BY <1>5, <1>6, <1>7
    <2>3. Linked(z, r)
      BY <2>1, <2>2, <1>2, SameKeeps DEF Linked, Same
    <2>4. Alive(z, r)
      BY <2>1, <1>2, <1>5, <1>6, <1>7 DEF Alive, Same, IsEmpty
    <2> QED BY <2>1, <2>3, <2>4, <1>2, <1>8, SameKeeps
  <1> QED BY <1>1, <1>4, <1>5, <1>6, <1>7, <1>8, <1>9, <1>10 DEF TakenOut

LEMMA LeaveKeeps ==
    ASSUME NEW w, NEW p \in Parties, NEW q \in Players, Sound(w, {p}), w.party[q] = p
    PROVE  LET z == Leave(w, p, q) IN
           Sound(z, {}) /\ Shrinks(w, z) /\ z.party[q] = NoParty
  <1> DEFINE leads == w.leader[p] = q
             missing == leads /\ \/ w.members[p] = <<>>
                                 \/ Len(w.members[p]) = 1 /\ w.invites[p] = {}
             passed == IF leads /\ ~missing THEN PassLeadership(w, p, Head(w.members[p])) ELSE w
             c == TakeOut(passed, p, q)
             z == IF missing THEN Disband(c, p) ELSE DisbandIfEmpty(c, p)
  <1>1. Leave(w, p, q) = z
    BY DEF Leave, TakeOut
  <1>2. /\ w \in WorldType
        /\ \A r \in Parties : Linked(w, r) /\ Alive(w, r) /\ Formed(w, r)
    BY DEF Sound
  <1>3. w.members[p] \in Seq(Players)
    BY <1>2 DEF WorldType
  <1> DEFINE Goal == Sound(z, {}) /\ Shrinks(c, z) /\ Shrinks(w, c) /\ c.party[q] = NoParty
  <1>5. ASSUME missing PROVE Goal
    <2> DEFINE d == TakeOut(w, p, q)
    <2>1. c = d /\ z = Disband(d, p)
      BY <1>5
    <2>2. TakenOut(w, d, p, q)
      BY TakeOutGives
    <2> HIDE DEF d, c, z
    <2>3. /\ \A x \in Players : d.party[x] = p => Within(d, p, x)
          /\ \A x \in Players : Within(d, p, x) => d.party[x] \in {p, NoParty}
      BY <1>2, <1>5, <2>2 DEF Linked, Within, TakenOut
    <2>4. Sound(Disband(d, p), {}) /\ Shrinks(d, Disband(d, p))
      BY <2>2, <2>3, DisbandKeeps DEF TakenOut
    <2> QED BY <2>1, <2>2, <2>4 DEF TakenOut
  <1>6. ASSUME ~missing PROVE Goal
    <2>1. Sound(passed, {p}) /\ passed.leader[p] # q /\ passed.party[q] = p
          /\ passed.party = w.party /\ passed.invitations = w.invitations
      <3>1. CASE leads
        <4> DEFINE h == Head(w.members[p])
        <4>1. passed = PassLeadership(w, p, h)
          BY <1>6, <3>1
        <4>2. w.members[p] # <<>>
          BY <1>6, <3>1
        <4>3. h \in Players /\ In(h, w.members[p])
          BY <1>3, <4>2, EmptyGives
        <4>4. w.party[h] = p /\ w.leader[p] # h
          BY <1>2, <4>3 DEF Linked, Within
        <4> HIDE DEF passed, h
        <4>5. /\ Sound(passed, {})
              /\ passed.leader[p] = h
              /\ passed.party = w.party /\ passed.invitations = w.invitations
          BY <4>1, <4>3, <4>4, PassLeadershipKeeps
        <4>6. Sound(passed, {p})
          BY <4>5 DEF Sound
        <4> QED BY <3>1, <4>4, <4>5, <4>6
      <3>2. CASE ~leads
        BY <3>2
      <3> QED BY <3>1, <3>2
    <2>2. Shrinks(w, passed)
      BY <2>1 DEF Shrinks
    <2> HIDE DEF passed
    <2>3. /\ c \in WorldType /\ Invited(c)
          /\ c.leader = passed.leader /\ c.invitations = passed.invitations
          /\ \A x \in Players : c.party[x] = IF x = q THEN NoParty ELSE passed.party[x]
          /\ NoRepeat(c.members[p])
          /\ \A x : In(x, c.members[p]) <=> (x # q /\ In(x, passed.members[p]))
          /\ \A x \in Players : c.shared[p].ticks[x] # "none" => x # q /\ Within(passed, p, x)
          /\ UpToDate(c, p)
          /\ \A r \in Parties \ {p} : /\ Linked(c, r) /\ Alive(c, r) /\ Formed(c, r)
                                      /\ OwnTicks(c, r) /\ UpToDate(c, r)
          /\ Shrinks(passed, c)
      <3>1. TakenOut(passed, c, p, q)
        BY <2>1, TakeOutGives
      <3> HIDE DEF c
      <3> QED BY <3>1 DEF TakenOut
    <2> HIDE DEF c
    <2>4. /\ passed \in WorldType /\ c.members[p] \in Seq(Players)
          /\ Linked(passed, p) /\ Alive(passed, p) /\ Formed(passed, p)
      BY <2>1, <2>3 DEF Sound, WorldType
    <2>5. In(q, passed.members[p]) /\ passed.members[p] # <<>>
      <3>1. In(q, passed.members[p])
        BY <2>1, <2>4 DEF Linked, Within
      <3>2. passed.members[p] \in Seq(Players)
        BY <2>4 DEF WorldType
      <3> QED BY <3>1, <3>2, EmptyGives
    <2>6. c.leader[p] # NoPlayer
      BY <2>3, <2>4, <2>5 DEF Alive
    <2>7. \A x \in Players : Within(c, p, x) <=> x # q /\ Within(passed, p, x)
      BY <2>1, <2>3 DEF Within
    <2>8. Linked(c, p)
      <3>1. \A x \in Players : c.party[x] = p <=> Within(c, p, x)
        BY <2>3, <2>4, <2>7 DEF Linked
      <3>2. ~In(c.leader[p], c.members[p])
        BY <2>3, <2>4 DEF Linked
      <3> QED BY <3>1, <3>2, <2>3 DEF Linked
    <2>9. Formed(c, p)
      BY <2>3, <2>4, <2>5, <2>7 DEF Formed
    <2>10. OwnTicks(c, p)
      BY <2>3, <2>7 DEF OwnTicks
    <2>11. Sound(DisbandIfEmpty(c, p), {}) /\ Shrinks(c, DisbandIfEmpty(c, p))
      BY <2>3, <2>6, <2>8, <2>9, <2>10, DisbandIfEmptyKeeps
    <2>12. Shrinks(w, c)
      BY <2>1, <2>3 DEF Shrinks
    <2> QED BY <1>6, <2>3, <2>11, <2>12
  <1>7. Goal
    BY <1>5, <1>6
  <1> HIDE DEF c, z
  <1> QED BY <1>1, <1>7 DEF Shrinks

\* An invitee of p joins it.
LEMMA JoinKeeps ==
    ASSUME NEW w, NEW p \in Parties, NEW b \in Players, Sound(w, {p}),
           w.leader[p] \in Players \ {b}, w.party[b] = NoParty, b \in w.invites[p]
    PROVE  LET z == Join(w, p, b) IN
           /\ Sound(z, {})
           /\ \A q \in Players : /\ z.party[q] \in {w.party[q], NoParty} \/ q = b
                                 /\ z.invitations[q] \subseteq w.invitations[q]
  <1> DEFINE a == w.leader[p]
             u == IF w.members[p] = <<>> THEN ClearInvitations(w, a) ELSE w
             n == Append(u.members[p], b)
             m == [u.members EXCEPT ![p] = n]
             y == [u.party EXCEPT ![b] = p]
             v == [u EXCEPT !.members = m, !.party = y]
             x == ClearInvitations(v, b)
             z == Update(x, p)
  <1>1. /\ Sound(u, {p}) /\ Shrinks(w, u)
        /\ u.leader[p] = a /\ u.party[b] = NoParty
        /\ u.members[p] = w.members[p]
        /\ u.members[p] = <<>> => u.invitations[a] = {}
    <2>1. CASE w.members[p] = <<>>
      <3>1. Sound(u, {p})
        BY <2>1, ClearKeeps
      <3>2. /\ w \in WorldType /\ Invited(w)
            /\ \A r \in Parties : Linked(w, r) /\ Alive(w, r)
        BY DEF Sound
      <3>3. w.invites[p] \ {a} # {}
        OBVIOUS
      <3>4. Same(w, u, p) /\ Shrinks(w, u) /\ u.invitations[a] = {}
        BY <2>1, <3>2, <3>3, ClearInvitationsGives
      <3> QED BY <3>1, <3>4 DEF Same, Shrinks
    <2>2. CASE w.members[p] # <<>>
      BY <2>2 DEF Shrinks
    <2> QED BY <2>1, <2>2
  <1> HIDE DEF u
  <1>2. Join(w, p, b) = z
    BY <1>1 DEF Join, u, Sound, WorldType
  <1>3. /\ u \in WorldType /\ Invited(u)
        /\ \A r \in Parties : /\ Linked(u, r) /\ Alive(u, r) /\ Formed(u, r) /\ OwnTicks(u, r)
                              /\ r # p => UpToDate(u, r)
    BY <1>1 DEF Sound
  <1>4. u.members[p] \in Seq(Players) /\ NoRepeat(u.members[p]) /\ ~In(b, u.members[p])
    BY <1>1, <1>3 DEF WorldType, Linked, Within
  <1>5. /\ n \in Seq(Players) /\ n # <<>> /\ NoRepeat(n)
        /\ \A q : In(q, n) <=> (q = b \/ In(q, u.members[p]))
    BY <1>4, AppendGives
  <1> HIDE DEF n
  <1>6. /\ v \in WorldType
        /\ v.leader = u.leader /\ v.invites = u.invites /\ v.invitations = u.invitations
        /\ v.shared = u.shared
        /\ v.members[p] = n /\ \A r \in Parties \ {p} : v.members[r] = u.members[r]
        /\ \A q \in Players : v.party[q] = IF q = b THEN p ELSE u.party[q]
    <2>1. /\ m \in [Parties -> Seq(Players)] /\ y \in [Players -> Parties \cup {NoParty}]
          /\ m[p] = n /\ \A r \in Parties \ {p} : m[r] = u.members[r]
          /\ \A q \in Players : y[q] = IF q = b THEN p ELSE u.party[q]
      BY <1>3, <1>5 DEF WorldType
    <2> HIDE DEF m, y
    <2> QED BY <1>3, <2>1 DEF WorldType
  <1> HIDE DEF v, a
  <1>7. Invited(v)
    BY <1>3, <1>6 DEF Invited
  <1>8. \A r \in Parties \ {p} : Same(u, v, r)
    BY <1>6 DEF Same
  <1>9. \A q \in Players : Within(v, p, q) <=> q = b \/ Within(u, p, q)
    BY <1>5, <1>6 DEF Within
  <1>10. ASSUME NEW r \in Parties PROVE Linked(v, r) /\ Alive(v, r)
    <2>1. CASE r = p
      <3>1. \A q \in Players : v.party[q] = p <=> Within(v, p, q)
        BY <1>3, <1>6, <1>9 DEF Linked
      <3>2. ~In(a, n)
        BY <1>1, <1>3, <1>5 DEF Linked, a
      <3>3. Alive(v, p)
        BY <1>1, <1>5, <1>6 DEF Alive, IsEmpty, a
      <3> QED BY <2>1, <3>1, <3>2, <3>3, <1>1, <1>5, <1>6 DEF Linked
    <2>2. CASE r # p
      <3>1. \A q \in Players : v.party[q] = r <=> Within(v, r, q)
        <4>1. \A q \in Players : v.party[q] = r <=> u.party[q] = r
          BY <2>2, <1>1, <1>6
        <4> QED BY <2>2, <4>1, <1>3, <1>8, SameKeeps DEF Linked
      <3>2. ~In(v.leader[r], v.members[r]) /\ NoRepeat(v.members[r])
        BY <2>2, <1>3, <1>8 DEF Linked, Same
      <3>3. Alive(v, r)
        BY <2>2, <1>3, <1>6, <1>8 DEF Alive, Same, IsEmpty
      <3> QED BY <3>1, <3>2, <3>3 DEF Linked
    <2> QED BY <2>1, <2>2
  <1>11. /\ x \in WorldType
         /\ Invited(x)
         /\ \A r \in Parties : Linked(x, r) /\ Alive(x, r)
         /\ \A r \in Parties : Dead(x, r) \/ Same(v, x, r)
         /\ Same(v, x, p)
         /\ Shrinks(v, x)
         /\ x.invitations[b] = {}
    BY <1>5, <1>6, <1>7, <1>10, ClearInvitationsGives
  <1> HIDE DEF x
  <1>12. /\ z \in WorldType
         /\ z.leader = x.leader /\ z.members = x.members /\ z.invites = x.invites
         /\ z.party = x.party /\ z.invitations = x.invitations
         /\ \A r \in Parties \ {p} : z.shared[r] = x.shared[r]
         /\ z.shared[p].ticks = x.shared[p].ticks
         /\ UpToDate(z, p)
    BY <1>11, UpdateGives
  <1> HIDE DEF z
  <1>13. Invited(z)
    BY <1>11, <1>12 DEF Invited
  <1>14. \A q : \A r \in Parties : Within(z, r, q) <=> Within(x, r, q)
    BY <1>12 DEF Within
  <1>15. \A r \in Parties : Linked(z, r)
    BY <1>11, <1>12, <1>14 DEF Linked
  <1>16. \A r \in Parties \ {p} : Same(x, z, r)
    BY <1>12 DEF Same
  <1>17. ASSUME NEW r \in Parties
         PROVE  Alive(z, r) /\ Formed(z, r) /\ OwnTicks(z, r) /\ UpToDate(z, r)
    <2>1. CASE r = p
      <3>1. \A q : Within(z, p, q) <=> Within(v, p, q)
        BY <1>11, <1>14, SameKeeps
      <3>2. Alive(z, p)
        BY <1>1, <1>5, <1>6, <1>11, <1>12 DEF Alive, Same, IsEmpty, a
      <3>3. Formed(z, p)
        <4>1. SUFFICES ASSUME NEW q \in Players, Within(z, p, q) PROVE z.invitations[q] = {}
          BY DEF Formed
        <4>2. CASE q = b
          BY <4>2, <1>11, <1>12
        <4>3. CASE q # b
          <5>1. Within(u, p, q)
            BY <3>1, <4>1, <4>3, <1>9
          <5>2. u.invitations[q] = {}
            <6>1. CASE u.members[p] # <<>>
              BY <6>1, <5>1, <1>3 DEF Formed
            <6>2. CASE u.members[p] = <<>>
              <7>1. ~In(q, u.members[p])
                BY <6>2 DEF In
              <7>2. q = a
                BY <7>1, <5>1, <1>1 DEF Within
              <7> QED BY <7>2, <6>2, <1>1
            <6> QED BY <6>1, <6>2
          <5>3. x.invitations[q] \subseteq v.invitations[q]
            BY <1>11 DEF Shrinks
          <5> QED BY <5>2, <5>3, <1>6, <1>12
        <4> QED BY <4>2, <4>3
      <3>4. OwnTicks(z, p)
        <4>1. z.shared[p].ticks = u.shared[p].ticks
          BY <1>6, <1>11, <1>12 DEF Same
        <4> QED BY <4>1, <3>1, <1>3, <1>9 DEF OwnTicks
      <3> QED BY <2>1, <3>2, <3>3, <3>4, <1>12
    <2>2. CASE r # p
      <3>1. Formed(v, r) /\ OwnTicks(v, r) /\ UpToDate(v, r)
        <4>1. Formed(v, r)
          BY <2>2, <1>3, <1>6, <1>8, SameKeeps DEF Formed, Same
        <4> QED BY <2>2, <4>1, <1>3, <1>8, SameKeeps
      <3>2. Formed(x, r) /\ OwnTicks(x, r) /\ UpToDate(x, r)
        BY <3>1, <1>11, SameKeeps, DeadGives
      <3>3. Shrinks(x, z)
        BY <1>12 DEF Shrinks
      <3>4. Alive(z, r)
        BY <2>2, <1>11, <1>12, <1>16 DEF Alive, Same, IsEmpty
      <3> QED BY <2>2, <3>2, <3>3, <3>4, <1>16, SameKeeps
    <2> QED BY <2>1, <2>2
  <1>18. \A q \in Players : /\ z.party[q] \in {w.party[q], NoParty} \/ q = b
                            /\ z.invitations[q] \subseteq w.invitations[q]
    BY <1>1, <1>6, <1>11, <1>12 DEF Shrinks
  <1> QED BY <1>2, <1>12, <1>13, <1>15, <1>17, <1>18 DEF Sound

-----------------------------------------------------------------------------
(* Shared experience alone.                                                *)

Unmoved(w, z) == /\ z.leader = w.leader /\ z.members = w.members /\ z.invites = w.invites
                 /\ z.party = w.party /\ z.invitations = w.invitations

LEMMA SetSharedKeeps ==
    ASSUME NEW w, NEW p \in Parties, Sound(w, {}), w.leader[p] # NoPlayer, NEW s \in SharedType,
           \A q \in Players : s.ticks[q] # "none" => Within(w, p, q)
    PROVE  Sound(SetShared(w, p, s), {p}) /\ Unmoved(w, SetShared(w, p, s))
  <1> DEFINE z == SetShared(w, p, s)
  <1>1. /\ w \in WorldType /\ Invited(w)
        /\ \A r \in Parties : /\ Linked(w, r) /\ Alive(w, r) /\ Formed(w, r) /\ OwnTicks(w, r)
                              /\ UpToDate(w, r)
    BY DEF Sound
  <1>2. /\ z \in WorldType /\ Unmoved(w, z)
        /\ \A r \in Parties \ {p} : z.shared[r] = w.shared[r]
        /\ z.shared[p] = s
    BY <1>1, SharedGives DEF Unmoved
  <1> HIDE DEF z
  <1>3. Invited(z)
    BY <1>1, <1>2 DEF Invited, Unmoved
  <1>4. ASSUME NEW r \in Parties PROVE Linked(z, r) /\ Formed(z, r) /\ Alive(z, r)
    <2>1. \A q : Within(z, r, q) <=> Within(w, r, q)
      BY <1>2 DEF Within, Unmoved
    <2>2. Linked(z, r)
      BY <2>1, <1>1, <1>2 DEF Linked, Unmoved
    <2>3. Formed(z, r)
      BY <2>1, <1>1, <1>2 DEF Formed, Unmoved
    <2>4. Alive(z, r)
      <3>1. CASE r = p
        BY <3>1, <1>1, <1>2 DEF Alive, IsEmpty, Unmoved
      <3>2. CASE r # p
        BY <3>2, <1>1, <1>2 DEF Alive, IsEmpty, Unmoved
      <3> QED BY <3>1, <3>2
    <2> QED BY <2>2, <2>3, <2>4
  <1>5. \A r \in Parties \ {p} : OwnTicks(z, r) /\ UpToDate(z, r)
    <2>1. \A r \in Parties \ {p} : Same(w, z, r)
      BY <1>2 DEF Same, Unmoved
    <2> QED BY <2>1, <1>1, SameKeeps
  <1>6. OwnTicks(z, p)
    BY <1>2 DEF OwnTicks, Within, Unmoved
  <1> QED BY <1>2, <1>3, <1>4, <1>5, <1>6 DEF Sound, z

LEMMA UpdateKeeps ==
    ASSUME NEW w, NEW p \in Parties, Sound(w, {p}), w.leader[p] # NoPlayer
    PROVE  Sound(Update(w, p), {}) /\ Unmoved(w, Update(w, p))
  <1> DEFINE z == Update(w, p)
  <1>1. /\ w \in WorldType /\ Invited(w)
        /\ \A r \in Parties : /\ Linked(w, r) /\ Alive(w, r) /\ Formed(w, r) /\ OwnTicks(w, r)
                              /\ r # p => UpToDate(w, r)
    BY DEF Sound
  <1>2. /\ z \in WorldType /\ Unmoved(w, z)
        /\ \A r \in Parties \ {p} : z.shared[r] = w.shared[r]
        /\ z.shared[p].ticks = w.shared[p].ticks
        /\ UpToDate(z, p)
    BY <1>1, UpdateGives DEF Unmoved
  <1> HIDE DEF z
  <1>3. Invited(z)
    BY <1>1, <1>2 DEF Invited, Unmoved
  <1>4. ASSUME NEW r \in Parties PROVE Linked(z, r) /\ Formed(z, r) /\ Alive(z, r) /\ OwnTicks(z, r)
    <2>1. \A q : Within(z, r, q) <=> Within(w, r, q)
      BY <1>2 DEF Within, Unmoved
    <2>2. Linked(z, r)
      BY <2>1, <1>1, <1>2 DEF Linked, Unmoved
    <2>3. Formed(z, r)
      BY <2>1, <1>1, <1>2 DEF Formed, Unmoved
    <2>4. Alive(z, r)
      <3>1. CASE r = p
        BY <3>1, <1>1, <1>2 DEF Alive, IsEmpty, Unmoved
      <3>2. CASE r # p
        BY <3>2, <1>1, <1>2 DEF Alive, IsEmpty, Unmoved
      <3> QED BY <3>1, <3>2
    <2>5. z.shared[r].ticks = w.shared[r].ticks
      BY <1>2
    <2>6. OwnTicks(z, r)
      BY <2>1, <2>5, <1>1 DEF OwnTicks
    <2> QED BY <2>2, <2>3, <2>4, <2>6
  <1>5. \A r \in Parties \ {p} : UpToDate(z, r)
    <2>1. \A r \in Parties \ {p} : Same(w, z, r)
      BY <1>2 DEF Same, Unmoved
    <2> QED BY <2>1, <1>1, SameKeeps
  <1> QED BY <1>2, <1>3, <1>4, <1>5 DEF Sound, z

\* Members move about and advance.
LEMMA AnewKeeps ==
    ASSUME NEW w, NEW p \in Parties, NEW fit \in BOOLEAN, Sound(w, {}), w.leader[p] # NoPlayer
    PROVE  Sound(Anew(w, p, fit), {p}) /\ Unmoved(w, Anew(w, p, fit))
  <1> DEFINE s == [w.shared[p] EXCEPT !.fit = fit]
  <1>1. w \in WorldType /\ w.shared[p] \in SharedType /\ OwnTicks(w, p)
    BY DEF Sound, WorldType
  <1>2. s \in SharedType /\ s.ticks = w.shared[p].ticks
    BY <1>1 DEF SharedType
  <1>3. Anew(w, p, fit) = SetShared(w, p, s)
    BY <1>1 DEF Anew, SetShared, WorldType
  <1> HIDE DEF s
  <1>4. \A q \in Players : s.ticks[q] # "none" => Within(w, p, q)
    BY <1>1, <1>2 DEF OwnTicks
  <1> QED BY <1>2, <1>3, <1>4, SetSharedKeeps

-----------------------------------------------------------------------------
(* The invariant and the actions.                                          *)

LEMMA IInvGives ==
    ASSUME IInv
    PROVE  /\ World \in WorldType /\ Sound(World, {}) /\ Present(World, online)
           /\ \A q \in Players : party[q] # NoParty =>
                 party[q] \in Parties /\ World.leader[party[q]] # NoPlayer
                 /\ Within(World, party[q], q)
  <1>1. World \in WorldType /\ Sound(World, {}) /\ Present(World, online)
    BY DEF IInv, Sound
  <1>2. ASSUME NEW q \in Players, party[q] # NoParty
        PROVE  /\ party[q] \in Parties
               /\ World.leader[party[q]] # NoPlayer
               /\ Within(World, party[q], q)
    <2>1. party[q] \in Parties
      BY <1>2 DEF IInv, TypeOK
    <2>2. Within(World, party[q], q) /\ Alive(World, party[q])
      BY <1>1, <2>1 DEF Sound, Linked, World
    <2>3. World.leader[party[q]] = NoPlayer => ~Within(World, party[q], q)
      <3>1. ~In(q, <<>>)
        BY DEF In
      <3> QED BY <2>2, <3>1 DEF Within, Alive
    <2> QED BY <2>1, <2>2, <2>3
  <1> QED BY <1>1, <1>2

LEMMA BecomeKeeps ==
    ASSUME NEW z, Become(z), Sound(z, {}), Present(z, online'), online' \in SUBSET Players
    PROVE  IInv'
  <1>1. z \in WorldType /\ \A p \in Parties : Alive(z, p)
    BY DEF Sound
  <1>2. World' = z
    BY <1>1 DEF World, Become, WorldType
  <1>3. TypeOK'
    BY <1>1 DEF TypeOK, Become, WorldType, Alive, Exists, SharedType
  <1>4. Sound(World', {}) /\ Present(World', online')
    BY <1>2
  <1> QED BY <1>3, <1>4 DEF IInv, World

LEMMA ShrinksKeeps ==
    ASSUME NEW w, NEW z, NEW S, Shrinks(w, z), Present(w, S)
    PROVE  Present(z, S)
  BY DEF Shrinks, Present

LEMMA InitGives == Init => IInv
  <1> SUFFICES ASSUME Init PROVE IInv
    OBVIOUS
  <1>1. NotShared \in SharedType
    BY DEF NotShared, SharedType, Ages
  <1>2. TypeOK
    BY <1>1 DEF Init, TypeOK, SharedType, Exists
  <1>3. World \in WorldType
    BY <1>2 DEF TypeOK, World, WorldType, SharedType
  <1>4. \A p \in Parties : Dead(World, p)
    BY DEF Init, World, Dead
  <1>5. ASSUME NEW p \in Parties
        PROVE  Linked(World, p) /\ Alive(World, p) /\ Formed(World, p) /\ OwnTicks(World, p)
               /\ UpToDate(World, p)
    <2>1. \A q \in Players : World.party[q] # p
      BY DEF Init, World
    <2> QED BY <2>1, <1>4, DeadGives DEF Linked
  <1>6. Invited(World)
    BY DEF Invited, Init, World
  <1>7. Present(World, online)
    BY DEF Present, Init, World
  <1> QED BY <1>2, <1>3, <1>5, <1>6, <1>7 DEF IInv, Sound

LEMMA LoginKeeps ==
    ASSUME IInv, NEW a \in Players, Login(a) PROVE IInv'
  <1>1. Become(World) /\ online' \in SUBSET Players /\ online \subseteq online'
    BY DEF Login, Become, World, IInv, TypeOK
  <1>2. Sound(World, {}) /\ Present(World, online')
    BY <1>1 DEF IInv, Present
  <1> QED BY <1>1, <1>2, BecomeKeeps

LEMMA LogoutKeeps ==
    ASSUME IInv, NEW a \in Players, Logout(a) PROVE IInv'
  <1> DEFINE w == ClearInvitations(World, a)
  <1>1. World \in WorldType /\ Invited(World)
        /\ \A p \in Parties : Linked(World, p) /\ Alive(World, p)
    BY IInvGives DEF Sound
  <1>2. Sound(w, {}) /\ Shrinks(World, w) /\ w.invitations[a] = {} /\ w \in WorldType
    BY <1>1, IInvGives, ClearKeeps, ClearInvitationsGives
  <1>3. Present(w, online) /\ online' = online \ {a} /\ online' \in SUBSET Players
    BY <1>2, IInvGives, ShrinksKeeps DEF Logout, IInv, TypeOK
  <1>4. CASE w.party[a] = NoParty
    <2>1. Become(w)
      BY <1>4 DEF Logout
    <2>2. Present(w, online')
      BY <1>2, <1>3, <1>4 DEF Present
    <2> QED BY <1>2, <1>3, <2>1, <2>2, BecomeKeeps
  <1>5. CASE w.party[a] # NoParty
    <2> DEFINE p == w.party[a]
    <2>1. PICK fit \in BOOLEAN : Become(Leave(Anew(w, p, fit), p, a))
      BY <1>5 DEF Logout
    <2> HIDE DEF w
    <2>2. p \in Parties /\ w.leader[p] # NoPlayer
      <3>1. p \in Parties
        BY <1>2, <1>5 DEF WorldType
      <3>2. Within(w, p, a) /\ Alive(w, p)
        BY <3>1, <1>2 DEF Sound, Linked
      <3>3. ~In(a, <<>>)
        BY DEF In
      <3> QED BY <3>1, <3>2, <3>3 DEF Within, Alive
    <2> DEFINE u == Anew(w, p, fit)
               z == Leave(u, p, a)
    <2>3. Sound(u, {p}) /\ Unmoved(w, u)
      BY <1>2, <2>2, AnewKeeps
    <2> HIDE DEF u, p
    <2>4. u.party[a] = p /\ u.invitations[a] = {}
      BY <1>2, <2>3 DEF Unmoved, p
    <2>5. Sound(z, {}) /\ Shrinks(u, z) /\ z.party[a] = NoParty
      BY <2>2, <2>3, <2>4, LeaveKeeps
    <2>6. Present(z, online')
      <3>1. Present(z, online)
        BY <1>3, <2>3, <2>5 DEF Present, Shrinks, Unmoved
      <3>2. z.invitations[a] = {}
        BY <2>4, <2>5 DEF Shrinks
      <3> HIDE DEF z
      <3> QED BY <3>1, <3>2, <2>5, <1>3 DEF Present
    <2>7. Become(z)
      BY <2>1 DEF u, p
    <2> HIDE DEF z
    <2> QED BY <1>3, <2>5, <2>6, <2>7, BecomeKeeps
  <1> QED BY <1>4, <1>5

LEMMA LeavePartyKeeps ==
    ASSUME IInv, NEW a \in Players, LeaveParty(a) PROVE IInv'
  <1> DEFINE p == party[a]
  <1>1. PICK fit \in BOOLEAN : Become(Leave(Anew(World, p, fit), p, a))
    BY DEF LeaveParty
  <1> DEFINE u == Anew(World, p, fit)
             z == Leave(u, p, a)
  <1>2. p \in Parties /\ World.leader[p] # NoPlayer
    BY IInvGives DEF LeaveParty
  <1>3. Sound(u, {p}) /\ Unmoved(World, u)
    BY <1>2, IInvGives, AnewKeeps
  <1>4. u.party[a] = p
    BY <1>3 DEF Unmoved, World
  <1> HIDE DEF u, p
  <1>5. Sound(z, {}) /\ Shrinks(u, z)
    BY <1>2, <1>3, <1>4, LeaveKeeps
  <1> HIDE DEF z
  <1>6. Present(z, online)
    BY IInvGives, <1>3, <1>5 DEF Present, Shrinks, Unmoved
  <1>7. Become(z)
    BY <1>1 DEF z, u, p
  <1>8. online' = online /\ online \in SUBSET Players
    BY DEF LeaveParty, IInv, TypeOK
  <1> QED BY <1>5, <1>6, <1>7, <1>8, BecomeKeeps

\* Only shared experience changes, and nobody comes or goes.
LEMMA StayKeeps ==
    ASSUME IInv, NEW z, Become(z), Sound(z, {}), Unmoved(World, z), UNCHANGED online
    PROVE  IInv'
  <1>1. Present(z, online)
    BY IInvGives DEF Present, Unmoved
  <1>2. online' = online /\ online \in SUBSET Players
    BY DEF IInv, TypeOK
  <1> QED BY <1>1, <1>2, BecomeKeeps

LEMMA RoamKeeps ==
    ASSUME IInv, NEW a \in Players, Roam(a) PROVE IInv'
  <1> DEFINE p == party[a]
  <1>1. PICK fit \in BOOLEAN : Become(Update(Anew(World, p, fit), p))
    BY DEF Roam
  <1> DEFINE u == Anew(World, p, fit)
             z == Update(u, p)
  <1>2. p \in Parties /\ World.leader[p] # NoPlayer
    BY IInvGives DEF Roam
  <1>3. Sound(u, {p}) /\ Unmoved(World, u)
    BY <1>2, IInvGives, AnewKeeps
  <1>4. Become(z)
    BY <1>1
  <1> HIDE DEF u, p
  <1>5. Sound(z, {}) /\ Unmoved(u, z)
    <2>1. u.leader[p] # NoPlayer
      BY <1>2, <1>3 DEF Unmoved
    <2> QED BY <1>2, <1>3, <2>1, UpdateKeeps
  <1> HIDE DEF z
  <1>6. Unmoved(World, z)
    BY <1>3, <1>5 DEF Unmoved
  <1> QED BY <1>4, <1>5, <1>6, StayKeeps DEF Roam

LEMMA FightKeeps ==
    ASSUME IInv, NEW a \in Players, Fight(a) PROVE IInv'
  <1> DEFINE p == party[a]
             s == [shared[p] EXCEPT !.ticks = [shared[p].ticks EXCEPT ![a] = "recent"]]
             u == SetShared(World, p, s)
             z == Update(u, p)
  <1>1. p \in Parties /\ World.leader[p] # NoPlayer /\ Within(World, p, a)
    BY IInvGives DEF Fight
  <1>2. /\ World.shared = shared /\ shared[p] \in SharedType
        /\ shared \in [Parties -> SharedType]
    BY <1>1 DEF World, IInv, TypeOK, SharedType
  <1>3. [World EXCEPT !.shared[p].ticks[a] = "recent"] = u
    BY <1>1, <1>2 DEF SetShared, World, SharedType
  <1>4. s \in SharedType /\ \A q \in Players \ {a} : s.ticks[q] = shared[p].ticks[q]
    BY <1>2 DEF SharedType, Ages
  <1>5. \A q \in Players : s.ticks[q] # "none" => Within(World, p, q)
    BY <1>1, <1>2, <1>4, IInvGives DEF Sound, OwnTicks
  <1>6. Become(z)
    BY <1>3 DEF Fight
  <1> HIDE DEF s, p
  <1>7. Sound(u, {p}) /\ Unmoved(World, u)
    BY <1>1, <1>4, <1>5, IInvGives, SetSharedKeeps
  <1> HIDE DEF u
  <1>8. Sound(z, {}) /\ Unmoved(u, z)
    <2>1. u.leader[p] # NoPlayer
      BY <1>1, <1>7 DEF Unmoved
    <2> QED BY <1>1, <1>7, <2>1, UpdateKeeps
  <1> HIDE DEF z
  <1>9. Unmoved(World, z)
    BY <1>7, <1>8 DEF Unmoved
  <1> QED BY <1>6, <1>8, <1>9, StayKeeps DEF Fight

\* Of a party whose answer is up to date once shared is s.
LEMMA AnswerKeeps ==
    ASSUME IInv, NEW p \in Parties, World.leader[p] # NoPlayer, NEW s \in SharedType,
           \A q \in Players : s.ticks[q] # "none" => Within(World, p, q),
           Become(SetShared(World, p, s)), UpToDate(SetShared(World, p, s), p), UNCHANGED online
    PROVE  IInv'
  <1> DEFINE z == SetShared(World, p, s)
  <1>1. Sound(z, {p}) /\ Unmoved(World, z)
    BY IInvGives, SetSharedKeeps
  <1> HIDE DEF z
  <1>2. Sound(z, {})
    BY <1>1 DEF Sound, z
  <1> QED BY <1>1, <1>2, StayKeeps DEF z

LEMMA TireKeeps ==
    ASSUME IInv, NEW a \in Players, Tire(a) PROVE IInv'
  <1> DEFINE p == party[a]
             s == [shared[p] EXCEPT !.ticks = [shared[p].ticks EXCEPT ![a] = "old"]]
             z == SetShared(World, p, s)
  <1>1. p \in Parties /\ World.leader[p] # NoPlayer /\ Within(World, p, a)
    BY IInvGives DEF Tire
  <1>2. /\ World.shared = shared /\ shared[p] \in SharedType /\ World \in WorldType
        /\ shared \in [Parties -> SharedType]
    BY <1>1, IInvGives DEF World, IInv, TypeOK, SharedType
  <1>3. /\ s \in SharedType
        /\ s.active = shared[p].active /\ s.enabled = shared[p].enabled /\ s.fit = shared[p].fit
        /\ \A q \in Players : s.ticks[q] = IF q = a THEN "old" ELSE shared[p].ticks[q]
    BY <1>2 DEF SharedType, Ages
  <1>4. \A q \in Players : s.ticks[q] # "none" => Within(World, p, q)
    BY <1>1, <1>2, <1>3, IInvGives DEF Sound, OwnTicks
  <1>5. shared' = [shared EXCEPT ![p] = s]
    BY <1>1, <1>2 DEF Tire, SharedType
  <1> HIDE DEF s, p
  <1>6. Become(z)
    BY <1>5 DEF Tire, Become, SetShared, World
  <1>7. UpToDate(z, p)
    <2>1. /\ z.leader = leader /\ z.members = memberList /\ z.shared[p] = s
      BY <1>1, <1>2, <1>3, SharedGives DEF World
    <2> HIDE DEF z
    <2>2. \A q : Within(z, p, q) <=> Within(World, p, q)
      BY <2>1 DEF Within, World
    <2>3. ~CanEnable(z, p)
      BY <2>1, <2>2, <1>1, <1>3 DEF CanEnable
    <2>4. UpToDate(World, p) /\ World.members = memberList
      BY <1>1, IInvGives DEF Sound, World
    <2>5. \A q \in Players : shared[p].ticks[q] # "none" => s.ticks[q] # "none"
      BY <1>3
    <2> QED BY <2>1, <2>2, <2>3, <2>4, <2>5, <1>2, <1>3 DEF UpToDate
  <1> QED BY <1>1, <1>3, <1>4, <1>6, <1>7, AnswerKeeps DEF Tire

LEMMA RestKeeps ==
    ASSUME IInv, NEW a \in Players, Rest(a) PROVE IInv'
  <1> DEFINE p == party[a]
             z == ClearPoints(World, p, a)
  <1>1. p \in Parties /\ World.leader[p] # NoPlayer /\ World \in WorldType
    BY IInvGives DEF Rest
  <1>2. \A r \in Parties : /\ Linked(World, r) /\ Alive(World, r) /\ Formed(World, r)
                           /\ OwnTicks(World, r) /\ UpToDate(World, r)
    BY IInvGives DEF Sound
  <1>3. Become(z)
    BY DEF Rest
  <1> HIDE DEF p
  <1>4. /\ z \in WorldType /\ Unmoved(World, z)
        /\ \A r \in Parties \ {p} : z.shared[r] = World.shared[r]
        /\ \A x \in Players : z.shared[p].ticks[x] = IF x = a THEN "none" ELSE World.shared[p].ticks[x]
        /\ UpToDate(z, p)
    BY <1>1, <1>2, ClearPointsGives DEF Unmoved
  <1> HIDE DEF z
  <1>5. \A q : \A r \in Parties : Within(z, r, q) <=> Within(World, r, q)
    BY <1>4 DEF Within, Unmoved
  <1>6. Invited(z)
    BY <1>4, IInvGives DEF Sound, Invited, Unmoved
  <1>7. ASSUME NEW r \in Parties
        PROVE  Linked(z, r) /\ Alive(z, r) /\ Formed(z, r) /\ OwnTicks(z, r) /\ UpToDate(z, r)
    <2>1. Linked(z, r)
      BY <1>2, <1>4, <1>5 DEF Linked, Unmoved
    <2>2. Formed(z, r)
      BY <1>2, <1>4, <1>5 DEF Formed, Unmoved
    <2>3. CASE r = p
      <3>1. Alive(z, r)
        BY <2>3, <1>1, <1>2, <1>4 DEF Alive, Unmoved, IsEmpty
      <3>2. OwnTicks(z, r)
        BY <2>3, <1>2, <1>4, <1>5 DEF OwnTicks
      <3> QED BY <2>1, <2>2, <2>3, <3>1, <3>2, <1>4
    <2>4. CASE r # p
      <3>1. Same(World, z, r)
        BY <2>4, <1>4 DEF Same, Unmoved
      <3>2. Alive(z, r)
        BY <2>4, <1>2, <1>4 DEF Alive, Unmoved, IsEmpty
      <3> QED BY <2>1, <2>2, <3>1, <3>2, <1>2, SameKeeps
    <2> QED BY <2>3, <2>4
  <1>8. Sound(z, {})
    BY <1>4, <1>6, <1>7 DEF Sound
  <1> QED BY <1>3, <1>4, <1>8, StayKeeps DEF Rest

LEMMA EnableKeeps ==
    ASSUME IInv, NEW a \in Players, NEW active \in BOOLEAN, EnableSharedPartyExperience(a, active)
    PROVE  IInv'
  <1>1. PICK p \in Parties :
           /\ Leads(a, p)
           /\ Become([World EXCEPT !.shared[p] =
                  [shared[p] EXCEPT !.active = active,
                                    !.enabled = IF active THEN CanEnable(World, p)
                                                ELSE shared[p].enabled]])
    BY Zenon DEF EnableSharedPartyExperience
  <1> DEFINE b == IF active THEN CanEnable(World, p) ELSE shared[p].enabled
             s == [shared[p] EXCEPT !.active = active, !.enabled = b]
             z == SetShared(World, p, s)
  <1>2. /\ World.shared = shared /\ shared[p] \in SharedType /\ World \in WorldType
        /\ shared \in [Parties -> SharedType] /\ b \in BOOLEAN
        /\ World.leader[p] # NoPlayer
    BY <1>1, IInvGives DEF World, IInv, TypeOK, SharedType, CanEnable, Leads
  <1>3. Become(z)
    BY <1>1, <1>2 DEF SetShared, World
  <1> HIDE DEF b
  <1>4. /\ s \in SharedType
        /\ s.active = active /\ s.enabled = b /\ s.fit = shared[p].fit /\ s.ticks = shared[p].ticks
    BY <1>2 DEF SharedType
  <1> HIDE DEF s
  <1>5. \A q \in Players : s.ticks[q] # "none" => Within(World, p, q)
    BY <1>2, <1>4, IInvGives DEF Sound, OwnTicks
  <1>6. UpToDate(z, p)
    <2>1. /\ z.leader = leader /\ z.members = memberList /\ z.shared[p] = s
      BY <1>2, <1>4, SharedGives DEF World
    <2> HIDE DEF z
    <2>2. \A q : Within(z, p, q) <=> Within(World, p, q)
      BY <2>1 DEF Within, World
    <2>3. CanEnable(z, p) <=> CanEnable(World, p)
      BY <2>1, <2>2, <1>2, <1>4 DEF CanEnable, World
    <2>4. active => (b <=> CanEnable(World, p))
      BY DEF b
    <2> QED BY <2>1, <2>3, <2>4, <1>4 DEF UpToDate, CanEnable
  <1> QED BY <1>2, <1>3, <1>4, <1>5, <1>6, AnswerKeeps DEF EnableSharedPartyExperience

-----------------------------------------------------------------------------
(* Invitations.                                                            *)

LEMMA RevokeInvitationKeeps ==
    ASSUME IInv, NEW a \in Players, NEW b \in Players, RevokeInvitation(a, b) PROVE IInv'
  <1> DEFINE p == party[a]
             z == RemoveInvite(World, p, b)
  <1>1. p \in Parties /\ World.leader[p] # NoPlayer
    <2>1. party[a] # NoParty
      BY PartyAssumption DEF RevokeInvitation, Inviting, Leads
    <2> QED BY <2>1, IInvGives
  <1>2. Become(z) /\ online' = online /\ online \in SUBSET Players
    BY DEF RevokeInvitation, IInv, TypeOK
  <1> HIDE DEF p
  <1>3. Sound(z, {}) /\ Shrinks(World, z)
    BY <1>1, IInvGives, RemoveInviteKeeps
  <1> HIDE DEF z
  <1>4. Present(z, online)
    BY <1>3, IInvGives, ShrinksKeeps
  <1> QED BY <1>2, <1>3, <1>4, BecomeKeeps

LEMMA PassPartyLeadershipKeeps ==
    ASSUME IInv, NEW a \in Players, NEW b \in Players, PassPartyLeadership(a, b) PROVE IInv'
  <1>1. PICK p \in Parties, fit \in BOOLEAN :
           Leads(a, p) /\ party[b] = p /\ Become(PassLeadership(Anew(World, p, fit), p, b))
    BY DEF PassPartyLeadership
  <1> DEFINE u == Anew(World, p, fit)
             z == PassLeadership(u, p, b)
  <1>2. World.leader[p] # NoPlayer
    BY <1>1, PartyAssumption DEF Leads, World
  <1>3. Sound(u, {p}) /\ Unmoved(World, u)
    BY <1>2, IInvGives, AnewKeeps
  <1>4. Become(z) /\ online' = online /\ online \in SUBSET Players
    BY <1>1 DEF PassPartyLeadership, IInv, TypeOK
  <1> HIDE DEF u
  <1>5. u.party[b] = p /\ u.leader[p] # b
    BY <1>1, <1>3 DEF Unmoved, World, Leads, PassPartyLeadership
  <1>6. Sound(z, {}) /\ z.party = u.party /\ z.invitations = u.invitations
    BY <1>3, <1>5, PassLeadershipKeeps
  <1> HIDE DEF z
  <1>7. Present(z, online)
    BY <1>3, <1>6, IInvGives DEF Present, Unmoved
  <1> QED BY <1>4, <1>6, <1>7, BecomeKeeps

LEMMA JoinPartyKeeps ==
    ASSUME IInv, NEW a \in Players, NEW b \in Players, JoinParty(b, a) PROVE IInv'
  <1> DEFINE p == party[a]
  <1>1. PICK fit \in BOOLEAN : Become(Join(Anew(World, p, fit), p, b))
    BY DEF JoinParty
  <1> DEFINE u == Anew(World, p, fit)
             z == Join(u, p, b)
  <1>2. p \in Parties /\ World.leader[p] = a /\ World.leader[p] # NoPlayer /\ b \in World.invites[p]
    BY PartyAssumption DEF JoinParty, Inviting, Leads, World
  <1>3. Sound(u, {p}) /\ Unmoved(World, u)
    BY <1>2, IInvGives, AnewKeeps
  <1>4. a # b
    <2>1. party[a] = p /\ party[b] = NoParty
      BY DEF JoinParty
    <2> QED BY <2>1, <1>2, PartyAssumption
  <1>5. u.leader[p] \in Players \ {b} /\ u.party[b] = NoParty /\ b \in u.invites[p]
    BY <1>2, <1>3, <1>4 DEF Unmoved, World, JoinParty
  <1> HIDE DEF u, p
  <1>6. /\ Sound(z, {})
        /\ \A q \in Players : /\ z.party[q] \in {u.party[q], NoParty} \/ q = b
                              /\ z.invitations[q] \subseteq u.invitations[q]
    BY <1>2, <1>3, <1>5, JoinKeeps
  <1> HIDE DEF z
  <1>7. b \in online /\ online' = online /\ online \in SUBSET Players
    BY DEF JoinParty, IInv, TypeOK
  <1>8. Present(z, online)
    BY <1>3, <1>6, <1>7, IInvGives DEF Present, Unmoved
  <1>9. Become(z)
    BY <1>1 DEF z, u, p
  <1> QED BY <1>6, <1>7, <1>8, <1>9, BecomeKeeps

LEMMA InviteToPartyKeeps ==
    ASSUME IInv, NEW a \in Players, NEW b \in Players, InviteToParty(a, b) PROVE IInv'
  <1>1. PICK p \in Parties :
        /\ IF party[a] = NoParty THEN ~Exists(p) ELSE Leads(a, p)
        /\ Become([World EXCEPT !.leader[p] = a, !.party[a] = p,
                                !.invites[p] = @ \cup {b}, !.invitations[b] = @ \cup {p}])
    BY Zenon DEF InviteToParty
  <1> DEFINE l == [leader EXCEPT ![p] = a]
             y == [party EXCEPT ![a] = p]
             i == [inviteList EXCEPT ![p] = @ \cup {b}]
             n == [invitations EXCEPT ![b] = @ \cup {p}]
             z == [World EXCEPT !.leader = l, !.party = y, !.invites = i, !.invitations = n]
  <1>2. /\ TypeOK /\ a # b /\ a \in online /\ b \in online /\ party[b] = NoParty
        /\ online' = online /\ online \in SUBSET Players
    BY DEF InviteToParty, IInv, TypeOK
  <1>3. Become(z)
    BY <1>1 DEF World
  <1>4. /\ l \in [Parties -> Players \cup {NoPlayer}] /\ l[p] = a
        /\ \A r \in Parties \ {p} : l[r] = leader[r]
        /\ y \in [Players -> Parties \cup {NoParty}]
        /\ \A q \in Players : y[q] = IF q = a THEN p ELSE party[q]
        /\ i \in [Parties -> SUBSET Players] /\ b \in i[p]
        /\ \A r \in Parties \ {p} : i[r] = inviteList[r]
        /\ \A r \in Parties, q \in Players : q \in i[r] <=> q \in inviteList[r] \/ (r = p /\ q = b)
        /\ n \in [Players -> SUBSET Parties]
        /\ \A r \in Parties, q \in Players : r \in n[q] <=> r \in invitations[q] \/ (r = p /\ q = b)
    BY <1>2 DEF TypeOK
  <1>5. World \in WorldType /\ Sound(World, {})
    BY IInvGives
  <1> HIDE DEF l, y, i, n
  <1>6. /\ z \in WorldType
        /\ z.leader = l /\ z.party = y /\ z.invites = i /\ z.invitations = n
        /\ z.members = memberList /\ z.shared = shared
    BY <1>4, <1>5 DEF World, WorldType
  <1> HIDE DEF z
  <1>7. leader[p] \in {a, NoPlayer} /\ (leader[p] = NoPlayer => memberList[p] = <<>>)
        /\ party[a] \in {p, NoParty} /\ (party[a] = NoParty <=> leader[p] = NoPlayer)
    BY <1>1, <1>2, PartyAssumption DEF Exists, Leads, TypeOK
  <1>8. ASSUME NEW r \in Parties, r # p PROVE Same(World, z, r)
    BY <1>4, <1>6, <1>8 DEF Same, World
  <1>9. Invited(z)
    BY <1>4, <1>5, <1>6 DEF Sound, Invited, World
  <1>10. ASSUME NEW r \in Parties
         PROVE  Linked(z, r) /\ Alive(z, r) /\ Formed(z, r) /\ OwnTicks(z, r) /\ UpToDate(z, r)
    <2>1. Linked(World, r) /\ Alive(World, r) /\ Formed(World, r) /\ OwnTicks(World, r)
          /\ UpToDate(World, r)
      BY <1>5 DEF Sound
    <2>2. CASE r = p /\ leader[p] = NoPlayer
      <3>1. z.members[r] = <<>> /\ z.shared[r] = NotShared /\ z.leader[r] = a
        BY <2>1, <2>2, <1>4, <1>6 DEF Alive, World
      <3>2. \A x : ~In(x, <<>>)
        BY DEF In
      <3>3. \A q \in Players : party[q] # p
        BY <2>1, <2>2, <3>1, <3>2, <1>6, PartyAssumption DEF Linked, Within, World
      <3>4. Linked(z, r)
        <4>1. \A q \in Players : z.party[q] = p <=> q = a
          BY <3>3, <1>4, <1>6
        <4>2. \A q : Within(z, p, q) <=> q = a
          BY <2>2, <3>1, <3>2 DEF Within
        <4>3. NoRepeat(<<>>)
          BY DEF NoRepeat
        <4> QED BY <2>2, <3>1, <3>2, <4>1, <4>2, <4>3 DEF Linked
      <3>5. Alive(z, r)
        BY <2>2, <3>1, <1>4, <1>6, PartyAssumption DEF Alive, IsEmpty
      <3> QED BY <3>1, <3>4, <3>5 DEF Formed, OwnTicks, UpToDate, NotShared
    <2>3. CASE r = p /\ leader[p] = a
      <3>1. Same(World, z, r) /\ z.party = party
        <4>1. y = party
          BY <1>7, <2>3, <1>2, PartyAssumption DEF y, TypeOK
        <4> QED BY <2>3, <4>1, <1>4, <1>6 DEF Same, World
      <3>2. \A q : Within(z, r, q) <=> Within(World, r, q)
        BY <3>1, SameKeeps
      <3>3. Linked(z, r)
        BY <2>1, <3>1, <3>2 DEF Linked, Same, World
      <3>4. Alive(z, r)
        BY <2>3, <3>1, <1>4, <1>6, PartyAssumption DEF Alive, IsEmpty, Same, World
      <3>5. Formed(z, r)
        <4>1. SUFFICES ASSUME z.members[r] # <<>>, NEW q \in Players, Within(z, r, q)
                       PROVE  z.invitations[q] = {}
          BY DEF Formed
        <4>2. q # b
          BY <4>1, <3>2, <2>1, <1>2, PartyAssumption DEF Linked, World
        <4>3. invitations[q] = {}
          BY <4>1, <3>1, <3>2, <2>1 DEF Formed, World, Same
        <4> QED BY <4>2, <4>3, <1>4, <1>6
      <3>6. OwnTicks(z, r) /\ UpToDate(z, r)
        BY <2>1, <3>1, SameKeeps
      <3> QED BY <3>3, <3>4, <3>5, <3>6
    <2>4. CASE r # p
      <3>1. Same(World, z, r)
        BY <1>8, <2>4
      <3>2. \A q : Within(z, r, q) <=> Within(World, r, q)
        BY <3>1, SameKeeps
      <3>3. \A q \in Players : z.party[q] = r <=> party[q] = r
        BY <2>4, <1>4, <1>6, <1>7, PartyAssumption
      <3>4. Linked(z, r)
        BY <2>1, <3>1, <3>2, <3>3 DEF Linked, Same, World
      <3>5. Alive(z, r)
        <4>1. z.invites[r] = inviteList[r]
          BY <2>4, <1>4, <1>6
        <4> QED BY <2>1, <3>1, <4>1 DEF Alive, IsEmpty, Same, World
      <3>6. Formed(z, r)
        <4>1. SUFFICES ASSUME z.members[r] # <<>>, NEW q \in Players, Within(z, r, q)
                       PROVE  z.invitations[q] = {}
          BY DEF Formed
        <4>2. q # b
          BY <4>1, <3>2, <2>1, <1>2, PartyAssumption DEF Linked, World
        <4>3. invitations[q] = {}
          BY <4>1, <3>1, <3>2, <2>1 DEF Formed, World, Same
        <4> QED BY <4>2, <4>3, <1>4, <1>6
      <3>7. OwnTicks(z, r) /\ UpToDate(z, r)
        BY <2>1, <3>1, SameKeeps
      <3> QED BY <3>4, <3>5, <3>6, <3>7
    <2> QED BY <2>2, <2>3, <2>4, <1>7
  <1>11. Sound(z, {})
    BY <1>6, <1>9, <1>10 DEF Sound
  <1>12. Present(z, online)
    BY <1>2, <1>4, <1>6, IInvGives DEF Present, World
  <1> QED BY <1>2, <1>3, <1>11, <1>12, BecomeKeeps

LEMMA NextKeeps == IInv /\ [Next]_vars => IInv'
  <1> SUFFICES ASSUME IInv, [Next]_vars PROVE IInv'
    OBVIOUS
  <1>1. CASE UNCHANGED vars
    <2>1. Become(World) /\ online' = online /\ online \in SUBSET Players
      BY <1>1 DEF vars, Become, World, IInv, TypeOK
    <2> QED BY <2>1, IInvGives, BecomeKeeps
  <1>2. CASE Next
    <2>1. PICK a \in Players :
            \/ Login(a) \/ Logout(a) \/ LeaveParty(a)
            \/ \E active \in BOOLEAN : EnableSharedPartyExperience(a, active)
            \/ Roam(a) \/ Fight(a) \/ Tire(a) \/ Rest(a)
            \/ \E b \in Players : \/ InviteToParty(a, b) \/ JoinParty(a, b)
                                  \/ RevokeInvitation(a, b) \/ PassPartyLeadership(a, b)
      BY <1>2, Zenon DEF Next
    <2>2. CASE Login(a)
      BY <2>2, LoginKeeps
    <2>3. CASE Logout(a)
      BY <2>3, LogoutKeeps
    <2>4. CASE LeaveParty(a)
      BY <2>4, LeavePartyKeeps
    <2>5. CASE \E active \in BOOLEAN : EnableSharedPartyExperience(a, active)
      BY <2>5, EnableKeeps
    <2>6. CASE Roam(a)
      BY <2>6, RoamKeeps
    <2>7. CASE Fight(a)
      BY <2>7, FightKeeps
    <2>8. CASE Tire(a)
      BY <2>8, TireKeeps
    <2>9. CASE Rest(a)
      BY <2>9, RestKeeps
    <2>10. CASE \E b \in Players : InviteToParty(a, b)
      BY <2>10, InviteToPartyKeeps
    <2>11. CASE \E b \in Players : JoinParty(a, b)
      BY <2>11, JoinPartyKeeps
    <2>12. CASE \E b \in Players : RevokeInvitation(a, b)
      BY <2>12, RevokeInvitationKeeps
    <2>13. CASE \E b \in Players : PassPartyLeadership(a, b)
      BY <2>13, PassPartyLeadershipKeeps
    <2> QED BY <2>1, <2>2, <2>3, <2>4, <2>5, <2>6, <2>7, <2>8, <2>9, <2>10, <2>11, <2>12, <2>13
  <1> QED BY <1>1, <1>2

-----------------------------------------------------------------------------
(* The theorems.                                                           *)

(***************************************************************************)
(* The invariant holds in every state of every run.                        *)
(***************************************************************************)
THEOREM PartyInvariant == Spec => []IInv
  <1>1. Init => IInv
    BY InitGives
  <1>2. IInv /\ [Next]_vars => IInv'
    BY NextKeeps
  <1> QED BY <1>1, <1>2, PTL DEF Spec

(***************************************************************************)
(* Every variable keeps its type, and a party that deleted itself leaves   *)
(* nothing behind.                                                         *)
(***************************************************************************)
THEOREM PartyTypeCorrect == Spec => []TypeOK
  <1>1. IInv => TypeOK
    BY DEF IInv
  <1> QED BY <1>1, PartyInvariant, PTL

(***************************************************************************)
(* A player is in a party exactly when the party has it, once, as leader   *)
(* or as member, and a party of one with nobody invited does not stay,     *)
(* whatever call of party.cpp empties it.                                  *)
(***************************************************************************)
THEOREM PartyMembership == Spec => []MembershipAgrees
  <1>1. ASSUME IInv PROVE MembershipAgrees
    <2> SUFFICES ASSUME NEW p \in Parties
                 PROVE  /\ \A q \in Players :
                            (Exists(p) /\ party[q] = p) <=> Within(World, p, q)
                        /\ \A q \in Players : party[q] = p => Exists(p)
                        /\ ~In(leader[p], memberList[p])
                        /\ NoRepeat(memberList[p])
                        /\ Exists(p) => ~IsEmpty(World, p)
      BY DEF MembershipAgrees, NoRepeat
    <2>1. Linked(World, p) /\ Alive(World, p)
      BY <1>1, IInvGives DEF Sound
    <2>2. \A q \in Players : party[q] = p => Exists(p)
      BY <1>1, IInvGives, PartyAssumption DEF Exists, World
    <2>3. \A q \in Players : (Exists(p) /\ party[q] = p) <=> Within(World, p, q)
      BY <2>1, <2>2 DEF Linked, World
    <2> QED BY <2>1, <2>2, <2>3 DEF Linked, Alive, Exists, World
  <1> QED BY <1>1, PartyInvariant, PTL

(***************************************************************************)
(* Both ends of an invitation agree, and nobody in a formed party has one  *)
(* (Player::clearPartyInvitations, Party::disband).                        *)
(***************************************************************************)
THEOREM PartyInvitations == Spec => []InvitationsAgree
  <1>1. ASSUME IInv PROVE InvitationsAgree
    <2>1. Sound(World, {})
      BY <1>1, IInvGives
    <2>2. \A p \in Parties, q \in Players : q \in inviteList[p] <=> p \in invitations[q]
      BY <2>1 DEF Sound, Invited, World
    <2>3. \A p \in Parties : memberList[p] # <<>> =>
             \A q \in Players : Within(World, p, q) => invitations[q] = {}
      <3>1. World.members = memberList /\ World.invitations = invitations
        BY DEF World
      <3> QED BY <2>1, <3>1 DEF Sound, Formed
    <2> QED BY <2>2, <2>3 DEF InvitationsAgree
  <1> QED BY <1>1, PartyInvariant, PTL

(***************************************************************************)
(* No party refers to a player that has left the game, whose object is     *)
(* deleted (Player::onRemoveCreature).                                     *)
(***************************************************************************)
THEOREM PartyOffline == Spec => []OfflineIsForgotten
  <1>1. ASSUME IInv PROVE OfflineIsForgotten
    <2> SUFFICES ASSUME NEW p \in Parties, NEW q \in Players \ online
                 PROVE  ~Within(World, p, q) /\ q \notin inviteList[p]
      BY DEF OfflineIsForgotten
    <2>1. party[q] = NoParty /\ invitations[q] = {}
      BY <1>1, IInvGives DEF Present, World
    <2>2. Linked(World, p) /\ Invited(World)
      BY <1>1, IInvGives DEF Sound
    <2>3. ~Within(World, p, q)
      BY <2>1, <2>2, PartyAssumption DEF Linked, World
    <2>4. q \notin inviteList[p]
      BY <2>1, <2>2 DEF Invited, World
    <2> QED BY <2>3, <2>4
  <1> QED BY <1>1, PartyInvariant, PTL

(***************************************************************************)
(* The answer a party keeps on sharing experience is the one it would      *)
(* compute but for the passing of time, and ticksMap knows its own players *)
(* only (Party::updateSharedExperience, Party::clearPlayerPoints).         *)
(***************************************************************************)
THEOREM PartySharing == Spec => []SharingIsEarned
  <1>1. ASSUME IInv PROVE SharingIsEarned
    <2>1. \A p \in Parties : UpToDate(World, p) /\ OwnTicks(World, p)
      BY <1>1, IInvGives DEF Sound
    <2>2. World.members = memberList /\ World.shared = shared
      BY DEF World
    <2> QED BY <2>1, <2>2 DEF UpToDate, OwnTicks, SharingIsEarned
  <1> QED BY <1>1, PartyInvariant, PTL
=============================================================================
