------------------------------ MODULE TradeProofs ------------------------------
(***************************************************************************)
(* Theorems about trades, for any players, things, containers and houses.  *)
(* The operations of the module Trade are compositions of calls on the     *)
(* record of what a trade touches, and so are their proofs: a call takes a *)
(* Sound record to a Sound one.  The second half is about nesting: that    *)
(* offers stay apart, and stay as they were shown.                         *)
(***************************************************************************)
EXTENDS Trade, FiniteSetTheorems, TLAPS

USE TradeAssumption

WorldType ==
    [at : [Items -> Places],
     state : [Players -> States],
     partner : [Players -> Players \cup {NoPlayer}],
     item : [Players -> Items \cup {NoItem}],
     tradeItems : [Items -> Players \cup {NoPlayer}],
     refs : [Items -> Nat]]

\* Both sides of a trade know it.
Paired(w) ==
    \A p \in Players :
        /\ w.partner[p] = NoPlayer <=> w.state[p] = "none"
        /\ w.item[p] # NoItem => w.state[p] \in {"initiated", "accept"}
        /\ \A q \in Players : w.partner[p] = q => w.partner[q] = p /\ p # q

\* The map of the game has what is on offer, but for the players of busy, in
\* TRADE_TRANSFER, whose items have left it already.
Listed(w, busy) ==
    /\ \A i \in Items, p \in Players \ busy : w.tradeItems[i] = p <=> w.item[p] = i
    /\ \A i \in Items, p \in busy : w.tradeItems[i] # p
    /\ \A p \in busy : w.item[p] # NoItem => w.tradeItems[w.item[p]] = NoPlayer
    /\ \A i \in Items : w.refs[i] = IF w.tradeItems[i] = NoPlayer THEN 0 ELSE 1

\* A document exists while it is on offer, or just about to change hands.
Documents(w, busy) ==
    \A h \in Houses :
        \/ \E p \in busy : w.item[p] = h
        \/ w.at[h] # Nowhere <=> w.tradeItems[h] # NoPlayer

Sound(w, busy) ==
    /\ w \in WorldType
    /\ Paired(w)
    /\ \A p \in busy : w.partner[p] \in busy \cup {NoPlayer}
    /\ Listed(w, busy)
    /\ Documents(w, busy)

-----------------------------------------------------------------------------
(* The calls.                                                              *)

LEMMA ReleaseGives ==
    ASSUME NEW w \in WorldType, NEW S \in SUBSET Items,
           \A i \in Items : w.refs[i] = IF w.tradeItems[i] = NoPlayer THEN 0 ELSE 1
    PROVE  /\ Release(w, S) \in WorldType
           /\ \A i \in Items : Release(w, S).tradeItems[i] =
                                 IF i \in S THEN NoPlayer ELSE w.tradeItems[i]
           /\ \A i \in Items : Release(w, S).refs[i] =
                                 IF Release(w, S).tradeItems[i] = NoPlayer THEN 0 ELSE 1
           /\ Release(w, S).at = w.at
           /\ Release(w, S).state = w.state
           /\ Release(w, S).partner = w.partner
           /\ Release(w, S).item = w.item
  <1> DEFINE listed == {i \in S : w.tradeItems[i] # NoPlayer}
             t == [i \in Items |-> IF i \in listed THEN NoPlayer ELSE w.tradeItems[i]]
             f == [i \in Items |-> IF i \in listed THEN w.refs[i] - 1 ELSE w.refs[i]]
  <1>1. Release(w, S) = [w EXCEPT !.tradeItems = t, !.refs = f]
    BY DEF Release
  <1>2. /\ t \in [Items -> Players \cup {NoPlayer}]
        /\ \A i \in Items : t[i] = IF i \in S THEN NoPlayer ELSE w.tradeItems[i]
    BY DEF WorldType
  <1>3. /\ f \in [Items -> Nat]
        /\ \A i \in Items : f[i] = IF t[i] = NoPlayer THEN 0 ELSE 1
    BY DEF WorldType
  <1> HIDE DEF t, f
  <1> QED BY <1>1, <1>2, <1>3 DEF WorldType

LEMMA ResetGives ==
    ASSUME NEW w \in WorldType, NEW ps \in SUBSET Players
    PROVE  /\ Reset(w, ps) \in WorldType
           /\ Reset(w, ps).at = w.at
           /\ Reset(w, ps).tradeItems = w.tradeItems
           /\ Reset(w, ps).refs = w.refs
           /\ \A p \in Players :
                /\ Reset(w, ps).state[p] = IF p \in ps THEN "none" ELSE w.state[p]
                /\ Reset(w, ps).partner[p] = IF p \in ps THEN NoPlayer ELSE w.partner[p]
                /\ Reset(w, ps).item[p] = IF p \in ps THEN NoItem ELSE w.item[p]
  <1> DEFINE s == [p \in Players |-> IF p \in ps THEN "none" ELSE w.state[p]]
             r == [p \in Players |-> IF p \in ps THEN NoPlayer ELSE w.partner[p]]
             t == [p \in Players |-> IF p \in ps THEN NoItem ELSE w.item[p]]
  <1>1. /\ s \in [Players -> States]
        /\ r \in [Players -> Players \cup {NoPlayer}]
        /\ t \in [Players -> Items \cup {NoItem}]
    BY DEF WorldType, States
  <1>2. Reset(w, ps) = [w EXCEPT !.state = s, !.partner = r, !.item = t]
    BY DEF Reset
  <1>3. \A p \in Players : /\ s[p] = IF p \in ps THEN "none" ELSE w.state[p]
                           /\ r[p] = IF p \in ps THEN NoPlayer ELSE w.partner[p]
                           /\ t[p] = IF p \in ps THEN NoItem ELSE w.item[p]
    OBVIOUS
  <1> HIDE DEF s, r, t
  <1> QED BY <1>1, <1>2, <1>3 DEF WorldType

LEMMA DiscardGives ==
    ASSUME NEW w \in WorldType, NEW S \in SUBSET Items
    PROVE  /\ Discard(w, S) \in WorldType
           /\ \A i \in Items : Discard(w, S).at[i] =
                                 IF i \in S \cap Houses THEN Nowhere ELSE w.at[i]
           /\ Discard(w, S).state = w.state
           /\ Discard(w, S).partner = w.partner
           /\ Discard(w, S).item = w.item
           /\ Discard(w, S).tradeItems = w.tradeItems
           /\ Discard(w, S).refs = w.refs
  <1> DEFINE a == [i \in Items |-> IF i \in S \cap Houses THEN Nowhere ELSE w.at[i]]
  <1>1. /\ a \in [Items -> Places]
        /\ \A i \in Items : a[i] = IF i \in S \cap Houses THEN Nowhere ELSE w.at[i]
    BY DEF WorldType, Places
  <1>2. Discard(w, S) = [w EXCEPT !.at = a]
    BY DEF Discard
  <1> HIDE DEF a
  <1> QED BY <1>1, <1>2 DEF WorldType

\* What internalCloseTrade does to players that are not in the transfer.
LEMMA CloseGives ==
    ASSUME NEW w, NEW busy \in SUBSET Players, Sound(w, busy), NEW ps \in SUBSET (Players \ busy)
    PROVE  /\ Sound(Close(w, ps), busy)
           /\ \A p \in Players :
                /\ Close(w, ps).partner[p] \in {w.partner[p], NoPlayer}
                /\ Close(w, ps).item[p] \in {w.item[p], NoItem}
                /\ p \in ps => Close(w, ps).partner[p] = NoPlayer
                /\ p \in busy => /\ Close(w, ps).item[p] = w.item[p]
                                 /\ Close(w, ps).partner[p] = w.partner[p]
                                 /\ Close(w, ps).state[p] = w.state[p]
  <1> DEFINE both == ps \cup ({w.partner[p] : p \in ps} \ {NoPlayer})
             S == Offered(w, both)
             a == Release(w, S)
             b == Discard(a, S)
             z == Reset(b, both)
  <1>0. Close(w, ps) = z
    BY DEF Close
  <1>1. w \in WorldType /\ Paired(w) /\ Listed(w, busy) /\ Documents(w, busy)
        /\ \A p \in busy : w.partner[p] \in busy \cup {NoPlayer}
    BY DEF Sound
  <1>2. both \in SUBSET Players
    BY <1>1 DEF WorldType
  <1>3. both \cap busy = {}
    BY <1>1 DEF WorldType, Paired
  <1>4. \A p \in Players \ both : w.partner[p] \notin both
    BY <1>1 DEF WorldType, Paired
  <1>5. S \in SUBSET Items /\ S = {w.item[p] : p \in both} \ {NoItem}
    BY <1>1, <1>2 DEF WorldType, Offered
  <1>6. \A p \in Players \ both : w.item[p] # NoItem => w.item[p] \notin S
    BY <1>1, <1>2, <1>3, <1>5 DEF Listed, WorldType
  <1> HIDE DEF both, S
  <1>7. /\ a \in WorldType
        /\ \A i \in Items : a.tradeItems[i] = IF i \in S THEN NoPlayer ELSE w.tradeItems[i]
        /\ \A i \in Items : a.refs[i] = IF a.tradeItems[i] = NoPlayer THEN 0 ELSE 1
        /\ a.at = w.at
        /\ a.state = w.state
        /\ a.partner = w.partner
        /\ a.item = w.item
    <2>1. \A i \in Items : w.refs[i] = IF w.tradeItems[i] = NoPlayer THEN 0 ELSE 1
      BY <1>1 DEF Listed
    <2> QED BY <2>1, <1>1, <1>5, ReleaseGives
  <1> HIDE DEF a
  <1>8. /\ b \in WorldType
        /\ \A i \in Items : b.at[i] = IF i \in S \cap Houses THEN Nowhere ELSE a.at[i]
        /\ b.state = a.state
        /\ b.partner = a.partner
        /\ b.item = a.item
        /\ b.tradeItems = a.tradeItems
        /\ b.refs = a.refs
    BY <1>7, <1>5, DiscardGives
  <1> HIDE DEF b
  <1>9. /\ z \in WorldType
        /\ z.at = b.at
        /\ z.tradeItems = b.tradeItems
        /\ z.refs = b.refs
        /\ \A p \in Players :
             /\ z.state[p] = IF p \in both THEN "none" ELSE w.state[p]
             /\ z.partner[p] = IF p \in both THEN NoPlayer ELSE w.partner[p]
             /\ z.item[p] = IF p \in both THEN NoItem ELSE w.item[p]
    BY <1>7, <1>8, <1>2, ResetGives
  <1> HIDE DEF z
  <1>10. Paired(z)
    BY <1>1, <1>2, <1>4, <1>9 DEF Paired, WorldType
  <1>11. \A p \in busy : z.partner[p] \in busy \cup {NoPlayer}
    BY <1>1, <1>9, <1>3
  <1>12. Listed(z, busy)
    <2>1. \A i \in Items : z.tradeItems[i] = IF i \in S THEN NoPlayer ELSE w.tradeItems[i]
      BY <1>7, <1>8, <1>9
    <2>2. \A i \in Items : z.refs[i] = IF z.tradeItems[i] = NoPlayer THEN 0 ELSE 1
      BY <1>7, <1>8, <1>9
    <2>3. \A i \in Items, p \in Players \ busy : z.tradeItems[i] = p <=> z.item[p] = i
      <3> SUFFICES ASSUME NEW i \in Items, NEW p \in Players \ busy
                   PROVE  z.tradeItems[i] = p <=> z.item[p] = i
        OBVIOUS
      <3>1. w.tradeItems[i] = p <=> w.item[p] = i
        BY <1>1 DEF Listed
      <3>2. CASE p \in both
        BY <3>1, <3>2, <2>1, <1>9, <1>5, <1>2
      <3>3. CASE p \notin both
        BY <3>1, <3>3, <2>1, <1>9, <1>6
      <3> QED BY <3>2, <3>3
    <2>4. \A i \in Items, p \in busy : z.tradeItems[i] # p
      BY <2>1, <1>1 DEF Listed
    <2>5. \A p \in busy : z.item[p] # NoItem => z.tradeItems[z.item[p]] = NoPlayer
      BY <2>1, <1>1, <1>9, <1>3 DEF Listed, WorldType
    <2> QED BY <2>2, <2>3, <2>4, <2>5 DEF Listed
  <1>13. Documents(z, busy)
    <2> SUFFICES ASSUME NEW h \in Houses
                 PROVE  \/ \E p \in busy : z.item[p] = h
                        \/ z.at[h] # Nowhere <=> z.tradeItems[h] # NoPlayer
      BY DEF Documents
    <2>0. h \in Items
      BY DEF Items
    <2>1. /\ z.tradeItems[h] = IF h \in S THEN NoPlayer ELSE w.tradeItems[h]
          /\ z.at[h] = IF h \in S THEN Nowhere ELSE w.at[h]
      BY <2>0, <1>7, <1>8, <1>9
    <2>2. \/ \E p \in busy : w.item[p] = h
          \/ w.at[h] # Nowhere <=> w.tradeItems[h] # NoPlayer
      BY <1>1 DEF Documents
    <2>3. \A p \in busy : z.item[p] = w.item[p]
      BY <1>9, <1>3
    <2> QED BY <2>1, <2>2, <2>3
  <1> QED
    <2>1. Sound(z, busy)
      BY <1>9, <1>10, <1>11, <1>12, <1>13 DEF Sound
    <2>2. ps \subseteq both
      BY DEF both
    <2> QED BY <1>0, <2>1, <2>2, <1>9, <1>3

\* Trades end and none begins: how a call relates the record after it to w.
Ends(w, z, busy) ==
    \A p \in Players :
        /\ z.partner[p] \in {w.partner[p], NoPlayer}
        /\ z.item[p] \in {w.item[p], NoItem}
        /\ p \in busy => z.item[p] = w.item[p] /\ z.partner[p] = w.partner[p]

\* What internalMoveItem does, of a thing or of a document changing hands.
LEMMA MoveGives ==
    ASSUME NEW w, NEW busy \in SUBSET Players, Sound(w, busy), NEW i \in Items, NEW place \in Places,
           i \in Things \/ \E p \in busy : w.item[p] = i
    PROVE  Sound(MoveTo(w, i, place, busy), busy) /\ Ends(w, MoveTo(w, i, place, busy), busy)
  <1> DEFINE taken == Close(w, Removed(w, i) \ busy)
             put == [taken EXCEPT !.at[i] = place]
             z == Close(put, Added(put, i) \ busy)
  <1>0. MoveTo(w, i, place, busy) = z
    BY DEF MoveTo
  <1>1. Removed(w, i) \ busy \in SUBSET (Players \ busy)
    BY DEF Removed, Updated
  <1>2. Sound(taken, busy) /\ Ends(w, taken, busy)
    BY <1>1, CloseGives DEF Ends
  <1> HIDE DEF taken
  <1>3. /\ put \in WorldType
        /\ \A j \in Items : put.at[j] = IF j = i THEN place ELSE taken.at[j]
        /\ put.state = taken.state
        /\ put.partner = taken.partner
        /\ put.item = taken.item
        /\ put.tradeItems = taken.tradeItems
        /\ put.refs = taken.refs
    <2>1. taken \in WorldType
      BY <1>2 DEF Sound
    <2> QED BY <2>1 DEF WorldType
  <1> HIDE DEF put
  <1>4. Sound(put, busy)
    <2>1. Paired(put)
      BY <1>2, <1>3 DEF Sound, Paired
    <2>2. Listed(put, busy)
      BY <1>2, <1>3 DEF Sound, Listed
    <2>3. Documents(put, busy)
      <3>1. Documents(taken, busy)
        BY <1>2 DEF Sound
      <3>2. i \in Houses => \E p \in busy : taken.item[p] = i
        BY <1>2 DEF Ends
      <3>3. Houses \subseteq Items
        BY DEF Items
      <3> QED BY <3>1, <3>2, <3>3, <1>3 DEF Documents
    <2>4. \A p \in busy : put.partner[p] \in busy \cup {NoPlayer}
      BY <1>2, <1>3 DEF Sound
    <2> QED BY <1>3, <2>1, <2>2, <2>3, <2>4 DEF Sound
  <1>5. Added(put, i) \ busy \in SUBSET (Players \ busy)
    BY DEF Added, Updated
  <1>6. Sound(z, busy) /\ Ends(put, z, busy)
    BY <1>4, <1>5, CloseGives DEF Ends
  <1> HIDE DEF z
  <1>7. Ends(w, z, busy)
    BY <1>2, <1>3, <1>6 DEF Ends
  <1> QED BY <1>0, <1>6, <1>7

\* What internalStartTrade does, of an item that nobody offers.
LEMMA OfferGives ==
    ASSUME NEW w, NEW p \in Players, NEW q \in Players \ {p}, NEW i \in Items,
           w \in WorldType, Paired(w), Listed(w, {}),
           \A h \in Houses : h = i \/ (w.at[h] # Nowhere <=> w.tradeItems[h] # NoPlayer),
           w.tradeItems[i] = NoPlayer,
           i \in Houses => w.at[i] # Nowhere,
           \/ w.state[p] = "none"
           \/ w.state[p] = "acknowledge" /\ w.partner[p] = q,
           w.state[q] = "none" \/ w.partner[q] = p
    PROVE  /\ Sound(Offer(w, p, q, i), {})
           /\ \A r \in Players : Offer(w, p, q, i).partner[r] # NoPlayer =>
                                    w.partner[r] # NoPlayer \/ r \in {p, q}
  <1> DEFINE z == Offer(w, p, q, i)
             asks == w.state[q] = "none"
             s == [r \in Players |-> IF r = p THEN "initiated"
                                     ELSE IF r = q /\ asks THEN "acknowledge" ELSE w.state[r]]
             t == [r \in Players |-> IF r = p THEN q
                                     ELSE IF r = q /\ asks THEN p ELSE w.partner[r]]
             e == [w.item EXCEPT ![p] = i]
             l == [w.tradeItems EXCEPT ![i] = p]
             f == [w.refs EXCEPT ![i] = w.refs[i] + 1]
  <1>1. /\ z \in WorldType
        /\ z.at = w.at
        /\ \A r \in Players :
             /\ z.state[r] = IF r = p THEN "initiated"
                             ELSE IF r = q /\ asks THEN "acknowledge" ELSE w.state[r]
             /\ z.partner[r] = IF r = p THEN q
                               ELSE IF r = q /\ asks THEN p ELSE w.partner[r]
             /\ z.item[r] = IF r = p THEN i ELSE w.item[r]
        /\ \A j \in Items :
             /\ z.tradeItems[j] = IF j = i THEN p ELSE w.tradeItems[j]
             /\ z.refs[j] = IF j = i THEN w.refs[j] + 1 ELSE w.refs[j]
    <2>1. z = [w EXCEPT !.state = s, !.partner = t, !.item = e, !.refs = f, !.tradeItems = l]
      BY DEF Offer, WorldType
    <2>2. /\ s \in [Players -> States]
          /\ t \in [Players -> Players \cup {NoPlayer}]
          /\ e \in [Players -> Items \cup {NoItem}]
          /\ l \in [Items -> Players \cup {NoPlayer}]
          /\ f \in [Items -> Nat]
      BY DEF WorldType, States
    <2>3. \A r \in Players :
             /\ s[r] = IF r = p THEN "initiated"
                       ELSE IF r = q /\ asks THEN "acknowledge" ELSE w.state[r]
             /\ t[r] = IF r = p THEN q
                       ELSE IF r = q /\ asks THEN p ELSE w.partner[r]
             /\ e[r] = IF r = p THEN i ELSE w.item[r]
      BY DEF WorldType
    <2>4. \A j \in Items : /\ l[j] = IF j = i THEN p ELSE w.tradeItems[j]
                           /\ f[j] = IF j = i THEN w.refs[j] + 1 ELSE w.refs[j]
      BY DEF WorldType
    <2> HIDE DEF z, s, t, e, l, f, asks
    <2> QED BY <2>1, <2>2, <2>3, <2>4 DEF WorldType
  <1> HIDE DEF z
  <1>2. Paired(z)
    BY <1>1 DEF Paired, WorldType
  <1>3. Listed(z, {})
    BY <1>1 DEF Listed, WorldType, Paired
  <1>4. Documents(z, {})
    BY <1>1 DEF Documents, Items
  <1> QED BY <1>1, <1>2, <1>3, <1>4 DEF Sound, z

\* The first step of an exchange: both offers leave the map.
LEMMA SettleGives ==
    ASSUME NEW w, Sound(w, {}), NEW p \in Players, NEW q \in Players, w.partner[p] = q
    PROVE  /\ Sound(Settle(w, p, q), {p, q})
           /\ Ends(w, Settle(w, p, q), {p, q})
  <1> DEFINE S == Offered(w, {p, q})
             z == Release(w, S)
  <1>0. Settle(w, p, q) = z
    BY DEF Settle
  <1>1. w \in WorldType /\ Paired(w) /\ Listed(w, {}) /\ Documents(w, {})
    BY DEF Sound
  <1>2. S \in SUBSET Items /\ S = {w.item[p], w.item[q]} \ {NoItem}
    BY <1>1 DEF WorldType, Offered
  <1> HIDE DEF S
  <1>3. /\ z \in WorldType
        /\ \A i \in Items : z.tradeItems[i] = IF i \in S THEN NoPlayer ELSE w.tradeItems[i]
        /\ \A i \in Items : z.refs[i] = IF z.tradeItems[i] = NoPlayer THEN 0 ELSE 1
        /\ z.at = w.at
        /\ z.state = w.state
        /\ z.partner = w.partner
        /\ z.item = w.item
    <2>1. \A i \in Items : w.refs[i] = IF w.tradeItems[i] = NoPlayer THEN 0 ELSE 1
      BY <1>1 DEF Listed
    <2> QED BY <2>1, <1>1, <1>2, ReleaseGives
  <1> HIDE DEF z
  <1>4. Paired(z)
    BY <1>1, <1>3 DEF Paired
  <1>5. \A r \in {p, q} : z.partner[r] \in {p, q} \cup {NoPlayer}
    BY <1>1, <1>3 DEF Paired
  <1>6. Listed(z, {p, q})
    <2>1. \A i \in Items, r \in Players \ {p, q} : z.tradeItems[i] = r <=> z.item[r] = i
      <3> SUFFICES ASSUME NEW i \in Items, NEW r \in Players \ {p, q}
                   PROVE  z.tradeItems[i] = r <=> z.item[r] = i
        OBVIOUS
      <3>1. \A s \in Players : w.tradeItems[i] = s <=> w.item[s] = i
        BY <1>1 DEF Listed
      <3>2. w.tradeItems[i] = r => i \notin S
        BY <3>1, <1>2
      <3>3. i \in S => w.item[r] # i
        BY <3>1, <1>2
      <3> QED BY <3>1, <3>2, <3>3, <1>3
    <2>2. \A i \in Items, r \in {p, q} : z.tradeItems[i] # r
      <3> SUFFICES ASSUME NEW i \in Items, NEW r \in {p, q}, z.tradeItems[i] = r
                   PROVE  FALSE
        OBVIOUS
      <3>1. w.tradeItems[i] = r /\ i \notin S
        BY <1>3
      <3>2. w.item[r] = i
        BY <3>1, <1>1 DEF Listed
      <3>3. NoItem \notin Items
        BY DEF Items
      <3> QED BY <3>1, <3>2, <3>3, <1>2
    <2>3. \A r \in {p, q} : z.item[r] # NoItem => z.tradeItems[z.item[r]] = NoPlayer
      BY <1>3, <1>2
    <2> QED BY <2>1, <2>2, <2>3, <1>3 DEF Listed
  <1>7. Documents(z, {p, q})
    <2> SUFFICES ASSUME NEW h \in Houses, \A r \in {p, q} : z.item[r] # h
                 PROVE  z.at[h] # Nowhere <=> z.tradeItems[h] # NoPlayer
      BY DEF Documents
    <2>1. h \in Items /\ h \notin S
      BY <1>2, <1>3 DEF Items
    <2> QED BY <2>1, <1>1, <1>3 DEF Documents
  <1> QED BY <1>0, <1>3, <1>4, <1>5, <1>6, <1>7 DEF Sound, Ends

\* Its last: the documents vanish and both players are out of the trade.
LEMMA FinishGives ==
    ASSUME NEW w, NEW p \in Players, NEW q \in Players, Sound(w, {p, q}),
           NEW S, S = Offered(w, {p, q})
    PROVE  /\ Sound(Reset(Discard(w, S), {p, q}), {})
           /\ Ends(w, Reset(Discard(w, S), {p, q}), {})
  <1> DEFINE b == Discard(w, S)
             z == Reset(b, {p, q})
  <1>1. /\ w \in WorldType /\ Paired(w) /\ Listed(w, {p, q}) /\ Documents(w, {p, q})
        /\ \A r \in {p, q} : w.partner[r] \in {p, q} \cup {NoPlayer}
    BY DEF Sound
  <1>2. S \in SUBSET Items /\ S = {w.item[p], w.item[q]} \ {NoItem}
    BY <1>1 DEF WorldType, Offered
  <1>3. /\ b \in WorldType
        /\ \A i \in Items : b.at[i] = IF i \in S \cap Houses THEN Nowhere ELSE w.at[i]
        /\ b.state = w.state
        /\ b.partner = w.partner
        /\ b.item = w.item
        /\ b.tradeItems = w.tradeItems
        /\ b.refs = w.refs
    BY <1>1, <1>2, DiscardGives
  <1> HIDE DEF b
  <1>4. /\ z \in WorldType
        /\ z.at = b.at
        /\ z.tradeItems = b.tradeItems
        /\ z.refs = b.refs
        /\ \A r \in Players :
             /\ z.state[r] = IF r \in {p, q} THEN "none" ELSE w.state[r]
             /\ z.partner[r] = IF r \in {p, q} THEN NoPlayer ELSE w.partner[r]
             /\ z.item[r] = IF r \in {p, q} THEN NoItem ELSE w.item[r]
    <2>1. {p, q} \in SUBSET Players
      OBVIOUS
    <2> QED BY <2>1, <1>3, ResetGives
  <1> HIDE DEF z
  <1>5. Paired(z)
    BY <1>1, <1>4 DEF Paired, WorldType
  <1>6. Listed(z, {})
    BY <1>1, <1>3, <1>4 DEF Listed, Items
  <1>7. Documents(z, {})
    <2> SUFFICES ASSUME NEW h \in Houses
                 PROVE  z.at[h] # Nowhere <=> z.tradeItems[h] # NoPlayer
      BY DEF Documents
    <2>0. h \in Items /\ h # NoItem
      BY DEF Items
    <2>1. CASE h \in S
      <3>1. w.tradeItems[h] = NoPlayer
        BY <2>0, <2>1, <1>1, <1>2 DEF Listed
      <3>2. z.at[h] = Nowhere /\ z.tradeItems[h] = w.tradeItems[h]
        BY <2>0, <2>1, <1>3, <1>4
      <3> QED BY <3>1, <3>2
    <2>2. CASE h \notin S
      <3>1. w.at[h] # Nowhere <=> w.tradeItems[h] # NoPlayer
        BY <2>0, <2>2, <1>1, <1>2 DEF Documents
      <3>2. z.at[h] = w.at[h] /\ z.tradeItems[h] = w.tradeItems[h]
        BY <2>0, <2>2, <1>3, <1>4
      <3> QED BY <3>1, <3>2
    <2> QED BY <2>1, <2>2
  <1>8. Ends(w, z, {})
    BY <1>4 DEF Ends
  <1> QED BY <1>4, <1>5, <1>6, <1>7, <1>8 DEF Sound, z, b

-----------------------------------------------------------------------------
(* The inductive invariant, of the states between two tasks.               *)

IInv == /\ TypeOK
        /\ Sound(World, {})
        /\ \A p \in Players : tradePartner[p] # NoPlayer => p \in online

LEMMA SoundWorld ==
    ASSUME TypeOK PROVE World \in WorldType
  BY DEF TypeOK, World, WorldType

\* A task that leaves a Sound world, with its partners in the game, is done.
LEMMA BecomeKeeps ==
    ASSUME NEW z, Become(z), Sound(z, {}),
           online' \in SUBSET Players, stack' \in [Stacks -> {1, 2}],
           owner' \in [Houses -> Players \cup {NoPlayer}],
           \A p \in Players : z.partner[p] # NoPlayer => p \in online'
    PROVE  IInv'
  <1>1. z \in WorldType
    BY DEF Sound
  <1>2. World' = z
    BY <1>1 DEF World, Become, WorldType
  <1>3. Sound(World, {})'
    <2>1. Sound(World', {})
      BY <1>2
    <2> QED BY <2>1
  <1>4. TypeOK'
    BY <1>1 DEF TypeOK, Become, WorldType
  <1>5. \A p \in Players : tradePartner'[p] # NoPlayer => p \in online'
    BY DEF Become
  <1> QED BY <1>3, <1>4, <1>5 DEF IInv

\* In particular one that only ends trades.
LEMMA EndingKeeps ==
    ASSUME IInv, NEW z, Become(z), Sound(z, {}), Ends(World, z, {}),
           online' = online, stack' \in [Stacks -> {1, 2}],
           owner' \in [Houses -> Players \cup {NoPlayer}]
    PROVE  IInv'
  <1>1. \A p \in Players : World.partner[p] = tradePartner[p]
    BY DEF World
  <1>2. \A p \in Players : z.partner[p] # NoPlayer => p \in online'
    BY <1>1 DEF Ends, IInv
  <1>3. online' \in SUBSET Players
    BY DEF IInv, TypeOK
  <1> QED BY <1>2, <1>3, BecomeKeeps

LEMMA ClosingKeeps ==
    ASSUME IInv, NEW ps \in SUBSET Players, Become(Close(World, ps)),
           online' = online, stack' \in [Stacks -> {1, 2}],
           owner' \in [Houses -> Players \cup {NoPlayer}]
    PROVE  IInv'
  <1>1. Sound(World, {})
    BY DEF IInv
  <1>2. Sound(Close(World, ps), {}) /\ Ends(World, Close(World, ps), {})
    BY <1>1, CloseGives DEF Ends
  <1> QED BY <1>2, EndingKeeps

LEMMA MovingKeeps ==
    ASSUME IInv, NEW i \in Things, NEW place \in Places,
           Become(MoveTo(World, i, place, {})), UNCHANGED <<online, stack, owner>>
    PROVE  IInv'
  <1>1. Sound(World, {}) /\ i \in Items
    BY DEF IInv, Items
  <1>2. Sound(MoveTo(World, i, place, {}), {}) /\ Ends(World, MoveTo(World, i, place, {}), {})
    BY <1>1, MoveGives
  <1>3. /\ stack' \in [Stacks -> {1, 2}]
        /\ owner' \in [Houses -> Players \cup {NoPlayer}]
    BY DEF IInv, TypeOK
  <1> QED BY <1>2, <1>3, EndingKeeps

\* A replacement: a close, and what was in the old item goes.
Gone(w, z, i, place) ==
    z = [w EXCEPT !.at = Emptied(w.at, i, place)]

LEMMA GoneGives ==
    ASSUME NEW w, Sound(w, {}), NEW i \in Items, NEW place \in Places,
           NEW z, Gone(w, z, i, place)
    PROVE  /\ Sound(z, {}) /\ z.partner = w.partner /\ z.item = w.item
           /\ z.at \in [Items -> Places]
           /\ \A k \in Items : z.at[k] = IF k \in Things /\ w.at[k] = i THEN place ELSE w.at[k]
  <1> DEFINE b == Emptied(w.at, i, place)
  <1>1. w \in WorldType /\ Paired(w) /\ Listed(w, {}) /\ Documents(w, {})
    BY DEF Sound
  <1>2. /\ b \in [Items -> Places]
        /\ \A k \in Items : b[k] = IF k \in Things /\ w.at[k] = i THEN place ELSE w.at[k]
    <2>1. w.at \in [Items -> Places]
      BY <1>1 DEF WorldType
    <2> QED BY <2>1 DEF Emptied
  <1> HIDE DEF b
  <1>3. /\ z \in WorldType /\ z.at = b
        /\ z.state = w.state /\ z.partner = w.partner /\ z.item = w.item
        /\ z.tradeItems = w.tradeItems /\ z.refs = w.refs
    BY <1>1, <1>2 DEF WorldType, Gone, b
  <1>4. Paired(z) /\ Listed(z, {})
    BY <1>1, <1>3 DEF Paired, Listed
  <1>5. \A h \in Houses : z.at[h] = w.at[h]
    BY <1>2, <1>3 DEF Items
  <1>6. Documents(z, {})
    BY <1>1, <1>3, <1>5 DEF Documents
  <1> QED BY <1>2, <1>3, <1>4, <1>6 DEF Sound

\* Where what lay in i goes when i is replaced.
Dump(i) == IF at[i] \in Containers THEN Lost ELSE Nowhere

LEMMA ReplaceIs ==
    ASSUME NEW i \in Things, Replace(i)
    PROVE  /\ Dump(i) \in Places /\ i \in Items
           /\ Replaced(World, i) \in SUBSET Players
           /\ \E z : Become(z) /\ Gone(Close(World, Replaced(World, i)), z, i, Dump(i))
           /\ online' = online /\ owner' = owner
  <1>1. Replaced(World, i) \in SUBSET Players
    BY DEF Replaced, Removed, Updated
  <1> QED BY <1>1 DEF Replace, Gone, Dump, Places, Items

LEMMA ReplaceKeeps ==
    ASSUME IInv, NEW i \in Things, Replace(i)
    PROVE  IInv'
  <1> DEFINE closed == Close(World, Replaced(World, i))
  <1>1. Sound(World, {})
    BY DEF IInv
  <1>2. /\ Dump(i) \in Places /\ i \in Items
        /\ Replaced(World, i) \in SUBSET (Players \ {})
        /\ online' = online /\ owner' = owner
    BY ReplaceIs
  <1>3. PICK z : Become(z) /\ Gone(closed, z, i, Dump(i))
    BY ReplaceIs
  <1>4. Sound(closed, {}) /\ Ends(World, closed, {})
    BY <1>1, <1>2, CloseGives DEF Ends
  <1> HIDE DEF closed
  <1>5. Sound(z, {}) /\ Ends(World, z, {})
    BY <1>2, <1>3, <1>4, GoneGives DEF Ends
  <1>6. /\ stack' \in [Stacks -> {1, 2}]
        /\ owner' \in [Houses -> Players \cup {NoPlayer}]
    BY <1>2 DEF Replace, IInv, TypeOK
  <1> QED BY <1>2, <1>3, <1>5, <1>6, EndingKeeps

\* Player p agrees to the trade its partner has agreed to.
LEMMA AgreedGives ==
    ASSUME IInv, NEW p \in Players, Agreed(p)
    PROVE  tradePartner[p] \in Players \ {p} /\ World.partner[p] = tradePartner[p]
  BY DEF IInv, TypeOK, Agreed, Sound, Paired, World

LEMMA ExchangeFailsKeeps ==
    ASSUME IInv, NEW p \in Players, ExchangeFails(p)
    PROVE  IInv'
  <1> DEFINE q == tradePartner[p]
             w == Settle(World, p, q)
             S == Offered(World, {p, q})
             z == Reset(Discard(w, S), {p, q})
  <1>1. q \in Players /\ World.partner[p] = q
    BY AgreedGives DEF ExchangeFails
  <1>2. Become(z) /\ UNCHANGED <<online, stack, owner>>
    BY DEF ExchangeFails
  <1>3. Sound(World, {})
    BY DEF IInv
  <1> HIDE DEF q
  <1>4. Sound(w, {p, q}) /\ Ends(World, w, {p, q})
    BY <1>1, <1>3, SettleGives
  <1>5. Offered(w, {p, q}) = S
    BY <1>1, <1>4 DEF Offered, Ends
  <1> HIDE DEF w, S
  <1>6. Sound(z, {}) /\ Ends(w, z, {})
    BY <1>1, <1>4, <1>5, FinishGives
  <1> HIDE DEF z
  <1>7. Ends(World, z, {})
    BY <1>4, <1>6 DEF Ends
  <1>8. /\ stack' \in [Stacks -> {1, 2}]
        /\ owner' \in [Houses -> Players \cup {NoPlayer}]
    BY <1>2 DEF IInv, TypeOK
  <1> QED BY <1>2, <1>6, <1>7, <1>8, EndingKeeps

LEMMA ExchangeKeeps ==
    ASSUME IInv, NEW p \in Players, Exchange(p)
    PROVE  IInv'
  <1> DEFINE q == tradePartner[p]
             i == tradeItem[p]
             j == tradeItem[q]
             busy == {p, q}
             w == Settle(World, p, q)
  <1>1. /\ q \in Players /\ World.partner[p] = q
        /\ i \in Items /\ j \in Items
        /\ World.item[p] = i /\ World.item[q] = j
    <2>1. q \in Players /\ World.partner[p] = q
      BY AgreedGives DEF Exchange
    <2>2. NoItem \notin {i, j}
      BY DEF Exchange
    <2> QED BY <2>1, <2>2 DEF IInv, TypeOK, World
  <1>2. PICK place \in Stowage(w, q), kicked \in SUBSET (Players \ {p, q}) :
            LET first == MoveTo(w, i, place, {p, q}) IN
            \E last \in {first} \cup
                        {MoveTo(first, j, back, {p, q}) : back \in Stowage(first, p)} :
                Become(Reset(Discard(IF {i, j} \cap Houses = {} THEN last ELSE Close(last, kicked),
                                     {i, j}), {p, q}))
    BY DEF Exchange
  <1> DEFINE first == MoveTo(w, i, place, busy)
  <1>3. PICK last \in {first} \cup {MoveTo(first, j, back, busy) : back \in Stowage(first, p)} :
            Become(Reset(Discard(IF {i, j} \cap Houses = {} THEN last ELSE Close(last, kicked),
                                 {i, j}), busy))
    BY <1>2
  <1> DEFINE x == IF {i, j} \cap Houses = {} THEN last ELSE Close(last, kicked)
             z == Reset(Discard(x, {i, j}), busy)
  <1>4. /\ online' = online
        /\ stack' \in [Stacks -> {1, 2}]
        /\ owner' \in [Houses -> Players \cup {NoPlayer}]
    <2>1. /\ UNCHANGED <<online, stack>>
          /\ owner' = [h \in Houses |-> IF h = i THEN q ELSE IF h = j THEN p ELSE owner[h]]
      BY DEF Exchange
    <2> QED BY <2>1, <1>1 DEF IInv, TypeOK
  <1>5. \A v, r : r \in Players => Stowage(v, r) \subseteq Places
    BY DEF Stowage, Places
  <1>6. Sound(World, {})
    BY DEF IInv
  <1> HIDE DEF q, i, j
  <1>7. busy \in SUBSET Players
    BY <1>1
  <1>8. Sound(w, busy) /\ Ends(World, w, busy)
    BY <1>1, <1>6, SettleGives
  <1>9. w.item[p] = i /\ w.item[q] = j
    BY <1>8, <1>1 DEF Ends
  <1> HIDE DEF w
  <1>10. Sound(first, busy) /\ Ends(w, first, busy)
    <2>1. place \in Places
      BY <1>1, <1>2, <1>5
    <2>2. \E r \in busy : w.item[r] = i
      BY <1>9
    <2> HIDE DEF busy
    <2> QED BY <2>1, <2>2, <1>1, <1>7, <1>8, MoveGives
  <1> HIDE DEF first
  <1>11. Sound(last, busy) /\ Ends(w, last, busy)
    <2>1. CASE last = first
      BY <2>1, <1>10
    <2>2. CASE last # first
      <3>1. PICK back \in Stowage(first, p) : last = MoveTo(first, j, back, busy)
        BY <2>2, <1>3
      <3>2. back \in Places
        BY <3>1, <1>5
      <3>3. \E r \in busy : first.item[r] = j
        BY <1>1, <1>9, <1>10 DEF Ends
      <3> HIDE DEF busy
      <3>4. Sound(last, busy) /\ Ends(first, last, busy)
        BY <3>1, <3>2, <3>3, <1>1, <1>7, <1>10, MoveGives
      <3> QED BY <3>4, <1>10 DEF Ends
    <2> QED BY <2>1, <2>2
  <1>12. Sound(x, busy) /\ Ends(w, x, busy)
    <2>1. CASE {i, j} \cap Houses = {}
      BY <2>1, <1>11
    <2>2. CASE {i, j} \cap Houses # {}
      <3>1. x = Close(last, kicked)
        BY <2>2
      <3>2. kicked \in SUBSET (Players \ busy)
        BY <1>2
      <3> HIDE DEF busy
      <3>3. Sound(x, busy) /\ Ends(last, x, busy)
        BY <3>1, <3>2, <1>7, <1>11, CloseGives DEF Ends
      <3> QED BY <3>3, <1>11 DEF Ends
    <2> QED BY <2>1, <2>2
  <1>13. Become(z)
    BY <1>3
  <1>14. Offered(x, {p, q}) = {i, j}
    <2>1. x.item[p] = i /\ x.item[q] = j
      BY <1>12, <1>9, <1>1 DEF Ends
    <2>2. i # NoItem /\ j # NoItem
      BY <1>1 DEF Items
    <2> QED BY <2>1, <2>2 DEF Offered
  <1> HIDE DEF x
  <1>15. Sound(z, {}) /\ Ends(x, z, {})
    BY <1>1, <1>12, <1>14, FinishGives
  <1> HIDE DEF z
  <1>16. Ends(World, z, {})
    BY <1>8, <1>12, <1>15 DEF Ends
  <1> QED BY <1>4, <1>13, <1>15, <1>16, EndingKeeps

LEMMA InitGives == Init => IInv
  <1> SUFFICES ASSUME Init PROVE IInv
    OBVIOUS
  <1>1. TypeOK
    BY DEF Init, TypeOK, Places, Items, Stacks, States
  <1>2. World \in WorldType
    BY <1>1, SoundWorld
  <1>3. Paired(World)
    BY DEF Init, World, Paired
  <1>4. Listed(World, {})
    BY DEF Init, World, Listed, Items
  <1>5. Documents(World, {})
    BY DEF Init, World, Documents, Items
  <1> QED BY <1>1, <1>2, <1>3, <1>4, <1>5 DEF IInv, Sound, Init

\* An offer, of the world as it is or with the document of a house made for it.
LEMMA OfferKeeps ==
    ASSUME IInv, NEW p \in Players, NEW q \in Players, NEW i \in Items, NEW a \in Places,
           {p, q} \subseteq online, p # q, Free(p, q), tradeItems[i] = NoPlayer,
           \A h \in Houses : h # i => (at[h] # Nowhere <=> tradeItems[h] # NoPlayer),
           i \in Houses => a # Nowhere,
           Become(Offer([World EXCEPT !.at[i] = a], p, q, i)),
           UNCHANGED <<online, stack, owner>>
    PROVE  IInv'
  <1> DEFINE w == [World EXCEPT !.at[i] = a]
             z == Offer(w, p, q, i)
  <1>1. /\ World \in WorldType /\ Paired(World) /\ Listed(World, {})
        /\ TypeOK
    BY DEF IInv, Sound
  <1>2. /\ w \in WorldType
        /\ w.at = [at EXCEPT ![i] = a]
        /\ w.state = tradeState
        /\ w.partner = tradePartner
        /\ w.item = tradeItem
        /\ w.tradeItems = tradeItems
        /\ w.refs = refs
    BY <1>1 DEF World, WorldType
  <1>3. at \in [Items -> Places]
    BY <1>1 DEF TypeOK
  <1> HIDE DEF w
  <1>4. Paired(w)
    BY <1>1, <1>2 DEF Paired, World
  <1>5. Listed(w, {})
    BY <1>1, <1>2 DEF Listed, World
  <1>6. \A h \in Houses : h = i \/ (w.at[h] # Nowhere <=> w.tradeItems[h] # NoPlayer)
    BY <1>2, <1>3 DEF Items
  <1>7. i \in Houses => w.at[i] # Nowhere
    BY <1>2, <1>3
  <1>8. /\ \/ w.state[p] = "none"
           \/ w.state[p] = "acknowledge" /\ w.partner[p] = q
        /\ w.state[q] = "none" \/ w.partner[q] = p
    BY <1>2 DEF Free
  <1>9. w.tradeItems[i] = NoPlayer
    BY <1>2
  <1>10. /\ Sound(z, {})
         /\ \A r \in Players : z.partner[r] # NoPlayer => w.partner[r] # NoPlayer \/ r \in {p, q}
    BY <1>2, <1>4, <1>5, <1>6, <1>7, <1>8, <1>9, OfferGives
  <1>11. Become(z)
    BY DEF w
  <1> HIDE DEF z
  <1>12. \A r \in Players : z.partner[r] # NoPlayer => r \in online'
    BY <1>2, <1>10 DEF IInv
  <1>13. /\ online' \in SUBSET Players
         /\ stack' \in [Stacks -> {1, 2}]
         /\ owner' \in [Houses -> Players \cup {NoPlayer}]
    BY <1>1 DEF TypeOK
  <1> QED BY <1>10, <1>11, <1>12, <1>13, BecomeKeeps

LEMMA RequestTradeKeeps ==
    ASSUME IInv, NEW p \in Players, NEW q \in Players, NEW i \in Things, RequestTrade(p, q, i)
    PROVE  IInv'
  <1>1. i \in Items /\ i \notin Houses /\ at \in [Items -> Places]
    BY DEF Items, IInv, TypeOK
  <1>2. at[i] \in Places
    BY <1>1
  <1>3. [World EXCEPT !.at[i] = at[i]] = World
    BY <1>1 DEF World
  <1>4. tradeItems[i] = NoPlayer
    BY <1>1 DEF RequestTrade, Overlap
  <1>5. \A h \in Houses : at[h] # Nowhere <=> tradeItems[h] # NoPlayer
    BY DEF IInv, Sound, Documents, World
  <1>6. /\ {p, q} \subseteq online /\ p # q /\ Free(p, q)
        /\ Become(Offer([World EXCEPT !.at[i] = at[i]], p, q, i))
        /\ UNCHANGED <<online, stack, owner>>
    BY <1>3 DEF RequestTrade
  <1> QED BY <1>1, <1>2, <1>4, <1>5, <1>6, OfferKeeps

LEMMA SellHouseKeeps ==
    ASSUME IInv, NEW p \in Players, NEW q \in Players, NEW h \in Houses, SellHouse(p, q, h)
    PROVE  IInv'
  <1>1. h \in Items /\ p \in Places /\ p # Nowhere
    BY DEF Items, Places
  <1>2. \A g \in Houses : at[g] # Nowhere <=> tradeItems[g] # NoPlayer
    BY DEF IInv, Sound, Documents, World
  <1>3. tradeItems[h] = NoPlayer
    BY <1>2 DEF SellHouse
  <1>4. /\ {p, q} \subseteq online /\ p # q /\ Free(p, q)
        /\ Become(Offer([World EXCEPT !.at[h] = p], p, q, h))
        /\ UNCHANGED <<online, stack, owner>>
    BY DEF SellHouse
  <1> QED BY <1>1, <1>2, <1>3, <1>4, OfferKeeps

LEMMA AcceptKeeps ==
    ASSUME IInv, NEW p \in Players, Accept(p)
    PROVE  IInv'
  <1> DEFINE z == [World EXCEPT !.state = [tradeState EXCEPT ![p] = "accept"]]
  <1>1. /\ World \in WorldType /\ Paired(World) /\ Listed(World, {}) /\ Documents(World, {})
        /\ TypeOK
    BY DEF IInv, Sound
  <1>2. /\ z \in WorldType
        /\ z.at = at
        /\ z.state = [tradeState EXCEPT ![p] = "accept"]
        /\ z.partner = tradePartner
        /\ z.item = tradeItem
        /\ z.tradeItems = tradeItems
        /\ z.refs = refs
    BY <1>1 DEF World, WorldType, TypeOK, States
  <1> HIDE DEF z
  <1>3. Paired(z)
    BY <1>1, <1>2 DEF Paired, World, Accept, TypeOK
  <1>4. Listed(z, {}) /\ Documents(z, {})
    BY <1>1, <1>2 DEF Listed, Documents, World
  <1>5. Become(z)
    BY <1>2 DEF Accept, Become
  <1>6. /\ online' \in SUBSET Players
        /\ stack' \in [Stacks -> {1, 2}]
        /\ owner' \in [Houses -> Players \cup {NoPlayer}]
        /\ \A r \in Players : z.partner[r] # NoPlayer => r \in online'
    BY <1>2 DEF Accept, IInv, TypeOK
  <1>7. Sound(z, {})
    BY <1>2, <1>3, <1>4 DEF Sound
  <1> QED BY <1>5, <1>6, <1>7, BecomeKeeps

LEMMA LogoutKeeps ==
    ASSUME IInv, NEW p \in Players, Logout(p)
    PROVE  IInv'
  <1>1. /\ online' = online \ {p} /\ online' \in SUBSET Players
        /\ stack' \in [Stacks -> {1, 2}]
        /\ owner' \in [Houses -> Players \cup {NoPlayer}]
    BY DEF Logout, IInv, TypeOK
  <1>2. World.partner = tradePartner
    BY DEF World
  <1>3. Sound(World, {})
    BY DEF IInv
  <1>4. CASE tradePartner[p] = NoPlayer
    <2>1. Become(World)
      BY <1>4 DEF Logout
    <2>2. \A r \in Players : World.partner[r] # NoPlayer => r \in online'
      BY <1>1, <1>2, <1>4 DEF IInv
    <2> QED BY <1>1, <1>3, <2>1, <2>2, BecomeKeeps
  <1>5. CASE tradePartner[p] # NoPlayer
    <2>1. Become(Close(World, {p}))
      BY <1>5 DEF Logout
    <2>2. /\ Sound(Close(World, {p}), {})
          /\ \A r \in Players :
               /\ Close(World, {p}).partner[r] \in {World.partner[r], NoPlayer}
               /\ r \in {p} => Close(World, {p}).partner[r] = NoPlayer
      BY <1>3, CloseGives
    <2>3. \A r \in Players : Close(World, {p}).partner[r] # NoPlayer => r \in online'
      BY <1>1, <1>2, <2>2 DEF IInv
    <2> QED BY <1>1, <2>1, <2>2, <2>3, BecomeKeeps
  <1> QED BY <1>4, <1>5

LEMMA NextKeeps == IInv /\ [Next]_vars => IInv'
  <1> SUFFICES ASSUME IInv, [Next]_vars PROVE IInv'
    OBVIOUS
  <1> DEFINE Rest == /\ stack' \in [Stacks -> {1, 2}]
                     /\ owner' \in [Houses -> Players \cup {NoPlayer}]
  <1>t. TypeOK
    BY DEF IInv
  <1>1. ASSUME NEW i \in Things, Change(i) PROVE IInv'
    <2>1. PICK told \in {Updated(World, i), Removed(World, i)} : Become(Close(World, told))
      BY <1>1 DEF Change
    <2>2. told \in SUBSET Players
      BY DEF Removed, Updated
    <2>3. online' = online /\ Rest
      BY <1>1, <1>t DEF Change, TypeOK
    <2> QED BY <2>1, <2>2, <2>3, ClosingKeeps
  <1>2. ASSUME NEW i \in Things, Destroy(i) PROVE IInv'
    BY <1>2, MovingKeeps DEF Destroy, Places
  <1>3. ASSUME NEW p \in Players, Login(p) PROVE IInv'
    <2>1. /\ Become(World)
          /\ Rest
          /\ online' \in SUBSET Players
          /\ \A r \in Players : World.partner[r] # NoPlayer => r \in online'
      BY <1>3 DEF Login, Become, World, IInv, TypeOK
    <2>2. Sound(World, {})
      BY DEF IInv
    <2> QED BY <2>1, <2>2, BecomeKeeps
  <1>4. ASSUME NEW p \in Players, Logout(p) PROVE IInv'
    BY <1>4, LogoutKeeps
  <1>5. ASSUME NEW p \in Players, CloseTrade(p) \/ WalkAway(p) \/ AcceptRefused(p) PROVE IInv'
    <2>1. /\ Become(Close(World, {p}))
          /\ online' = online
          /\ Rest
      BY <1>5, <1>t DEF CloseTrade, WalkAway, AcceptRefused, TypeOK
    <2> QED BY <2>1, ClosingKeeps
  <1>6. ASSUME NEW p \in Players, Accept(p) PROVE IInv'
    BY <1>6, AcceptKeeps
  <1>7. ASSUME NEW p \in Players, ExchangeFails(p) PROVE IInv'
    BY <1>7, ExchangeFailsKeeps
  <1>8. ASSUME NEW p \in Players, Exchange(p) PROVE IInv'
    BY <1>8, ExchangeKeeps
  <1>9. ASSUME NEW p \in Players, NEW i \in Things, NEW place \in {p, Floor} \cup Containers,
               Move(p, i, place)
        PROVE  IInv'
    <2>1. /\ Become(MoveTo(World, i, place, {}))
          /\ UNCHANGED <<online, stack, owner>>
      BY <1>9 DEF Move
    <2>2. place \in Places
      BY DEF Places
    <2> QED BY <2>1, <2>2, MovingKeeps
  <1>10. ASSUME NEW p \in Players, NEW q \in Players, NEW i \in Things, RequestTrade(p, q, i)
         PROVE  IInv'
    BY <1>10, RequestTradeKeeps
  <1>11. ASSUME NEW p \in Players, NEW q \in Players, NEW h \in Houses, SellHouse(p, q, h)
         PROVE  IInv'
    BY <1>11, SellHouseKeeps
  <1>12. ASSUME NEW p \in Players, NEW h \in Houses, BuyHouse(p, h) PROVE IInv'
    <2>1. /\ Become(World)
          /\ Rest
          /\ online' \in SUBSET Players
          /\ \A r \in Players : World.partner[r] # NoPlayer => r \in online'
      BY <1>12 DEF BuyHouse, Become, World, IInv, TypeOK
    <2>2. Sound(World, {})
      BY DEF IInv
    <2> QED BY <2>1, <2>2, BecomeKeeps
  <1>13. ASSUME NEW p \in Players, NEW h \in Houses, LeaveHouse(p, h) PROVE IInv'
    <2>1. PICK kicked \in SUBSET Players : Become(Close(World, kicked))
      BY <1>13 DEF LeaveHouse
    <2>2. online' = online /\ Rest
      BY <1>13, <1>t DEF LeaveHouse, TypeOK
    <2> QED BY <2>1, <2>2, ClosingKeeps
  <1>14. ASSUME NEW i \in Things, Replace(i) PROVE IInv'
    BY <1>14, ReplaceKeeps
  <1>15. CASE UNCHANGED vars
    <2>1. /\ Become(World)
          /\ Rest
          /\ online' \in SUBSET Players
          /\ \A r \in Players : World.partner[r] # NoPlayer => r \in online'
      BY <1>15 DEF vars, Become, World, IInv, TypeOK
    <2>2. Sound(World, {})
      BY DEF IInv
    <2> QED BY <2>1, <2>2, BecomeKeeps
  <1> QED BY <1>1, <1>2, <1>3, <1>4, <1>5, <1>6, <1>7, <1>8, <1>9, <1>10, <1>11, <1>12, <1>13,
             <1>14, <1>15 DEF Next

-----------------------------------------------------------------------------
(* The theorems.                                                           *)

(***************************************************************************)
(* The invariant holds in every state of every run.                        *)
(***************************************************************************)
THEOREM TradeInvariant == Spec => []IInv
  <1>1. Init => IInv
    BY InitGives
  <1>2. IInv /\ [Next]_vars => IInv'
    BY NextKeeps
  <1> QED BY <1>1, <1>2, PTL DEF Spec

(***************************************************************************)
(* Every variable keeps its type; a reference is never given back twice.   *)
(***************************************************************************)
THEOREM TradeTypeCorrect == Spec => []TypeOK
  <1>1. IInv => TypeOK
    BY DEF IInv
  <1> QED BY <1>1, TradeInvariant, PTL

(***************************************************************************)
(* Two players trade with each other or not at all, and no tradePartner    *)
(* points at a player that has left the game (Game::internalCloseTrade).   *)
(***************************************************************************)
THEOREM TradePartners == Spec => []PartnersMutual
  <1>1. IInv => PartnersMutual
    BY DEF IInv, Sound, Paired, World, PartnersMutual
  <1> QED BY <1>1, TradeInvariant, PTL

(***************************************************************************)
(* Game::tradeItems has exactly the items on offer, under the player that  *)
(* offers them and with one reference each, and a document exists exactly  *)
(* while it is on offer, whatever closes a trade and from whichever side.  *)
(***************************************************************************)
THEOREM TradeOffers == Spec => []OffersListed
  <1>1. ASSUME IInv PROVE OffersListed
    <2>1. /\ TypeOK
          /\ \A i \in Items, p \in Players : tradeItems[i] = p <=> tradeItem[p] = i
          /\ \A i \in Items : refs[i] = IF tradeItems[i] = NoPlayer THEN 0 ELSE 1
          /\ \A h \in Houses : at[h] # Nowhere <=> tradeItems[h] # NoPlayer
      BY <1>1 DEF IInv, Sound, Listed, Documents, World
    <2>2. ASSUME NEW i \in Items
          PROVE  refs[i] = Cardinality({p \in Players : tradeItem[p] = i})
      <3>1. CASE tradeItems[i] = NoPlayer
        <4>1. {p \in Players : tradeItem[p] = i} = {}
          BY <2>1, <3>1
        <4> QED BY <4>1, <2>1, <3>1, FS_EmptySet
      <3>2. CASE tradeItems[i] # NoPlayer
        <4>1. tradeItems[i] \in Players
          BY <2>1, <3>2 DEF TypeOK
        <4>2. {p \in Players : tradeItem[p] = i} = {tradeItems[i]}
          BY <2>1, <4>1
        <4> QED BY <4>2, <2>1, <3>2, FS_Singleton
      <3> QED BY <3>1, <3>2
    <2> QED BY <2>1, <2>2 DEF OffersListed
  <1> QED BY <1>1, TradeInvariant, PTL

-----------------------------------------------------------------------------
(* Where things are.  Holders is computed by a recursion that stops after  *)
(* as many steps as there are things; here is what it computes: the least  *)
(* set with the parent of an item and the parents of the things in it.     *)

LEMMA Least ==
    ASSUME NEW T \in SUBSET Nat, T # {}
    PROVE  \E x \in T : \A y \in T : x <= y
  <1>1. PICK x \in T : \A y \in T : ~(<<y, x>> \in OpToRel(<, Nat))
    BY NatLessThanWellFounded, WFMin
  <1>2. x \in Nat /\ \A y \in T : y \in Nat
    OBVIOUS
  <1>3. \A y \in T : ~(y < x)
    BY <1>1, <1>2, Zenon DEF OpToRel
  <1> QED BY <1>2, <1>3

\* A set of numbers with 0 and the successor of each of its numbers below n.
LEMMA Counting ==
    ASSUME NEW n \in Nat, NEW G, 0 \in G, \A m \in 0 .. n - 1 : m \in G => m + 1 \in G
    PROVE  \A m \in 0 .. n : m \in G
  <1> DEFINE Bad == {m \in 0 .. n : m \notin G}
  <1> SUFFICES ASSUME Bad # {} PROVE FALSE
    OBVIOUS
  <1>0. Bad \in SUBSET Nat
    OBVIOUS
  <1>1. PICK x \in Bad : \A y \in Bad : x <= y
    BY <1>0, Least
  <1>2. x # 0 /\ x - 1 \in 0 .. n - 1
    OBVIOUS
  <1>3. x - 1 \in G
    BY <1>1, <1>2
  <1>4. (x - 1) + 1 = x
    BY <1>2
  <1> QED BY <1>2, <1>3, <1>4

Closed(a, s) == \A c \in s \cap Things : a[c] \in s

Climb(a, s) == s \cup {a[c] : c \in s \cap Things}

Climbs(f, a, i, n) ==
    /\ f \in [0 .. n -> SUBSET Places]
    /\ f[0] = {a[i]}
    /\ \A m \in 1 .. n : f[m] = Climb(a, f[m - 1])

LEMMA ClimbExists ==
    ASSUME NEW a \in [Items -> Places], NEW i \in Items, NEW n \in Nat
    PROVE  \E f : Climbs(f, a, i, n)
  <1> DEFINE G == {m \in 0 .. n : \E f : Climbs(f, a, i, m)}
  <1>1. 0 \in G
    <2> DEFINE f == [m \in 0 .. 0 |-> {a[i]}]
    <2>1. Climbs(f, a, i, 0)
      BY DEF Climbs
    <2> QED BY <2>1
  <1>2. ASSUME NEW m \in 0 .. n - 1, m \in G PROVE m + 1 \in G
    <2>1. PICK f : Climbs(f, a, i, m)
      BY <1>2
    <2> DEFINE h == [k \in 0 .. m + 1 |-> IF k = m + 1 THEN Climb(a, f[m]) ELSE f[k]]
    <2>2. Climb(a, f[m]) \in SUBSET Places
      <3>1. f[m] \in SUBSET Places
        BY <2>1 DEF Climbs
      <3>2. \A c \in Things : a[c] \in Places
        BY DEF Items
      <3> QED BY <3>1, <3>2 DEF Climb
    <2>3. h \in [0 .. m + 1 -> SUBSET Places]
      BY <2>1, <2>2 DEF Climbs
    <2>4. \A k \in 0 .. m : h[k] = f[k]
      OBVIOUS
    <2>5. h[m + 1] = Climb(a, f[m])
      OBVIOUS
    <2> HIDE DEF h
    <2>6. Climbs(h, a, i, m + 1)
      BY <2>1, <2>3, <2>4, <2>5 DEF Climbs
    <2>7. m + 1 \in 0 .. n
      OBVIOUS
    <2> QED BY <2>6, <2>7
  <1> HIDE DEF G
  <1>3. n \in G
    BY <1>1, <1>2, Counting
  <1> QED BY <1>3 DEF G

LEMMA HoldersGives ==
    ASSUME NEW a \in [Items -> Places], NEW i \in Items
    PROVE  /\ Cardinality(Things) \in Nat
           /\ \E f : /\ Climbs(f, a, i, Cardinality(Things))
                     /\ Holders(a, i) = f[Cardinality(Things)]
  <1> DEFINE K == Cardinality(Things)
             Rec(up) == up = [n \in 0 .. K |->
                            IF n = 0 THEN {a[i]}
                            ELSE up[n - 1] \cup {a[c] : c \in up[n - 1] \cap Things}]
             up == CHOOSE f : Rec(f)
  <1>1. K \in Nat
    BY FS_CardinalityType
  <1> HIDE DEF K
  <1>2. PICK f : Climbs(f, a, i, K)
    BY <1>1, ClimbExists
  <1>3. Rec(f)
    <2>1. \A n \in 0 .. K : f[n] = IF n = 0 THEN {a[i]}
                            ELSE f[n - 1] \cup {a[c] : c \in f[n - 1] \cap Things}
      BY <1>1, <1>2 DEF Climbs, Climb
    <2>2. f = [n \in 0 .. K |-> f[n]]
      BY <1>2 DEF Climbs
    <2> QED BY <2>1, <2>2
  <1>4. Rec(up)
    BY <1>3
  <1>5. Holders(a, i) = up[K]
    BY DEF Holders, K
  <1> HIDE DEF up
  <1>6. \A n \in 0 .. K : up[n] = f[n]
    <2> DEFINE G == {n \in 0 .. K : up[n] = f[n]}
    <2>1. 0 \in G
      BY <1>1, <1>3, <1>4
    <2>2. ASSUME NEW n \in 0 .. K - 1, n \in G PROVE n + 1 \in G
      <3>1. n + 1 \in 0 .. K /\ n + 1 # 0 /\ (n + 1) - 1 = n /\ up[n] = f[n]
        BY <1>1, <2>2
      <3>2. up[n + 1] = up[n] \cup {a[c] : c \in up[n] \cap Things}
        BY <1>4, <3>1
      <3>3. f[n + 1] = f[n] \cup {a[c] : c \in f[n] \cap Things}
        BY <1>3, <3>1
      <3> QED BY <3>1, <3>2, <3>3
    <2> HIDE DEF G
    <2>3. \A n \in 0 .. K : n \in G
      BY <1>1, <2>1, <2>2, Counting
    <2> QED BY <2>3 DEF G
  <1> QED BY <1>1, <1>2, <1>5, <1>6 DEF K

\* The set that has been climbed to after n steps: it ends in one place, and
\* either nothing is missing from it or it has more than n things.
Shape(a, i, s, n) ==
    /\ a[i] \in s
    /\ \E tip \in s : \A x \in s \ {tip} : x \in Things /\ a[x] \in s
    /\ Closed(a, s) \/ Cardinality(s \cap Things) >= n + 1
    /\ \A X \in SUBSET Places : a[i] \in X /\ Closed(a, X) => s \subseteq X

LEMMA ClimbShape ==
    ASSUME NEW a \in [Items -> Places], NEW i \in Items, NEW n \in Nat,
           NEW s \in SUBSET Places, Shape(a, i, s, n)
    PROVE  Shape(a, i, Climb(a, s), n + 1)
  <1> DEFINE z == Climb(a, s)
  <1>1. PICK tip \in s : \A x \in s \ {tip} : x \in Things /\ a[x] \in s
    BY DEF Shape
  <1>2. z = IF tip \in Things THEN s \cup {a[tip]} ELSE s
    BY <1>1 DEF Climb
  <1>3. IsFiniteSet(s \cap Things)
    BY FS_Subset
  <1> HIDE DEF z
  <1>4. a[i] \in z
    BY <1>2 DEF Shape
  <1>5. \E top \in z : \A x \in z \ {top} : x \in Things /\ a[x] \in z
    <2>1. CASE tip \in Things
      BY <2>1, <1>1, <1>2
    <2>2. CASE tip \notin Things
      BY <2>2, <1>1, <1>2
    <2> QED BY <2>1, <2>2
  <1>6. Closed(a, z) \/ Cardinality(z \cap Things) >= (n + 1) + 1
    <2>1. CASE Closed(a, s)
      BY <2>1, <1>2 DEF Closed
    <2>2. CASE ~Closed(a, s)
      <3>1. tip \in Things /\ a[tip] \notin s
        BY <2>2, <1>1 DEF Closed
      <3>2. Cardinality(s \cap Things) >= n + 1
        BY <2>2 DEF Shape
      <3>3. CASE a[tip] \in Things
        <4>1. z \cap Things = (s \cap Things) \cup {a[tip]}
          BY <3>1, <3>3, <1>2
        <4>2. Cardinality(z \cap Things) = Cardinality(s \cap Things) + 1
          BY <4>1, <3>1, <1>3, FS_AddElement
        <4>3. Cardinality(s \cap Things) \in Nat
          BY <1>3, FS_CardinalityType
        <4> QED BY <4>2, <4>3, <3>2
      <3>4. CASE a[tip] \notin Things
        BY <3>1, <3>4, <1>1, <1>2 DEF Closed
      <3> QED BY <3>3, <3>4
    <2> QED BY <2>1, <2>2
  <1>7. \A X \in SUBSET Places : a[i] \in X /\ Closed(a, X) => z \subseteq X
    BY <1>1, <1>2 DEF Shape, Closed
  <1> QED BY <1>4, <1>5, <1>6, <1>7 DEF Shape, z

LEMMA HoldersIs ==
    ASSUME NEW a \in [Items -> Places], NEW i \in Items
    PROVE  /\ Holders(a, i) \in SUBSET Places
           /\ a[i] \in Holders(a, i)
           /\ Closed(a, Holders(a, i))
           /\ \A X \in SUBSET Places : a[i] \in X /\ Closed(a, X) => Holders(a, i) \subseteq X
           /\ \A x, y \in Holders(a, i) \ Things : x = y
  <1> DEFINE K == Cardinality(Things)
  <1>1. K \in Nat
    BY HoldersGives
  <1>2. PICK f : Climbs(f, a, i, K) /\ Holders(a, i) = f[K]
    BY HoldersGives
  <1> DEFINE G == {n \in 0 .. K : Shape(a, i, f[n], n)}
             s == f[K]
  <1>3. 0 \in G
    <2>1. f[0] = {a[i]} /\ a[i] \in Places
      BY <1>2 DEF Climbs
    <2>2. Closed(a, f[0]) \/ Cardinality(f[0] \cap Things) >= 0 + 1
      <3>1. CASE a[i] \in Things
        <4>1. f[0] \cap Things = {a[i]}
          BY <2>1, <3>1
        <4>2. Cardinality(f[0] \cap Things) = 1
          BY <4>1, FS_Singleton
        <4> QED BY <4>2
      <3>2. CASE a[i] \notin Things
        BY <2>1, <3>2 DEF Closed
      <3> QED BY <3>1, <3>2
    <2> QED BY <1>1, <2>1, <2>2 DEF Shape
  <1> HIDE DEF K
  <1>4. ASSUME NEW n \in 0 .. K - 1, n \in G PROVE n + 1 \in G
    <2>1. n \in Nat /\ n + 1 \in 1 .. K /\ n + 1 \in 0 .. K /\ (n + 1) - 1 = n
      BY <1>1
    <2>2. f[n] \in SUBSET Places /\ f[n + 1] = Climb(a, f[n])
      <3>1. /\ f \in [0 .. K -> SUBSET Places]
            /\ \A m \in 1 .. K : f[m] = Climb(a, f[m - 1])
        BY <1>2 DEF Climbs
      <3>2. f[n + 1] = Climb(a, f[n])
        <4>1. f[n + 1] = Climb(a, f[(n + 1) - 1])
          BY <2>1, <3>1
        <4> QED BY <4>1, <2>1, Zenon
      <3>3. f[n] \in SUBSET Places
        BY <1>1, <3>1
      <3> QED BY <3>2, <3>3
    <2>3. Shape(a, i, f[n + 1], n + 1)
      BY <1>4, <2>1, <2>2, ClimbShape
    <2> QED BY <2>1, <2>3
  <1>5. Shape(a, i, s, K)
    <2> HIDE DEF G
    <2>1. \A n \in 0 .. K : n \in G
      BY <1>1, <1>3, <1>4, Counting
    <2>2. K \in G
      BY <1>1, <2>1
    <2> QED BY <2>2 DEF G
  <1>6. s \in SUBSET Places
    BY <1>1, <1>2 DEF Climbs
  <1> HIDE DEF s
  <1>7. Closed(a, s)
    <2>1. Cardinality(s \cap Things) <= K /\ Cardinality(s \cap Things) \in Nat
      BY FS_Subset, FS_CardinalityType DEF K
    <2> QED BY <1>1, <1>5, <2>1 DEF Shape
  <1>8. \A x, y \in s \ Things : x = y
    BY <1>5 DEF Shape
  <1> QED BY <1>2, <1>5, <1>6, <1>7, <1>8 DEF Shape, s

\* The parent, and what the parent is in.
LEMMA HoldersUnfold ==
    ASSUME NEW a \in [Items -> Places], NEW i \in Items
    PROVE  Holders(a, i) = {a[i]} \cup (IF a[i] \in Things THEN Holders(a, a[i]) ELSE {})
  <1> DEFINE s == Holders(a, i)
             b == a[i]
             z == {b} \cup (IF b \in Things THEN Holders(a, b) ELSE {})
  <1>1. /\ s \in SUBSET Places /\ b \in s /\ Closed(a, s)
        /\ \A X \in SUBSET Places : b \in X /\ Closed(a, X) => s \subseteq X
    BY HoldersIs
  <1>2. b \in Places
    OBVIOUS
  <1>3. CASE b \in Things
    <2>1. b \in Items
      BY <1>3 DEF Items
    <2>2. /\ Holders(a, b) \in SUBSET Places /\ a[b] \in Holders(a, b)
          /\ Closed(a, Holders(a, b))
          /\ \A X \in SUBSET Places : a[b] \in X /\ Closed(a, X) => Holders(a, b) \subseteq X
      BY <2>1, HoldersIs
    <2> HIDE DEF s, b
    <2>3. z \in SUBSET Places /\ b \in z /\ Closed(a, z)
      BY <1>2, <1>3, <2>2 DEF Closed
    <2>4. s \subseteq z
      BY <2>3, <1>1
    <2>5. a[b] \in s
      BY <1>1, <1>3 DEF Closed
    <2>6. Holders(a, b) \subseteq s
      BY <2>5, <2>2, <1>1
    <2>7. z = {b} \cup Holders(a, b)
      BY <1>3
    <2>8. s = z
      BY <2>4, <2>6, <2>7, <1>1
    <2> QED BY <2>8 DEF s, b
  <1>4. CASE b \notin Things
    <2>1. Closed(a, {b})
      BY <1>4 DEF Closed
    <2>2. s \subseteq {b}
      BY <2>1, <1>1, <1>2
    <2> QED BY <2>2, <1>1, <1>4
  <1> QED BY <1>3, <1>4

LEMMA HoldersThrough ==
    ASSUME NEW a \in [Items -> Places], NEW i \in Items, NEW c \in Things, c \in Holders(a, i)
    PROVE  Holders(a, c) \subseteq Holders(a, i)
  <1>1. Holders(a, i) \in SUBSET Places /\ Closed(a, Holders(a, i)) /\ c \in Items
    BY HoldersIs DEF Items
  <1>2. a[c] \in Holders(a, i)
    BY <1>1 DEF Closed
  <1> QED BY <1>1, <1>2, HoldersIs

\* Where an item is depends on the parents of what it is in, and on no others.
LEMMA HoldersSame ==
    ASSUME NEW a \in [Items -> Places], NEW b \in [Items -> Places], NEW i \in Items,
           b[i] = a[i], \A c \in Holders(a, i) \cap Things : b[c] = a[c]
    PROVE  Holders(b, i) = Holders(a, i)
  <1> DEFINE s == Holders(a, i)
             z == Holders(b, i)
  <1>1. /\ s \in SUBSET Places /\ a[i] \in s /\ Closed(a, s)
        /\ \A X \in SUBSET Places : a[i] \in X /\ Closed(a, X) => s \subseteq X
    BY HoldersIs
  <1>2. /\ z \in SUBSET Places /\ b[i] \in z /\ Closed(b, z)
        /\ \A X \in SUBSET Places : b[i] \in X /\ Closed(b, X) => z \subseteq X
    BY HoldersIs
  <1>3. \A c \in s \cap Things : b[c] = a[c]
    OBVIOUS
  <1> HIDE DEF s, z
  <1>4. Closed(b, s) /\ b[i] \in s
    BY <1>1, <1>3 DEF Closed
  <1>5. z \subseteq s
    BY <1>4, <1>1, <1>2
  <1>6. Closed(a, z) /\ a[i] \in z
    BY <1>2, <1>3, <1>5 DEF Closed
  <1>7. s \subseteq z
    BY <1>6, <1>1, <1>2
  <1>8. z = s
    BY <1>5, <1>7
  <1> QED BY <1>8 DEF s, z

-----------------------------------------------------------------------------
(* Nothing is inside itself.                                               *)

NoLoop(a) == \A c \in Things : ~Inside(a, c, c)

\* Where i may be put: not into itself, nor into what is in it.
Room(a, i, place) == place \in Things => place # i /\ ~Inside(a, place, i)

LEMMA PutElsewhere ==
    ASSUME NEW a \in [Items -> Places], NEW b \in [Items -> Places], NEW i \in Items,
           \A j \in Items \ {i} : b[j] = a[j],
           NEW t \in Items, t # i, ~Inside(a, t, i)
    PROVE  Holders(b, t) = Holders(a, t)
  <1>1. b[t] = a[t] /\ \A c \in Holders(a, t) \cap Things : b[c] = a[c]
    BY DEF Inside, Items
  <1> QED BY <1>1, HoldersSame

LEMMA PutNoLoop ==
    ASSUME NEW a \in [Items -> Places], NEW i \in Items, NEW place \in Places,
           NoLoop(a), Room(a, i, place)
    PROVE  NoLoop([a EXCEPT ![i] = place])
  <1> DEFINE b == [a EXCEPT ![i] = place]
  <1>1. b \in [Items -> Places] /\ \A j \in Items : b[j] = IF j = i THEN place ELSE a[j]
    OBVIOUS
  <1> HIDE DEF b
  <1>2. ASSUME NEW t \in Items, t # i, ~Inside(a, t, i) PROVE Holders(b, t) = Holders(a, t)
    BY <1>1, <1>2, PutElsewhere
  <1>3. i \in Things => i \notin Holders(b, i)
    <2>1. CASE place \in Things
      <3>1. place \in Items /\ Holders(b, place) = Holders(a, place)
        BY <2>1, <1>2 DEF Room, Items
      <3>2. i \notin Holders(a, place) /\ i # place
        BY <2>1 DEF Room, Inside
      <3>3. Holders(b, i) = {place} \cup Holders(b, place)
        BY <1>1, <2>1, HoldersUnfold
      <3> QED BY <3>1, <3>2, <3>3
    <2>2. CASE place \notin Things
      <3>1. Holders(b, i) = {place}
        BY <1>1, <2>2, HoldersUnfold
      <3> QED BY <3>1, <2>2
    <2> QED BY <2>1, <2>2
  <1>4. SUFFICES ASSUME NEW c \in Things, c \in Holders(b, c) PROVE FALSE
    BY DEF NoLoop, Inside, b
  <1>5. c \in Items /\ Things \subseteq Items
    BY DEF Items
  <1> DEFINE X == {x \in Holders(b, c) \cap Things : c \in Holders(b, x)}
  <1>6. \A x \in Things : c \in Holders(b, x) => b[x] \in Things /\ (c = b[x] \/ c \in Holders(b, b[x]))
    <2> SUFFICES ASSUME NEW x \in Things, c \in Holders(b, x)
                 PROVE  b[x] \in Things /\ (c = b[x] \/ c \in Holders(b, b[x]))
      OBVIOUS
    <2>1. Holders(b, x) = {b[x]} \cup (IF b[x] \in Things THEN Holders(b, b[x]) ELSE {})
      BY <1>1, <1>5, HoldersUnfold
    <2> QED BY <2>1
  <1>7. b[c] \in Holders(b, c) /\ Closed(b, Holders(b, c)) /\ Holders(b, c) \in SUBSET Places
    BY <1>1, <1>5, HoldersIs
  <1>8. b[c] \in X /\ Closed(b, X) /\ X \in SUBSET Places
    BY <1>4, <1>6, <1>7 DEF Closed
  <1>9. Holders(b, c) \subseteq X
    BY <1>1, <1>5, <1>8, HoldersIs
  <1> HIDE DEF X
  <1>10. CASE i \in Holders(b, c)
    <2>1. i \in Things /\ c \in Holders(b, i)
      BY <1>9, <1>10 DEF X
    <2>2. i \in Holders(b, i)
      BY <1>1, <1>10, <2>1, HoldersThrough
    <2> QED BY <2>1, <2>2, <1>3
  <1>11. CASE i \notin Holders(b, c)
    <2>1. c # i
      BY <1>4, <1>11
    <2>2. a[c] = b[c] /\ \A x \in Holders(b, c) \cap Things : a[x] = b[x]
      BY <2>1, <1>1, <1>5, <1>11
    <2>3. Holders(a, c) = Holders(b, c)
      BY <1>1, <1>5, <2>2, HoldersSame
    <2> QED BY <2>3, <1>4 DEF NoLoop, Inside
  <1> QED BY <1>10, <1>11

-----------------------------------------------------------------------------
(* Offers stay apart.                                                      *)

\* An offer is at hand, or lost.
Held(a, p, t) == Holders(a, t) \cap {p, Floor, Lost} # {}

\* The offers of the players that are not in TRADE_TRANSFER.
Apart(w, busy) ==
    \A p \in Players \ busy : w.item[p] # NoItem =>
        /\ Held(w.at, p, w.item[p])
        /\ \A q \in Players \ (busy \cup {p}) : w.item[q] # NoItem =>
              /\ w.item[p] # w.item[q]
              /\ ~Inside(w.at, w.item[p], w.item[q])

\* No item is anywhere else, but documents that nobody offers.
Stays(w, z) ==
    \A i \in Items : \/ z.at[i] = w.at[i]
                     \/ i \in Houses /\ \A p \in Players : z.item[p] # i

LEMMA StaysHolders ==
    ASSUME NEW w \in WorldType, NEW z \in WorldType, Stays(w, z),
           NEW i \in Items, i \in Things \/ \E p \in Players : z.item[p] = i
    PROVE  Holders(z.at, i) = Holders(w.at, i)
  <1>1. w.at \in [Items -> Places] /\ z.at \in [Items -> Places]
    BY DEF WorldType
  <1>2. \A c \in Things : c \in Items /\ z.at[c] = w.at[c]
    BY DEF Stays, Items
  <1>3. z.at[i] = w.at[i]
    BY DEF Stays
  <1> QED BY <1>1, <1>2, <1>3, HoldersSame

LEMMA StaysApart ==
    ASSUME NEW w \in WorldType, NEW z \in WorldType, Stays(w, z), NEW busy \in SUBSET Players,
           \A p \in Players \ busy : z.item[p] \in {w.item[p], NoItem},
           Apart(w, busy)
    PROVE  Apart(z, busy)
  <1> SUFFICES ASSUME NEW p \in Players \ busy, z.item[p] # NoItem
               PROVE  /\ Held(z.at, p, z.item[p])
                      /\ \A q \in Players \ (busy \cup {p}) : z.item[q] # NoItem =>
                            /\ z.item[p] # z.item[q]
                            /\ ~Inside(z.at, z.item[p], z.item[q])
    BY DEF Apart
  <1>1. z.item[p] = w.item[p] /\ z.item[p] \in Items
    BY DEF WorldType
  <1>2. Holders(z.at, z.item[p]) = Holders(w.at, z.item[p])
    BY <1>1, StaysHolders
  <1> QED BY <1>1, <1>2 DEF Apart, Held, Inside

LEMMA StaysNoLoop ==
    ASSUME NEW w \in WorldType, NEW z \in WorldType, Stays(w, z), NoLoop(w.at)
    PROVE  NoLoop(z.at)
  <1> SUFFICES ASSUME NEW c \in Things PROVE c \notin Holders(z.at, c)
    BY DEF NoLoop, Inside
  <1>1. Holders(z.at, c) = Holders(w.at, c)
    BY StaysHolders DEF Items
  <1> QED BY <1>1 DEF NoLoop, Inside

LEMMA CloseStays ==
    ASSUME NEW w, NEW busy \in SUBSET Players, Sound(w, busy), NEW ps \in SUBSET (Players \ busy)
    PROVE  /\ Stays(w, Close(w, ps))
           /\ \A p \in ps : Close(w, ps).item[p] = NoItem
  <1> DEFINE both == ps \cup ({w.partner[p] : p \in ps} \ {NoPlayer})
             S == Offered(w, both)
             a == Release(w, S)
             b == Discard(a, S)
             z == Reset(b, both)
  <1>0. Close(w, ps) = z
    BY DEF Close
  <1>1. w \in WorldType /\ Paired(w) /\ Listed(w, busy)
        /\ \A p \in busy : w.partner[p] \in busy \cup {NoPlayer}
    BY DEF Sound
  <1>2. both \in SUBSET Players /\ both \cap busy = {} /\ ps \subseteq both
    BY <1>1 DEF WorldType, Paired
  <1>3. S \in SUBSET Items /\ S = {w.item[p] : p \in both} \ {NoItem}
    BY <1>1, <1>2 DEF WorldType, Offered
  <1>4. \A p \in Players \ both : w.item[p] # NoItem => w.item[p] \notin S
    BY <1>1, <1>2, <1>3 DEF Listed, WorldType
  <1> HIDE DEF both, S
  <1>5. a \in WorldType /\ a.at = w.at /\ a.item = w.item
    <2>1. \A i \in Items : w.refs[i] = IF w.tradeItems[i] = NoPlayer THEN 0 ELSE 1
      BY <1>1 DEF Listed
    <2> QED BY <2>1, <1>1, <1>3, ReleaseGives
  <1> HIDE DEF a
  <1>6. /\ b \in WorldType
        /\ \A i \in Items : b.at[i] = IF i \in S \cap Houses THEN Nowhere ELSE a.at[i]
        /\ b.item = a.item
    BY <1>5, <1>3, DiscardGives
  <1> HIDE DEF b
  <1>7. z.at = b.at /\ \A p \in Players : z.item[p] = IF p \in both THEN NoItem ELSE b.item[p]
    BY <1>6, <1>2, ResetGives
  <1> HIDE DEF z
  <1>8. ASSUME NEW i \in Items, z.at[i] # w.at[i]
        PROVE  i \in Houses /\ \A p \in Players : z.item[p] # i
    <2>1. i \in S \cap Houses
      BY <1>8, <1>5, <1>6, <1>7
    <2>2. NoItem \notin Items
      BY DEF Items
    <2> QED BY <2>1, <2>2, <1>3, <1>4, <1>5, <1>6, <1>7
  <1> QED BY <1>0, <1>2, <1>7, <1>8 DEF Stays

\* What internalCloseTrade leaves of other trades is as it was.
LEMMA CloseApart ==
    ASSUME NEW w, NEW busy \in SUBSET Players, Sound(w, busy), NEW ps \in SUBSET (Players \ busy),
           Apart(w, busy), NoLoop(w.at)
    PROVE  Apart(Close(w, ps), busy) /\ NoLoop(Close(w, ps).at)
  <1>1. /\ Sound(Close(w, ps), busy)
        /\ \A p \in Players : Close(w, ps).item[p] \in {w.item[p], NoItem}
    BY CloseGives
  <1>2. w \in WorldType /\ Close(w, ps) \in WorldType
    BY <1>1 DEF Sound
  <1>3. Stays(w, Close(w, ps))
    BY CloseStays
  <1> QED BY <1>1, <1>2, <1>3, StaysApart, StaysNoLoop

LEMMA PlacesApart ==
    /\ \A x \in Places \cap Items : x \in Containers /\ x \in Things
    /\ \A p \in Players : p \in Places /\ p \notin Items /\ p \notin Things
    /\ Floor \in Places /\ Floor \notin Items /\ Floor \notin Things /\ Floor \notin Players
    /\ Lost \in Places /\ Lost \notin Items /\ Lost \notin Things /\ Lost \notin Players
    /\ Nowhere \in Places /\ Nowhere \notin Items /\ Nowhere \notin Things
    /\ Lost # Floor /\ Lost # Nowhere
    /\ Things \subseteq Items
  BY DEF Places, Items

\* What is with a player or on a tile is not lost, nor is what is put there.
LEMMA NotLost ==
    ASSUME NEW a \in [Items -> Places], NEW i \in Items,
           Holders(a, i) \cap (Players \cup {Floor}) # {}
    PROVE  ~Inside(a, i, Lost)
  <1>1. PICK e \in Players \cup {Floor} : e \in Holders(a, i)
    OBVIOUS
  <1>2. e \notin Things /\ e # Lost /\ Lost \notin Things
    BY PlacesApart
  <1>3. \A x, y \in Holders(a, i) \ Things : x = y
    BY HoldersIs
  <1> QED BY <1>1, <1>2, <1>3 DEF Inside

\* Whoever is near place is told what happens to what is put there.
Open(a, place) == place # Lost /\ (place \in Things => ~Inside(a, place, Lost))

LEMMA OpenElsewhere ==
    ASSUME NEW a \in [Items -> Places], NEW r \in Players \cup {Floor}, NEW place \in Places,
           place = r \/ (place \in Things /\ Inside(a, place, r))
    PROVE  Open(a, place)
  <1>1. r \notin Things /\ r # Lost /\ Lost \notin Things
    BY PlacesApart
  <1>2. ASSUME place \in Things PROVE ~Inside(a, place, Lost)
    <2>1. place \in Items /\ r \in Holders(a, place)
      BY <1>1, <1>2, PlacesApart DEF Inside
    <2> QED BY <2>1, NotLost
  <1> QED BY <1>1, <1>2 DEF Open

\* The hooks of a move notice every offer that goes with the item moved, ...
LEMMA RemovedSees ==
    ASSUME NEW w \in WorldType, NEW busy \in SUBSET Players, Apart(w, busy), NoLoop(w.at),
           NEW p \in Players \ busy, NEW i \in Items, NEW t \in Items, w.item[p] = t,
           t = i \/ Inside(w.at, t, i), ~Inside(w.at, i, Lost)
    PROVE  p \in Removed(w, i)
  <1> DEFINE a == w.at
             c == a[i]
  <1>1. a \in [Items -> Places] /\ c \in Places /\ t # NoItem
    BY DEF WorldType, Items
  <1>2. PICK e \in {p, Floor, Lost} : e \in Holders(a, t)
    BY <1>1 DEF Apart, Held
  <1>3. e \notin Things
    BY PlacesApart
  <1>4. /\ Holders(a, t) \in SUBSET Places
        /\ \A x, y \in Holders(a, t) \ Things : x = y
        /\ Holders(a, i) = {c} \cup (IF c \in Things THEN Holders(a, c) ELSE {})
        /\ c \in Holders(a, i)
    BY <1>1, HoldersIs, HoldersUnfold
  <1> HIDE DEF a, c
  <1>5. CASE t = i
    <2>1. c \in Players => p = c
      BY <1>2, <1>3, <1>4, <1>5, PlacesApart
    <2> QED BY <1>1, <1>5, <2>1 DEF Removed, Updated, Told, Touches, a, c
  <1>6. CASE i \in Holders(a, t)
    <2>1. i \in Things
      BY <1>4, <1>6, PlacesApart
    <2>2. Holders(a, i) \subseteq Holders(a, t)
      BY <1>1, <1>6, <2>1, HoldersThrough
    <2>3. c \in Holders(a, t)
      BY <1>4, <2>2
    <2>4. c \in Players => p = c
      BY <1>2, <1>3, <1>4, <2>3, PlacesApart
    <2>5. ASSUME c \in Containers PROVE a[t] # c
      <3>1. SUFFICES ASSUME a[t] = c PROVE FALSE
        OBVIOUS
      <3>2. Holders(a, t) = {c} \cup (IF c \in Things THEN Holders(a, c) ELSE {})
        BY <1>1, <3>1, HoldersUnfold
      <3>3. i \in Holders(a, i)
        BY <1>4, <1>6, <3>2
      <3> QED BY <2>1, <3>3 DEF NoLoop, Inside, a
    <2>6. IF c \in Containers THEN a[t] # c /\ Inside(a, t, c) ELSE Inside(a, t, i)
      BY <1>6, <2>3, <2>5 DEF Inside
    <2> QED BY <1>1, <2>4, <2>6 DEF Removed, Told, a, c
  <1> QED BY <1>5, <1>6 DEF Inside, a

\* ... and every offer the item is part of.
LEMMA UpdatedSees ==
    ASSUME NEW w \in WorldType, NEW p \in Players, NEW i \in Items, NEW t \in Items,
           w.item[p] = t, Inside(w.at, i, t), ~Inside(w.at, i, Lost)
    PROVE  p \in Updated(w, i) /\ w.at[i] \in Containers
  <1> DEFINE a == w.at
  <1>1. a \in [Items -> Places] /\ a[i] \in Places /\ t # NoItem
    BY DEF WorldType, Items
  <1>2. /\ Holders(a, i) \in SUBSET Places
        /\ Holders(a, i) = {a[i]} \cup (IF a[i] \in Things THEN Holders(a, a[i]) ELSE {})
    BY <1>1, HoldersIs, HoldersUnfold
  <1>3. t \in Holders(a, i)
    BY DEF Inside
  <1> HIDE DEF a
  <1>4. a[i] \in Containers
    BY <1>1, <1>2, <1>3, PlacesApart
  <1>5. a[i] \notin Players
    BY <1>4, PlacesApart
  <1> QED BY <1>1, <1>4, <1>5 DEF Updated, Told, Touches, a

\* Nobody's offer, but those of busy, is i or has i in it or lies in i: of what is
\* lost nobody would be told.
Clear(w, i, busy) ==
    \A p \in Players \ busy, t \in Items : w.item[p] = t =>
        t # i /\ ~Inside(w.at, t, i) /\ ~Inside(w.at, i, t)

\* Nobody's offer, but those of busy, has anything to do with the item that moves.
HandsOff(w, z, i, busy) ==
    \A p \in Players \ busy, t \in Items : z.item[p] = t =>
        t # i /\ ~Inside(w.at, i, t) /\ ~Inside(z.at, i, t)

\* Where things are after a move, but for documents that vanish with their trade.
Moved(w, z, i, place) ==
    \A j \in Items : \/ z.at[j] = IF j = i THEN place ELSE w.at[j]
                     \/ j \in Houses /\ \A p \in Players : z.item[p] # j

LEMMA MoveApart ==
    ASSUME NEW w, NEW busy \in SUBSET Players, Sound(w, busy), NEW i \in Items, NEW place \in Places,
           i \in Things \/ \E p \in busy : w.item[p] = i,
           Apart(w, busy), NoLoop(w.at), Room(w.at, i, place), Open(w.at, place),
           Inside(w.at, i, Lost) => Clear(w, i, busy)
    PROVE  /\ Apart(MoveTo(w, i, place, busy), busy)
           /\ NoLoop(MoveTo(w, i, place, busy).at)
           /\ HandsOff(w, MoveTo(w, i, place, busy), i, busy)
           /\ Moved(w, MoveTo(w, i, place, busy), i, place)
  <1> DEFINE taken == Close(w, Removed(w, i) \ busy)
             put == [taken EXCEPT !.at[i] = place]
             z == Close(put, Added(put, i) \ busy)
  <1>0. MoveTo(w, i, place, busy) = z
    BY DEF MoveTo
  <1>1. Removed(w, i) \ busy \in SUBSET (Players \ busy)
    BY DEF Removed, Updated
  <1>2. Sound(taken, busy) /\ Ends(w, taken, busy)
    BY <1>1, CloseGives DEF Ends
  <1>3. /\ Stays(w, taken) /\ \A p \in Removed(w, i) \ busy : taken.item[p] = NoItem
        /\ Apart(taken, busy) /\ NoLoop(taken.at)
    BY <1>1, CloseStays, CloseApart
  <1> HIDE DEF taken
  <1>4. w \in WorldType /\ taken \in WorldType
    BY <1>2 DEF Sound
  <1>5. /\ put \in WorldType
        /\ \A j \in Items : put.at[j] = IF j = i THEN place ELSE taken.at[j]
        /\ put.state = taken.state
        /\ put.partner = taken.partner
        /\ put.item = taken.item
        /\ put.tradeItems = taken.tradeItems
        /\ put.refs = taken.refs
        /\ put.at = [taken.at EXCEPT ![i] = place]
    BY <1>4 DEF WorldType
  <1> HIDE DEF put
  <1>6. Sound(put, busy)
    <2>1. Paired(put)
      BY <1>2, <1>5 DEF Sound, Paired
    <2>2. Listed(put, busy)
      BY <1>2, <1>5 DEF Sound, Listed
    <2>3. Documents(put, busy)
      <3>1. Documents(taken, busy)
        BY <1>2 DEF Sound
      <3>2. i \in Houses => \E p \in busy : taken.item[p] = i
        BY <1>2 DEF Ends
      <3>3. Houses \subseteq Items
        BY DEF Items
      <3> QED BY <3>1, <3>2, <3>3, <1>5 DEF Documents
    <2>4. \A p \in busy : put.partner[p] \in busy \cup {NoPlayer}
      BY <1>2, <1>5 DEF Sound
    <2> QED BY <1>5, <2>1, <2>2, <2>3, <2>4 DEF Sound
  <1>r. /\ place \in Things => Holders(taken.at, place) = Holders(w.at, place)
        /\ Room(taken.at, i, place)
    <2>1. place \in Things => Holders(taken.at, place) = Holders(w.at, place)
      BY <1>3, <1>4, StaysHolders, PlacesApart
    <2> QED BY <2>1 DEF Room, Inside
  <1>7. NoLoop(put.at)
    <2>1. taken.at \in [Items -> Places]
      BY <1>4 DEF WorldType
    <2> QED BY <2>1, <1>r, <1>3, <1>5, PutNoLoop
  <1>o. ~Inside(put.at, i, Lost)
    <2>1. /\ taken.at \in [Items -> Places] /\ put.at \in [Items -> Places]
          /\ \A j \in Items \ {i} : put.at[j] = taken.at[j]
          /\ put.at[i] = place
      BY <1>4, <1>5 DEF WorldType
    <2>2. Holders(put.at, i) = {place} \cup (IF place \in Things THEN Holders(put.at, place) ELSE {})
      BY <2>1, HoldersUnfold
    <2>3. ASSUME place \in Things PROVE Holders(put.at, place) = Holders(w.at, place)
      <3>1. place \in Items /\ place # i /\ ~Inside(taken.at, place, i)
        BY <2>3, <1>r, PlacesApart DEF Room
      <3>2. Holders(put.at, place) = Holders(taken.at, place)
        BY <2>1, <3>1, PutElsewhere
      <3> QED BY <3>2, <2>3, <1>r
    <2> QED BY <2>2, <2>3 DEF Open, Inside
  <1>8. ASSUME NEW p \in Players \ busy, NEW t \in Items, taken.item[p] = t
        PROVE  /\ t # i /\ ~Inside(w.at, t, i) /\ ~Inside(w.at, i, t)
               /\ Holders(put.at, t) = Holders(taken.at, t)
    <2>1. w.item[p] = t /\ t # NoItem
      BY <1>2, <1>8 DEF Ends, Items
    <2>2. p \notin Removed(w, i)
      BY <1>3, <1>8, <2>1
    <2>3. t # i /\ ~Inside(w.at, t, i)
      BY <1>4, <2>1, <2>2, RemovedSees DEF Clear
    <2>4. ~Inside(w.at, i, t)
      BY <1>4, <2>1, <2>2, UpdatedSees DEF Removed, Clear
    <2>5. Holders(taken.at, t) = Holders(w.at, t)
      BY <1>3, <1>4, <1>8, StaysHolders
    <2>6. ~Inside(taken.at, t, i)
      BY <2>3, <2>5 DEF Inside
    <2>7. /\ taken.at \in [Items -> Places] /\ put.at \in [Items -> Places]
          /\ \A j \in Items \ {i} : put.at[j] = taken.at[j]
      BY <1>4, <1>5 DEF WorldType
    <2>8. Holders(put.at, t) = Holders(taken.at, t)
      BY <2>3, <2>6, <2>7, PutElsewhere
    <2> QED BY <2>3, <2>4, <2>8
  <1>9. Apart(put, busy)
    <2> SUFFICES ASSUME NEW p \in Players \ busy, put.item[p] # NoItem
                 PROVE  /\ Held(put.at, p, put.item[p])
                        /\ \A q \in Players \ (busy \cup {p}) : put.item[q] # NoItem =>
                              /\ put.item[p] # put.item[q]
                              /\ ~Inside(put.at, put.item[p], put.item[q])
      BY DEF Apart
    <2>1. put.item[p] \in Items /\ put.item = taken.item
      BY <1>5 DEF WorldType
    <2>2. Holders(put.at, taken.item[p]) = Holders(taken.at, taken.item[p])
      BY <2>1, <1>8
    <2> QED BY <2>1, <2>2, <1>3 DEF Apart, Held, Inside
  <1>10. Added(put, i) \ busy \in SUBSET (Players \ busy)
    BY DEF Added, Updated
  <1>11. /\ Sound(z, busy) /\ Ends(put, z, busy)
         /\ Stays(put, z) /\ \A p \in Added(put, i) \ busy : z.item[p] = NoItem
         /\ Apart(z, busy) /\ NoLoop(z.at)
    BY <1>6, <1>7, <1>9, <1>10, CloseGives, CloseStays, CloseApart DEF Ends
  <1> HIDE DEF z
  <1>12. HandsOff(w, z, i, busy)
    <2> SUFFICES ASSUME NEW p \in Players \ busy, NEW t \in Items, z.item[p] = t
                 PROVE  t # i /\ ~Inside(w.at, i, t) /\ ~Inside(z.at, i, t)
      BY DEF HandsOff
    <2>1. t # NoItem /\ put.item[p] = t /\ taken.item[p] = t
      BY <1>5, <1>11 DEF Ends, Items
    <2>2. t # i /\ ~Inside(w.at, i, t)
      BY <1>8, <2>1
    <2>3. p \notin Added(put, i)
      BY <1>11, <2>1
    <2>4. ~Inside(put.at, i, t)
      BY <1>5, <1>o, <2>1, <2>3, UpdatedSees DEF Added
    <2>5. Holders(z.at, i) = Holders(put.at, i)
      <3>1. z \in WorldType
        BY <1>11 DEF Sound
      <3>2. i \in Things \/ \E r \in Players : z.item[r] = i
        BY <1>2, <1>5, <1>11 DEF Ends
      <3> QED BY <1>5, <1>11, <3>1, <3>2, StaysHolders
    <2> QED BY <2>2, <2>4, <2>5 DEF Inside
  <1>13. Moved(w, z, i, place)
    <2> SUFFICES ASSUME NEW j \in Items
                 PROVE  \/ z.at[j] = IF j = i THEN place ELSE w.at[j]
                        \/ j \in Houses /\ \A p \in Players : z.item[p] # j
      BY DEF Moved
    <2>1. \A p \in Players : z.item[p] \in {taken.item[p], NoItem} /\ j # NoItem
      BY <1>5, <1>11 DEF Ends, Items
    <2>2. taken.at[j] = w.at[j] \/ (j \in Houses /\ \A p \in Players : taken.item[p] # j)
      BY <1>3 DEF Stays
    <2>3. z.at[j] = put.at[j] \/ (j \in Houses /\ \A p \in Players : z.item[p] # j)
      BY <1>11 DEF Stays
    <2> QED BY <2>1, <2>2, <2>3, <1>5
  <1> QED BY <1>0, <1>11, <1>12, <1>13

LEMMA MovedHolders ==
    ASSUME NEW w \in WorldType, NEW z \in WorldType, NEW i \in Items, NEW place \in Places,
           Moved(w, z, i, place), NEW k \in Items, k # i, ~Inside(w.at, k, i),
           k \in Things \/ \E p \in Players : z.item[p] = k
    PROVE  Holders(z.at, k) = Holders(w.at, k)
  <1>1. w.at \in [Items -> Places] /\ z.at \in [Items -> Places]
    BY DEF WorldType
  <1>2. \A c \in Things : c \in Items /\ c \notin Houses
    BY DEF Items
  <1>3. z.at[k] = w.at[k]
    BY <1>2 DEF Moved
  <1>4. \A c \in Holders(w.at, k) \cap Things : z.at[c] = w.at[c]
    BY <1>2 DEF Moved, Inside
  <1> QED BY <1>1, <1>3, <1>4, HoldersSame

\* What lies with another player, or is that player, is not in an item that ends elsewhere.
LEMMA RoomElsewhere ==
    ASSUME NEW a \in [Items -> Places], NEW i \in Items, NEW r \in Players, NEW place \in Places,
           place = r \/ Inside(a, place, r),
           NEW e \in Holders(a, i), e \notin Things, e # r
    PROVE  Room(a, i, place)
  <1> SUFFICES ASSUME place \in Things PROVE place # i /\ i \notin Holders(a, place)
    BY DEF Room, Inside
  <1>1. place \in Items /\ r \notin Things /\ place # r
    BY PlacesApart
  <1>2. r \in Holders(a, place)
    BY <1>1 DEF Inside
  <1>3. /\ Holders(a, place) \in SUBSET Places
        /\ \A x, y \in Holders(a, place) \ Things : x = y
    BY <1>1, HoldersIs
  <1>4. place # i
    BY <1>1, <1>2, <1>3
  <1>5. ASSUME i \in Holders(a, place) PROVE FALSE
    <2>1. i \in Things
      BY <1>3, <1>5, PlacesApart
    <2>2. e \in Holders(a, place)
      BY <1>1, <1>5, <2>1, HoldersThrough
    <2> QED BY <1>1, <1>2, <1>3, <2>2
  <1> QED BY <1>4, <1>5

LEMMA FinishApart ==
    ASSUME NEW x, NEW p \in Players, NEW q \in Players, Sound(x, {p, q}),
           NEW S, S = Offered(x, {p, q}), Apart(x, {p, q}), NoLoop(x.at)
    PROVE  /\ Apart(Reset(Discard(x, S), {p, q}), {})
           /\ NoLoop(Reset(Discard(x, S), {p, q}).at)
           /\ Stays(x, Reset(Discard(x, S), {p, q}))
           /\ \A r \in {p, q} : Reset(Discard(x, S), {p, q}).item[r] = NoItem
  <1> DEFINE b == Discard(x, S)
             z == Reset(b, {p, q})
             busy == {p, q}
  <1>1. x \in WorldType /\ Listed(x, busy)
    BY DEF Sound
  <1>2. S \in SUBSET Items /\ S = {x.item[p], x.item[q]} \ {NoItem}
    BY <1>1 DEF WorldType, Offered
  <1>3. /\ b \in WorldType
        /\ \A i \in Items : b.at[i] = IF i \in S \cap Houses THEN Nowhere ELSE x.at[i]
        /\ b.item = x.item
    BY <1>1, <1>2, DiscardGives
  <1> HIDE DEF b
  <1>4. /\ z \in WorldType
        /\ z.at = b.at
        /\ \A r \in Players : z.item[r] = IF r \in busy THEN NoItem ELSE x.item[r]
    <2>1. busy \in SUBSET Players
      OBVIOUS
    <2> QED BY <2>1, <1>3, ResetGives
  <1> HIDE DEF z
  <1>5. Stays(x, z)
    <2> SUFFICES ASSUME NEW i \in Items, z.at[i] # x.at[i], NEW r \in Players, z.item[r] = i
                 PROVE  FALSE
      <3>1. \A i \in Items : z.at[i] # x.at[i] => i \in Houses
        BY <1>3, <1>4
      <3> QED BY <3>1 DEF Stays
    <2>1. i \in S /\ i # NoItem
      BY <1>3, <1>4 DEF Items
    <2>2. r \in Players \ busy /\ x.item[r] = i
      BY <1>4, <2>1
    <2>3. x.tradeItems[i] = r
      BY <1>1, <2>2 DEF Listed
    <2>4. x.tradeItems[i] = NoPlayer
      BY <1>1, <1>2, <2>1 DEF Listed
    <2> QED BY <2>3, <2>4
  <1>6. Apart(z, busy)
    <2>1. busy \in SUBSET Players /\ \A r \in Players \ busy : z.item[r] \in {x.item[r], NoItem}
      BY <1>4
    <2> HIDE DEF busy
    <2>2. Apart(x, busy)
      BY DEF busy
    <2> QED BY <1>1, <1>4, <1>5, <2>1, <2>2, StaysApart
  <1>7. Apart(z, {})
    BY <1>4, <1>6 DEF Apart
  <1>8. NoLoop(z.at)
    BY <1>1, <1>4, <1>5, StaysNoLoop
  <1> QED BY <1>4, <1>5, <1>7, <1>8 DEF z, b

-----------------------------------------------------------------------------
(* The strengthening of OffersApart, and its steps.                        *)

AInv == Apart(World, {}) /\ NoLoop(at)

\* An offer that still stands has not been touched.
Steady ==
    \A p \in Players : tradeItem[p] # NoItem /\ tradeItem'[p] = tradeItem[p] =>
        Untouched(tradeItem[p]) \/ IsLost(tradeItem[p])

LEMMA WorldIs ==
    ASSUME IInv
    PROVE  /\ World \in WorldType /\ Sound(World, {})
           /\ World.at = at /\ World.item = tradeItem /\ World.partner = tradePartner
           /\ World.tradeItems = tradeItems
           /\ at \in [Items -> Places] /\ tradeItem \in [Players -> Items \cup {NoItem}]
  BY DEF IInv, Sound, World, TypeOK

LEMMA BecomeApart ==
    ASSUME NEW z \in WorldType, Become(z), Apart(z, {}), NoLoop(z.at)
    PROVE  AInv' /\ at' = z.at /\ tradeItem' = z.item
  <1>1. World' = z
    BY DEF World, Become, WorldType
  <1>2. at' = z.at /\ tradeItem' = z.item
    BY DEF Become
  <1>3. Apart(World, {})'
    <2>1. Apart(World', {})
      BY <1>1
    <2> QED BY <2>1
  <1>4. NoLoop(at)'
    <2>1. NoLoop(at')
      BY <1>2
    <2> QED BY <2>1
  <1> QED BY <1>2, <1>3, <1>4 DEF AInv

LEMMA ClosingApart ==
    ASSUME IInv, AInv, NEW ps \in SUBSET Players, Become(Close(World, ps))
    PROVE  /\ AInv'
           /\ \A i \in Things : at'[i] = at[i] /\ Holders(at', i) = Holders(at, i)
           /\ \A p \in Players : tradeItem'[p] \in {tradeItem[p], NoItem}
           /\ \A p \in ps : tradeItem'[p] = NoItem
  <1> DEFINE z == Close(World, ps)
  <1>1. World \in WorldType /\ Sound(World, {}) /\ World.at = at /\ World.item = tradeItem
    BY WorldIs
  <1>2. /\ Sound(z, {})
        /\ \A p \in Players : z.item[p] \in {tradeItem[p], NoItem}
    BY <1>1, CloseGives
  <1>3. Stays(World, z) /\ \A p \in ps : z.item[p] = NoItem
    BY <1>1, CloseStays
  <1>4. Apart(z, {}) /\ NoLoop(z.at)
    BY <1>1, CloseApart DEF AInv
  <1>5. Become(z)
    OBVIOUS
  <1> HIDE DEF z
  <1>6. z \in WorldType
    BY <1>2 DEF Sound
  <1>7. AInv' /\ at' = z.at /\ tradeItem' = z.item
    BY <1>4, <1>5, <1>6, BecomeApart
  <1>8. \A i \in Things : z.at[i] = at[i] /\ Holders(z.at, i) = Holders(at, i)
    BY <1>1, <1>3, <1>6, StaysHolders DEF Stays, Items
  <1> QED BY <1>2, <1>3, <1>7, <1>8

LEMMA ClosingSteady ==
    ASSUME IInv, AInv, NEW ps \in SUBSET Players, Become(Close(World, ps)), stack' = stack
    PROVE  AInv' /\ Steady
  BY ClosingApart DEF Steady, Untouched

LEMMA MovingSteady ==
    ASSUME IInv, AInv, NEW i \in Things, NEW place \in Places, Room(at, i, place),
           Open(at, place), ~Inside(at, i, Lost), Become(MoveTo(World, i, place, {})), stack' = stack
    PROVE  AInv' /\ Steady
  <1> DEFINE z == MoveTo(World, i, place, {})
  <1>1. /\ World \in WorldType /\ Sound(World, {}) /\ World.at = at /\ World.item = tradeItem
        /\ tradeItem \in [Players -> Items \cup {NoItem}]
        /\ i \in Items
    BY WorldIs, PlacesApart
  <1>2. Sound(z, {})
    BY <1>1, MoveGives
  <1>3. /\ Apart(z, {}) /\ NoLoop(z.at)
        /\ HandsOff(World, z, i, {}) /\ Moved(World, z, i, place)
    BY <1>1, MoveApart DEF AInv
  <1>4. Become(z)
    OBVIOUS
  <1> HIDE DEF z
  <1>5. AInv' /\ at' = z.at /\ tradeItem' = z.item
    BY <1>2, <1>3, <1>4, BecomeApart DEF Sound
  <1>6. Steady
    <2> SUFFICES ASSUME NEW p \in Players, tradeItem[p] # NoItem, tradeItem'[p] = tradeItem[p],
                        NEW k \in Things,
                        \/ k = tradeItem[p]
                        \/ Inside(at, k, tradeItem[p])
                        \/ Inside(at', k, tradeItem[p])
                 PROVE  at'[k] = at[k]
      BY DEF Steady, Untouched
    <2>1. tradeItem[p] \in Items
      BY <1>1
    <2>2. k # i
      BY <1>1, <1>3, <1>5, <2>1 DEF HandsOff
    <2>3. k \in Items /\ k \notin Houses
      BY DEF Items
    <2> QED BY <1>1, <1>3, <1>5, <2>2, <2>3 DEF Moved
  <1> QED BY <1>5, <1>6

\* A stack that grows or shrinks is in no offer that still stands.
LEMMA ChangeSteady ==
    ASSUME IInv, AInv, NEW i \in Things, Change(i)
    PROVE  AInv' /\ Steady
  <1>1. PICK ps \in {Updated(World, i), Removed(World, i)} : Become(Close(World, ps))
    BY DEF Change
  <1>2. ps \in SUBSET Players /\ Updated(World, i) \subseteq ps
    BY DEF Removed, Updated
  <1>3. Become(Close(World, ps))
    BY <1>1
  <1>4. /\ AInv'
        /\ \A k \in Things : at'[k] = at[k] /\ Holders(at', k) = Holders(at, k)
        /\ \A p \in ps : tradeItem'[p] = NoItem
    BY <1>2, <1>3, ClosingApart
  <1>5. /\ World \in WorldType /\ World.at = at /\ World.item = tradeItem
        /\ at \in [Items -> Places] /\ tradeItem \in [Players -> Items \cup {NoItem}]
        /\ i \in Items
    BY WorldIs, PlacesApart
  <1>6. ~Inside(at, i, Lost)
    BY <1>5, NotLost DEF Change, InWorld
  <1>7. Steady
    <2> SUFFICES ASSUME NEW p \in Players, tradeItem[p] # NoItem, tradeItem'[p] = tradeItem[p]
                 PROVE  Untouched(tradeItem[p])
      BY DEF Steady
    <2> DEFINE t == tradeItem[p]
    <2>1. t \in Items
      BY <1>5
    <2>2. p \notin Updated(World, i)
      BY <1>2, <1>4
    <2>3. ~Inside(at, i, t)
      BY <1>5, <1>6, <2>1, <2>2, UpdatedSees
    <2>4. i # t
      <3>1. SUFFICES ASSUME i = t PROVE FALSE
        OBVIOUS
      <3>2. PICK e \in {p, Floor, Lost} : e \in Holders(at, i)
        BY <1>5, <3>1 DEF AInv, Apart, Held
      <3>3. Holders(at, i) = {at[i]} \cup (IF at[i] \in Things THEN Holders(at, at[i]) ELSE {})
        BY <1>5, HoldersUnfold
      <3>4. at[i] \in Players => p = at[i]
        BY <3>2, <3>3, PlacesApart
      <3> QED BY <1>5, <1>6, <2>1, <2>2, <3>1, <3>4 DEF Updated, Told, Touches
    <2>5. \A k \in Stacks : k # i => stack'[k] = stack[k]
      BY DEF Change
    <2> HIDE DEF t
    <2>6. Untouched(t)
      BY <1>4, <2>3, <2>4, <2>5 DEF Untouched, Inside
    <2> QED BY <2>6 DEF t
  <1> QED BY <1>4, <1>7

-----------------------------------------------------------------------------
(* What is left where a container was replaced.                            *)

\* What was in i goes: it is d's, with all that is in it, and nothing else is.
LEMMA EmptiedHolders ==
    ASSUME NEW a \in [Items -> Places], NEW b \in [Items -> Places], NEW i \in Things,
           NEW d \in Places \ Things, NoLoop(a),
           \A k \in Items : b[k] = IF k \in Things /\ a[k] = i THEN d ELSE a[k],
           NEW t \in Items
    PROVE  /\ Holders(b, t) \subseteq Holders(a, t) \cup {d}
           /\ ~Inside(a, t, i) => Holders(b, t) = Holders(a, t)
           /\ Inside(a, t, i) => (d \in Holders(b, t)
                                \/ (t \notin Things /\ Holders(b, t) = Holders(a, t)))
  <1>1. i \in Items /\ Things \subseteq Items
    BY PlacesApart
  <1>2. /\ Holders(a, t) \in SUBSET Places /\ a[t] \in Holders(a, t) /\ Closed(a, Holders(a, t))
        /\ \A X \in SUBSET Places : a[t] \in X /\ Closed(a, X) => Holders(a, t) \subseteq X
    BY HoldersIs
  <1>3. /\ Holders(b, t) \in SUBSET Places /\ b[t] \in Holders(b, t) /\ Closed(b, Holders(b, t))
        /\ \A X \in SUBSET Places : b[t] \in X /\ Closed(b, X) => Holders(b, t) \subseteq X
    BY HoldersIs
  <1>4. Holders(b, t) \subseteq Holders(a, t) \cup {d}
    <2> DEFINE X == Holders(a, t) \cup {d}
    <2>1. X \in SUBSET Places /\ b[t] \in X
      BY <1>2
    <2>2. Closed(b, X)
      BY <1>1, <1>2 DEF Closed
    <2> QED BY <2>1, <2>2, <1>3
  <1>5. ASSUME ~Inside(a, t, i) PROVE Holders(b, t) = Holders(a, t)
    <2>1. b[t] = a[t] /\ \A c \in Holders(a, t) \cap Things : b[c] = a[c]
      BY <1>1, <1>2, <1>5 DEF Closed, Inside
    <2> QED BY <2>1, HoldersSame
  <1>6. ASSUME Inside(a, t, i), d \notin Holders(b, t)
        PROVE  t \notin Things /\ Holders(b, t) = Holders(a, t)
    <2>1. b[t] = a[t] /\ \A c \in Holders(b, t) \cap Things : a[c] = b[c] /\ a[c] # i
      BY <1>1, <1>3, <1>6 DEF Closed
    <2>2. Holders(b, t) = Holders(a, t)
      BY <2>1, HoldersSame
    <2>3. ASSUME t \in Things PROVE FALSE
      <3> DEFINE X == Holders(a, t) \ {i}
      <3>1. a[t] # i
        BY <1>3, <1>6, <2>3
      <3>2. X \in SUBSET Places /\ a[t] \in X /\ Closed(a, X)
        BY <1>2, <2>1, <2>2, <3>1 DEF Closed
      <3> HIDE DEF X
      <3>3. Holders(a, t) \subseteq X
        BY <3>2, <1>2
      <3> QED BY <3>3, <1>6 DEF X, Inside
    <2> QED BY <2>2, <2>3
  <1> QED BY <1>4, <1>5, <1>6

\* The hooks of a replacement notice the same offers, but for what is in a
\* container that is in a container.
LEMMA ReplacedSees ==
    ASSUME NEW w \in WorldType, Apart(w, {}), NoLoop(w.at), NEW i \in Things,
           ~Inside(w.at, i, Lost), NEW p \in Players, NEW t \in Items, w.item[p] = t,
           p \notin Replaced(w, i)
    PROVE  t # i /\ ~Inside(w.at, i, t) /\ (Inside(w.at, t, i) => w.at[i] \in Containers)
  <1>1. i \in Items /\ w.at \in [Items -> Places] /\ t # NoItem
    BY PlacesApart DEF WorldType, Items
  <1>2. CASE w.at[i] \notin Containers
    <2>1. p \notin Removed(w, i) /\ p \notin Updated(w, i)
      BY <1>2 DEF Replaced, Removed
    <2>2. t # i /\ ~Inside(w.at, t, i)
      BY <1>1, <2>1, RemovedSees
    <2>3. ~Inside(w.at, i, t)
      BY <1>1, <2>1, UpdatedSees
    <2> QED BY <2>2, <2>3
  <1>3. CASE w.at[i] \in Containers
    <2> DEFINE b == Emptied(w.at, i, Lost)
               v == [w EXCEPT !.at = b]
    <2>1. Lost \in Places \ Things
      BY PlacesApart
    <2>2. /\ b \in [Items -> Places]
          /\ \A k \in Items : b[k] = IF k \in Things /\ w.at[k] = i THEN Lost ELSE w.at[k]
      BY <1>1, <2>1 DEF Emptied
    <2>3. p \notin Updated(v, i)
      BY <1>3 DEF Replaced, Removed
    <2> HIDE DEF b
    <2>4. v \in WorldType /\ v.at = b /\ v.item = w.item
      BY <2>2 DEF WorldType
    <2> HIDE DEF v
    <2>5. ~Inside(w.at, i, i)
      BY DEF NoLoop
    <2>6. Holders(b, i) = Holders(w.at, i)
      BY <1>1, <2>1, <2>2, <2>5, EmptiedHolders
    <2>7. b[i] = w.at[i]
      <3>1. w.at[i] # i
        BY <1>1, <2>5, HoldersIs DEF Inside
      <3> QED BY <1>1, <2>2, <3>1
    <2>8. ~Inside(v.at, i, Lost)
      BY <2>4, <2>6 DEF Inside
    <2>9. ~Inside(w.at, i, t)
      <3>1. ~Inside(v.at, i, t)
        BY <1>1, <2>3, <2>4, <2>8, UpdatedSees
      <3> QED BY <3>1, <2>4, <2>6 DEF Inside
    <2>10. t # i
      <3>1. w.at[i] \notin Players
        BY <1>3, PlacesApart
      <3> QED BY <1>1, <2>3, <2>4, <2>7, <2>8, <3>1 DEF Updated, Told, Touches
    <2> QED BY <1>3, <2>9, <2>10
  <1> QED BY <1>2, <1>3

LEMMA ReplaceSteady ==
    ASSUME IInv, AInv, NEW i \in Things, Replace(i)
    PROVE  AInv' /\ Steady
  <1> DEFINE ps == Replaced(World, i)
             closed == Close(World, ps)
             d == Dump(i)
  <1>1. /\ World \in WorldType /\ Sound(World, {}) /\ World.at = at /\ World.item = tradeItem
        /\ at \in [Items -> Places] /\ tradeItem \in [Players -> Items \cup {NoItem}]
        /\ i \in Items /\ Things \subseteq Items /\ \A k \in Things : k \notin Houses
        /\ Apart(World, {}) /\ NoLoop(at)
    BY WorldIs, PlacesApart DEF AInv
  <1>2. ps \in SUBSET Players /\ \E z : Become(z) /\ Gone(closed, z, i, d)
    BY ReplaceIs
  <1>3. PICK z : Become(z) /\ Gone(closed, z, i, d)
    BY <1>2
  <1>4. d \in Places \ Things /\ d \notin Items /\ (at[i] \in Containers => d = Lost)
    BY PlacesApart DEF Dump
  <1>5. PICK e \in Players \cup {Floor} : e \in Holders(at, i)
    BY DEF Replace, InWorld
  <1>6. ~Inside(at, i, Lost)
    BY <1>1, <1>5, NotLost
  <1>7. /\ Sound(closed, {}) /\ Stays(World, closed)
        /\ \A p \in ps : closed.item[p] = NoItem
        /\ \A p \in Players : closed.item[p] \in {tradeItem[p], NoItem}
        /\ Apart(closed, {}) /\ NoLoop(closed.at)
    BY <1>1, <1>2, CloseGives, CloseStays, CloseApart
  <1> HIDE DEF closed, d
  <1>8. closed \in WorldType /\ closed.at \in [Items -> Places]
    BY <1>7 DEF Sound, WorldType
  <1>9. \A k \in Things : closed.at[k] = at[k] /\ Holders(closed.at, k) = Holders(at, k)
    BY <1>1, <1>7, <1>8, StaysHolders DEF Stays
  <1>10. /\ Sound(z, {}) /\ z.item = closed.item /\ z.at \in [Items -> Places]
         /\ \A k \in Items : z.at[k] = IF k \in Things /\ closed.at[k] = i
                                       THEN d ELSE closed.at[k]
    BY <1>1, <1>3, <1>4, <1>7, GoneGives
  <1>11. \A k \in Items :
            /\ Holders(z.at, k) \subseteq Holders(closed.at, k) \cup {d}
            /\ ~Inside(closed.at, k, i) => Holders(z.at, k) = Holders(closed.at, k)
            /\ Inside(closed.at, k, i) =>
                  d \in Holders(z.at, k) \/ (k \notin Things /\ Holders(z.at, k) = Holders(closed.at, k))
    BY <1>4, <1>7, <1>8, <1>10, EmptiedHolders
  <1>12. ASSUME NEW p \in Players, z.item[p] # NoItem
         PROVE  /\ closed.item[p] = z.item[p] /\ tradeItem[p] = z.item[p] /\ z.item[p] \in Items
                /\ Holders(closed.at, z.item[p]) = Holders(at, z.item[p])
                /\ z.item[p] # i /\ ~Inside(at, i, z.item[p])
                /\ Inside(at, z.item[p], i) => d = Lost
    <2>1. closed.item[p] = z.item[p] /\ tradeItem[p] = z.item[p] /\ z.item[p] \in Items
      BY <1>1, <1>7, <1>10, <1>12
    <2>2. p \notin ps
      BY <1>7, <1>12, <2>1
    <2>3. Holders(closed.at, z.item[p]) = Holders(at, z.item[p])
      BY <1>1, <1>7, <1>8, <2>1, StaysHolders
    <2> QED BY <1>1, <1>4, <1>6, <2>1, <2>2, <2>3, ReplacedSees
  <1>13. Apart(z, {})
    <2> SUFFICES ASSUME NEW p \in Players, z.item[p] # NoItem
                 PROVE  /\ Held(z.at, p, z.item[p])
                        /\ \A q \in Players \ {p} : z.item[q] # NoItem =>
                              /\ z.item[p] # z.item[q]
                              /\ ~Inside(z.at, z.item[p], z.item[q])
      BY DEF Apart
    <2>1. /\ Held(closed.at, p, z.item[p])
          /\ \A q \in Players \ {p} : z.item[q] # NoItem =>
                z.item[p] # z.item[q] /\ ~Inside(closed.at, z.item[p], z.item[q])
      BY <1>7, <1>10 DEF Apart
    <2>2. Held(z.at, p, z.item[p])
      BY <1>11, <1>12, <2>1 DEF Held, Inside
    <2>3. \A q \in Players \ {p} : z.item[q] # NoItem => ~Inside(z.at, z.item[p], z.item[q])
      BY <1>4, <1>11, <1>12, <2>1 DEF Inside
    <2> QED BY <2>1, <2>2, <2>3
  <1>14. NoLoop(z.at)
    BY <1>1, <1>4, <1>7, <1>11 DEF NoLoop, Inside
  <1>15. AInv' /\ at' = z.at /\ tradeItem' = z.item
    BY <1>3, <1>10, <1>13, <1>14, BecomeApart DEF Sound
  <1>16. Steady
    <2> SUFFICES ASSUME NEW p \in Players, tradeItem[p] # NoItem, tradeItem'[p] = tradeItem[p]
                 PROVE  Untouched(tradeItem[p]) \/ IsLost(tradeItem[p])
      BY DEF Steady
    <2> DEFINE t == tradeItem[p]
    <2>1. /\ t = z.item[p] /\ t \in Items /\ t # i /\ ~Inside(at, i, t)
          /\ Inside(at, t, i) => d = Lost
          /\ Holders(closed.at, t) = Holders(at, t)
      BY <1>12, <1>15
    <2> HIDE DEF t
    <2>2. CASE t \in Things /\ Inside(at, t, i)
      <3>1. Holders(at, i) \subseteq Holders(at, t)
        BY <1>1, <2>1, <2>2, HoldersThrough DEF Inside
      <3>2. ~Inside(at, t, Lost)
        BY <1>1, <1>5, <2>1, <3>1, NotLost
      <3>3. Inside(at', t, Lost)
        BY <1>11, <1>15, <2>1, <2>2 DEF Inside
      <3> QED BY <3>2, <3>3 DEF IsLost, t
    <2>3. CASE t \notin Things
      <3>1. t \notin Places
        BY <2>1, <2>3, PlacesApart
      <3>2. \A k \in Things : t # k /\ ~Inside(at, k, t) /\ ~Inside(z.at, k, t)
        BY <1>1, <1>10, <2>3, <3>1, HoldersIs DEF Inside
      <3>3. Untouched(t)
        BY <1>15, <3>2 DEF Untouched
      <3> QED BY <3>3 DEF t
    <2>4. CASE ~Inside(at, t, i)
      <3>1. ASSUME NEW k \in Things, k = t \/ Inside(at, k, t) \/ Inside(z.at, k, t)
            PROVE  k # i /\ z.at[k] = at[k]
        <4>1. k \in Items /\ Holders(at, k) = {at[k]} \cup
                                (IF at[k] \in Things THEN Holders(at, at[k]) ELSE {})
          BY <1>1, HoldersUnfold
        <4>2. k = t \/ t \in Holders(at, k)
          BY <1>4, <1>9, <1>11, <2>1, <3>1, <4>1 DEF Inside
        <4>3. k # i
          BY <2>1, <4>2 DEF Inside
        <4>4. at[k] # i
          BY <2>1, <2>4, <4>1, <4>2 DEF Inside
        <4> QED BY <1>9, <1>10, <4>1, <4>3, <4>4
      <3>2. \A k \in Stacks : k # i => stack'[k] = stack[k]
        BY DEF Replace
      <3>3. Untouched(t)
        BY <1>15, <3>1, <3>2 DEF Untouched
      <3> QED BY <3>3 DEF t
    <2> QED BY <2>2, <2>3, <2>4 DEF t
  <1> QED BY <1>15, <1>16

\* An offer of an item that is in no other and has no other in it.
LEMMA OfferApart ==
    ASSUME IInv, AInv, NEW p \in Players, NEW q \in Players, NEW i \in Items, NEW a \in Places,
           Free(p, q), tradeItem[p] = NoItem,
           NEW b, b = [at EXCEPT ![i] = a],
           NoLoop(b), Held(b, p, i),
           \A r \in Players : tradeItem[r] # NoItem =>
              /\ Holders(b, tradeItem[r]) = Holders(at, tradeItem[r])
              /\ ~Overlap(b, i, tradeItem[r]),
           Become(Offer([World EXCEPT !.at[i] = a], p, q, i))
    PROVE  AInv' /\ at' = b /\ tradeItem' = [tradeItem EXCEPT ![p] = i]
  <1> DEFINE w == [World EXCEPT !.at[i] = a]
             z == Offer(w, p, q, i)
             c == [tradeItem EXCEPT ![p] = i]
  <1>1. /\ World \in WorldType /\ World.at = at /\ World.item = tradeItem
        /\ at \in [Items -> Places] /\ tradeItem \in [Players -> Items \cup {NoItem}]
    BY WorldIs
  <1>2. w.at = b /\ w.item = tradeItem
    BY <1>1 DEF World
  <1>3. z.at = w.at /\ z.item = [w.item EXCEPT ![p] = i]
    BY DEF Offer, World
  <1>4. Become(z)
    OBVIOUS
  <1> HIDE DEF w, z
  <1>5. at' = b /\ tradeItem' = c
    BY <1>2, <1>3, <1>4 DEF Become
  <1>6. \A r \in Players : c[r] = IF r = p THEN i ELSE tradeItem[r]
    BY <1>1
  <1> HIDE DEF c
  <1>7. ASSUME NEW v, v.at = b, v.item = c PROVE Apart(v, {})
    <2> SUFFICES ASSUME NEW r \in Players, c[r] # NoItem
                 PROVE  /\ Held(b, r, c[r])
                        /\ \A s \in Players \ {r} : c[s] # NoItem =>
                              c[r] # c[s] /\ ~Inside(b, c[r], c[s])
      BY <1>7, ZenonT(40) DEF Apart
    <2>1. CASE r = p
      BY <2>1, <1>6 DEF Overlap
    <2>2. CASE r # p
      <3>0. c[r] = tradeItem[r] /\ tradeItem[r] # NoItem
        BY <2>2, <1>6
      <3>1. c[r] = tradeItem[r] /\ Holders(b, tradeItem[r]) = Holders(at, tradeItem[r])
        BY <3>0, Zenon
      <3>2. /\ Held(at, r, tradeItem[r])
            /\ \A s \in Players \ {r} : tradeItem[s] # NoItem =>
                  tradeItem[r] # tradeItem[s] /\ ~Inside(at, tradeItem[r], tradeItem[s])
        BY <3>1, <1>1 DEF AInv, Apart
      <3>3. Held(b, r, c[r])
        BY <3>1, <3>2 DEF Held
      <3>4. ASSUME NEW s \in Players \ {r}, c[s] # NoItem
            PROVE  c[r] # c[s] /\ ~Inside(b, c[r], c[s])
        <4>1. CASE s = p
          BY <4>1, <3>1, <1>6 DEF Overlap
        <4>2. CASE s # p
          BY <4>2, <3>1, <3>2, <3>4, <1>6 DEF Inside
        <4> QED BY <4>1, <4>2
      <3> QED BY <3>3, <3>4
    <2> QED BY <2>1, <2>2
  <1>8. World'.at = b /\ World'.item = c
    BY <1>5 DEF World
  <1>9. Apart(World', {})
    BY <1>7, <1>8
  <1>10. Apart(World, {})'
    BY <1>9
  <1>11. NoLoop(at)'
    <2>1. NoLoop(at')
      BY <1>5
    <2> QED BY <2>1
  <1> QED BY <1>5, <1>10, <1>11 DEF AInv, c

LEMMA FreeOffers ==
    ASSUME IInv, NEW p \in Players, NEW q \in Players, Free(p, q)
    PROVE  /\ tradeItem[p] = NoItem
           /\ \A r \in Players : tradeItem[r] # NoItem =>
                 tradeItem[r] \in Items /\ tradeItems[tradeItem[r]] = r
           /\ \A h \in Houses : at[h] = Nowhere => tradeItems[h] = NoPlayer
  <1>1. TypeOK /\ Paired(World) /\ Listed(World, {}) /\ Documents(World, {})
    BY DEF IInv, Sound
  <1>2. tradeItem[p] = NoItem
    BY <1>1 DEF Free, Paired, World
  <1>3. \A r \in Players : tradeItem[r] # NoItem =>
            tradeItem[r] \in Items /\ tradeItems[tradeItem[r]] = r
    BY <1>1 DEF TypeOK, Listed, World
  <1>4. \A h \in Houses : at[h] = Nowhere => tradeItems[h] = NoPlayer
    BY <1>1 DEF Documents, World
  <1> QED BY <1>2, <1>3, <1>4

LEMMA RequestSteady ==
    ASSUME IInv, AInv, NEW p \in Players, NEW q \in Players, NEW i \in Things,
           RequestTrade(p, q, i)
    PROVE  AInv' /\ Steady
  <1>1. i \in Items /\ at \in [Items -> Places] /\ World.at = at
    BY WorldIs, PlacesApart
  <1>2. at[i] \in Places /\ at = [at EXCEPT ![i] = at[i]]
    BY <1>1
  <1>3. [World EXCEPT !.at[i] = at[i]] = World
    BY <1>1 DEF World
  <1>4. /\ Held(at, p, i) /\ Free(p, q)
        /\ \A j \in Items : tradeItems[j] # NoPlayer => ~Overlap(at, i, j)
        /\ Become(Offer([World EXCEPT !.at[i] = at[i]], p, q, i))
        /\ stack' = stack
    BY <1>3 DEF RequestTrade, AtHand, Held
  <1>5. \A r \in Players : tradeItem[r] # NoItem => ~Overlap(at, i, tradeItem[r])
    BY <1>4, FreeOffers
  <1>6. tradeItem[p] = NoItem /\ NoLoop(at)
    BY <1>4, FreeOffers DEF AInv
  <1>7. AInv' /\ at' = at
    BY <1>1, <1>2, <1>4, <1>5, <1>6, OfferApart
  <1> QED BY <1>4, <1>7 DEF Steady, Untouched

LEMMA SellHouseSteady ==
    ASSUME IInv, AInv, NEW p \in Players, NEW q \in Players, NEW h \in Houses, SellHouse(p, q, h)
    PROVE  AInv' /\ Steady
  <1> DEFINE b == [at EXCEPT ![h] = p]
  <1>1. h \in Items /\ h \notin Things /\ p \in Places /\ at \in [Items -> Places]
    BY WorldIs DEF Items, Places
  <1>2. /\ b \in [Items -> Places]
        /\ \A j \in Items : b[j] = IF j = h THEN p ELSE at[j]
        /\ \A j \in Items \ {h} : b[j] = at[j]
    BY <1>1
  <1>3. /\ Free(p, q) /\ at[h] = Nowhere
        /\ Become(Offer([World EXCEPT !.at[h] = p], p, q, h))
        /\ stack' = stack
    BY DEF SellHouse
  <1>4. NoLoop(b)
    <2>1. Room(at, h, p)
      BY PlacesApart DEF Room
    <2> QED BY <1>1, <2>1, PutNoLoop DEF AInv
  <1> HIDE DEF b
  <1>5. Holders(b, h) = {p}
    <2>1. b[h] = p /\ p \notin Things
      BY <1>1, <1>2, PlacesApart
    <2> QED BY <1>1, <1>2, <2>1, HoldersUnfold
  <1>6. Held(b, p, h)
    BY <1>5 DEF Held
  <1>7. ASSUME NEW r \in Players, tradeItem[r] # NoItem
        PROVE  /\ Holders(b, tradeItem[r]) = Holders(at, tradeItem[r])
               /\ ~Overlap(b, h, tradeItem[r])
    <2> DEFINE t == tradeItem[r]
    <2>1. t \in Items /\ tradeItems[t] = r /\ tradeItems[h] = NoPlayer
      BY <1>3, <1>7, FreeOffers
    <2>2. t # h
      BY <2>1
    <2>3. t \in Items /\ Holders(at, t) \in SUBSET Places
      BY <1>1, <2>1, HoldersIs
    <2> HIDE DEF t
    <2>4. ~Inside(at, t, h)
      BY <1>1, <2>3, PlacesApart DEF Inside
    <2>5. Holders(b, t) = Holders(at, t)
      BY <1>1, <1>2, <2>2, <2>3, <2>4, PutElsewhere
    <2>6. ~Inside(b, t, h) /\ ~Inside(b, h, t)
      BY <1>5, <2>3, <2>4, <2>5, PlacesApart DEF Inside
    <2> QED BY <2>2, <2>5, <2>6 DEF Overlap, t
  <1>8. tradeItem[p] = NoItem
    BY <1>3, FreeOffers
  <1>9. AInv' /\ at' = b
    BY <1>1, <1>3, <1>4, <1>6, <1>7, <1>8, OfferApart DEF b
  <1>10. \A k \in Things : at'[k] = at[k]
    BY <1>1, <1>2, <1>9, PlacesApart
  <1> QED BY <1>3, <1>9, <1>10 DEF Steady, Untouched

LEMMA SettleApart ==
    ASSUME IInv, AInv, NEW p \in Players, NEW q \in Players
    PROVE  /\ Settle(World, p, q).at = at /\ Settle(World, p, q).item = tradeItem
           /\ Apart(Settle(World, p, q), {p, q})
  <1>1. Settle(World, p, q).at = at /\ Settle(World, p, q).item = tradeItem
    BY DEF Settle, Release, World
  <1>2. World.at = at /\ World.item = tradeItem
    BY WorldIs
  <1> QED BY <1>1, <1>2 DEF AInv, Apart

LEMMA ExchangeFailsSteady ==
    ASSUME IInv, AInv, NEW p \in Players, ExchangeFails(p)
    PROVE  AInv' /\ Steady
  <1> DEFINE q == tradePartner[p]
             w == Settle(World, p, q)
             S == Offered(World, {p, q})
             z == Reset(Discard(w, S), {p, q})
  <1>1. q \in Players /\ World.partner[p] = q
    BY AgreedGives DEF ExchangeFails
  <1>2. Become(z) /\ stack' = stack
    BY DEF ExchangeFails
  <1>3. Sound(World, {}) /\ World.item = tradeItem
    BY WorldIs
  <1> HIDE DEF q
  <1>4. Sound(w, {p, q})
    BY <1>1, <1>3, SettleGives
  <1>5. w.at = at /\ w.item = tradeItem /\ Apart(w, {p, q}) /\ NoLoop(w.at)
    BY <1>1, SettleApart DEF AInv
  <1>6. Offered(w, {p, q}) = S
    BY <1>3, <1>5 DEF Offered
  <1> HIDE DEF w, S
  <1>7. Sound(z, {}) /\ Apart(z, {}) /\ NoLoop(z.at) /\ Stays(w, z)
    BY <1>1, <1>4, <1>5, <1>6, FinishGives, FinishApart
  <1> HIDE DEF z
  <1>8. AInv' /\ at' = z.at
    BY <1>2, <1>7, BecomeApart DEF Sound
  <1>9. \A k \in Things : at'[k] = at[k]
    BY <1>5, <1>7, <1>8 DEF Stays, Items
  <1> QED BY <1>2, <1>8, <1>9 DEF Steady, Untouched

\* The two moves of an exchange: q receives i, which p offers, and p may receive j.
Handed(w, p, q, i, j, place, first, last) ==
    /\ p \in Players /\ q \in Players /\ p # q
    /\ Sound(w, {p, q}) /\ Apart(w, {p, q}) /\ NoLoop(w.at)
    /\ i \in Items /\ j \in Items /\ w.item[p] = i /\ w.item[q] = j /\ i # j
    /\ ~Inside(w.at, i, j) /\ ~Inside(w.at, j, i)
    /\ Held(w.at, p, i) /\ Held(w.at, q, j)
    /\ Clear(w, i, {p, q}) /\ Clear(w, j, {p, q})
    /\ place \in Stowage(w, q) /\ first = MoveTo(w, i, place, {p, q})
    /\ \/ last = first
       \/ \E back \in Stowage(first, p) : last = MoveTo(first, j, back, {p, q})

\* What they leave: nothing but i and j moves, and those into nobody else's offer.
HandedOver(w, p, q, i, j, last) ==
    /\ Apart(last, {p, q}) /\ NoLoop(last.at)
    /\ Sound(last, {p, q}) /\ Ends(w, last, {p, q})
    /\ \A k \in Things \ {i, j} : last.at[k] = w.at[k]
    /\ \A r \in Players \ {p, q}, t \in Items, k \in {i, j} \cap Things :
          last.item[r] = t /\ Inside(last.at, k, t) => last.at[k] = w.at[k]

LEMMA ExchangeMoves ==
    ASSUME NEW w, NEW p, NEW q, NEW i, NEW j, NEW place, NEW first, NEW last,
           Handed(w, p, q, i, j, place, first, last)
    PROVE  HandedOver(w, p, q, i, j, last)
  <1>0. /\ p \in Players /\ q \in Players /\ p # q
        /\ Sound(w, {p, q}) /\ Apart(w, {p, q}) /\ NoLoop(w.at)
        /\ i \in Items /\ j \in Items /\ w.item[p] = i /\ w.item[q] = j /\ i # j
        /\ ~Inside(w.at, i, j) /\ ~Inside(w.at, j, i)
        /\ Held(w.at, p, i) /\ Held(w.at, q, j)
        /\ Clear(w, i, {p, q}) /\ Clear(w, j, {p, q})
        /\ place \in Stowage(w, q) /\ first = MoveTo(w, i, place, {p, q})
        /\ \/ last = first
           \/ \E back \in Stowage(first, p) : last = MoveTo(first, j, back, {p, q})
    BY DEF Handed
  <1> USE <1>0
  <1> DEFINE busy == {p, q}
  <1>1. /\ busy \in SUBSET Players
        /\ \E r \in busy : w.item[r] = i
        /\ w \in WorldType
        /\ w.at \in [Items -> Places]
    BY DEF Sound, WorldType
  <1>2. /\ \A v, r : r \in Players => Stowage(v, r) \subseteq Places
        /\ \A v, r, s : r \in Players /\ s \in Stowage(v, r) =>
                          s = r \/ (s \in Things /\ Inside(v.at, s, r))
        /\ \A s \in Stowage(w, q) : s = q \/ (s \in Containers /\ ~Touches(w.at, s, j))
    <2>1. j # NoItem
      BY DEF Items
    <2> QED BY <2>1 DEF Stowage, Places
  <1>3. place \in Places
    BY <1>2
  <1>4. PICK e \in {p, Floor, Lost} : e \in Holders(w.at, i)
    BY DEF Held
  <1>5. PICK d \in {q, Floor, Lost} : d \in Holders(w.at, j)
    BY DEF Held
  <1>6. e \notin Things /\ e # q /\ d \notin Things /\ d # p
    BY PlacesApart
  <1>7. Room(w.at, i, place)
    BY <1>1, <1>2, <1>3, <1>4, <1>6, RoomElsewhere
  <1>o. Open(w.at, place)
    BY <1>1, <1>2, <1>3, OpenElsewhere
  <1>8. /\ Apart(w, busy) /\ Sound(w, busy) /\ first = MoveTo(w, i, place, busy)
        /\ Clear(w, i, busy) /\ Clear(w, j, busy)
    OBVIOUS
  <1>w. busy = {p, q} /\ p \in busy /\ q \in busy
    OBVIOUS
  <1> HIDE DEF busy
  <1>9. /\ Apart(first, busy) /\ NoLoop(first.at)
        /\ HandsOff(w, first, i, busy) /\ Moved(w, first, i, place)
        /\ Sound(first, busy) /\ Ends(w, first, busy)
    BY <1>1, <1>3, <1>7, <1>8, <1>o, MoveApart, MoveGives
  <1>10. /\ first \in WorldType /\ first.item[p] = i /\ first.item[q] = j
         /\ first.at \in [Items -> Places]
    BY <1>9, <1>w DEF Sound, Ends, WorldType
  <1>11. \A k \in Things \ {i} : first.at[k] = w.at[k]
    BY <1>9 DEF Moved, Items
  <1>12. Holders(first.at, j) = Holders(w.at, j)
    BY <1>1, <1>3, <1>9, <1>10, MovedHolders
  <1>c. Clear(first, j, busy)
    <2> SUFFICES ASSUME NEW r \in Players \ busy, NEW t \in Items, first.item[r] = t
                 PROVE  t # j /\ ~Inside(first.at, t, j) /\ ~Inside(first.at, j, t)
      BY DEF Clear
    <2>1. w.item[r] = t
      BY <1>9 DEF Ends, Items
    <2>2. /\ t # i /\ ~Inside(w.at, t, i)
          /\ t # j /\ ~Inside(w.at, t, j) /\ ~Inside(w.at, j, t)
      BY <1>8, <2>1 DEF Clear
    <2>3. Holders(first.at, t) = Holders(w.at, t)
      BY <1>1, <1>3, <1>9, <1>10, <2>2, MovedHolders
    <2> QED BY <2>2, <2>3, <1>12 DEF Inside
  <1>13. CASE last = first
    <2>1. ASSUME NEW r \in Players \ busy, NEW t \in Items, NEW k \in {i, j} \cap Things,
                 last.item[r] = t, Inside(last.at, k, t)
          PROVE  last.at[k] = w.at[k]
      BY <1>9, <1>11, <1>13, <2>1 DEF HandsOff
    <2>2. /\ Apart(last, busy) /\ NoLoop(last.at)
          /\ Sound(last, busy) /\ Ends(w, last, busy)
          /\ \A k \in Things \ {i, j} : last.at[k] = w.at[k]
      BY <1>9, <1>11, <1>13
    <2> QED BY <2>1, <2>2 DEF busy, HandedOver
  <1>14. ASSUME NEW back \in Stowage(first, p), last = MoveTo(first, j, back, busy)
         PROVE  /\ Apart(last, busy) /\ NoLoop(last.at)
                /\ Sound(last, busy) /\ Ends(w, last, busy)
                /\ \A k \in Things \ {i, j} : last.at[k] = w.at[k]
                /\ \A r \in Players \ busy, t \in Items, k \in {i, j} \cap Things :
                      last.item[r] = t => ~Inside(last.at, k, t)
    <2>1. back \in Places /\ (back = p \/ (back \in Things /\ Inside(first.at, back, p)))
      BY <1>2
    <2>2. Room(first.at, j, back)
      BY <2>1, <1>5, <1>6, <1>10, <1>12, RoomElsewhere
    <2>3. Open(first.at, back) /\ \E r \in busy : first.item[r] = j
      BY <2>1, <1>10, <1>w, OpenElsewhere
    <2>4. /\ Apart(last, busy) /\ NoLoop(last.at)
          /\ HandsOff(first, last, j, busy) /\ Moved(first, last, j, back)
          /\ Sound(last, busy) /\ Ends(first, last, busy)
      BY <1>1, <1>9, <1>c, <1>14, <2>1, <2>2, <2>3, MoveApart, MoveGives
    <2>5. last \in WorldType /\ last.item[p] = i
      BY <1>10, <2>4, <1>w DEF Sound, Ends
    <2>6. Ends(w, last, busy)
      BY <1>9, <2>4 DEF Ends
    <2>7. \A k \in Things \ {i, j} : last.at[k] = w.at[k]
      BY <1>11, <2>4 DEF Moved, Items
    <2>8. ~Inside(first.at, i, j)
      <3>1. first.at[i] = place
        BY <1>9, <1>10 DEF Moved
      <3>2. Holders(first.at, i) =
                {place} \cup (IF place \in Things THEN Holders(first.at, place) ELSE {})
        BY <1>10, <3>1, HoldersUnfold
      <3>3. CASE place = q
        BY <3>2, <3>3, PlacesApart DEF Inside
      <3>4. CASE place \in Containers /\ ~Touches(w.at, place, j)
        <4>1. place \in Things /\ place \in Items /\ place # i /\ ~Inside(w.at, place, i)
          BY <1>7, <3>4, PlacesApart DEF Room
        <4>2. Holders(first.at, place) = Holders(w.at, place)
          BY <4>1, <1>1, <1>3, <1>9, <1>10, MovedHolders
        <4> QED BY <3>2, <3>4, <4>2 DEF Inside, Touches
      <3> QED BY <1>2, <3>3, <3>4
    <2>9. Holders(last.at, i) = Holders(first.at, i)
      <3>1. \E r \in Players : last.item[r] = i
        BY <2>5
      <3>2. /\ first \in WorldType /\ last \in WorldType /\ back \in Places
            /\ Moved(first, last, j, back)
            /\ i # j /\ ~Inside(first.at, i, j)
        BY <1>10, <2>1, <2>4, <2>5, <2>8
      <3> HIDE DEF busy
      <3> QED BY ONLY i \in Items, j \in Items, <3>1, <3>2, MovedHolders
    <2>10. ASSUME NEW r \in Players \ busy, NEW t \in Items, NEW k \in {i, j} \cap Things,
                  last.item[r] = t
           PROVE  ~Inside(last.at, k, t)
      <3>1. first.item[r] = t
        BY <2>4, <2>10 DEF Ends, Items
      <3>2. CASE k = i
        BY <3>1, <3>2, <1>9, <2>9 DEF HandsOff, Inside
      <3>3. CASE k = j
        BY <3>3, <2>4, <2>10 DEF HandsOff
      <3> QED BY <3>2, <3>3
    <2> QED BY <2>4, <2>6, <2>7, <2>10
  <1>15. CASE last # first
    <2>1. PICK back \in Stowage(first, p) : last = MoveTo(first, j, back, busy)
      BY <1>15 DEF busy
    <2> QED BY <2>1, <1>14 DEF busy, HandedOver
  <1> QED BY <1>13, <1>15 DEF HandedOver

LEMMA ExchangeSteady ==
    ASSUME IInv, AInv, NEW p \in Players, Exchange(p)
    PROVE  AInv' /\ Steady
  <1> DEFINE q == tradePartner[p]
             i == tradeItem[p]
             j == tradeItem[q]
             busy == {p, q}
             w == Settle(World, p, q)
  <1>1. /\ q \in Players /\ q # p /\ World.partner[p] = q
        /\ i \in Items /\ j \in Items /\ i # NoItem /\ j # NoItem
    <2>1. q \in Players \ {p} /\ World.partner[p] = q
      BY AgreedGives DEF Exchange
    <2>2. NoItem \notin {i, j}
      BY DEF Exchange
    <2> QED BY <2>1, <2>2, WorldIs
  <1>2. PICK place \in Stowage(w, q), kicked \in SUBSET (Players \ {p, q}) :
            LET first == MoveTo(w, i, place, {p, q}) IN
            \E last \in {first} \cup
                        {MoveTo(first, j, back, {p, q}) : back \in Stowage(first, p)} :
                Become(Reset(Discard(IF {i, j} \cap Houses = {} THEN last ELSE Close(last, kicked),
                                     {i, j}), {p, q}))
    BY DEF Exchange
  <1> DEFINE first == MoveTo(w, i, place, busy)
  <1>3. PICK last \in {first} \cup {MoveTo(first, j, back, busy) : back \in Stowage(first, p)} :
            Become(Reset(Discard(IF {i, j} \cap Houses = {} THEN last ELSE Close(last, kicked),
                                 {i, j}), busy))
    BY <1>2
  <1> DEFINE x == IF {i, j} \cap Houses = {} THEN last ELSE Close(last, kicked)
             z == Reset(Discard(x, {i, j}), busy)
  <1>4. stack' = stack /\ Become(z) /\ kicked \in SUBSET (Players \ busy)
    BY <1>2, <1>3 DEF Exchange
  <1>5. /\ World.at = at /\ World.item = tradeItem /\ Sound(World, {})
        /\ at \in [Items -> Places] /\ tradeItem \in [Players -> Items \cup {NoItem}]
    BY WorldIs
  <1>6. ASSUME NEW r \in Players, tradeItem[r] # NoItem
        PROVE  /\ Held(at, r, tradeItem[r])
               /\ \A s \in Players \ {r} : tradeItem[s] # NoItem =>
                     tradeItem[r] # tradeItem[s] /\ ~Inside(at, tradeItem[r], tradeItem[s])
    BY <1>5, <1>6 DEF AInv, Apart
  <1>7. tradeItem[p] = i /\ tradeItem[q] = j
    OBVIOUS
  <1> HIDE DEF q, i, j
  <1>8. /\ Held(at, p, i) /\ Held(at, q, j)
        /\ i # j /\ ~Inside(at, i, j) /\ ~Inside(at, j, i)
    <2>1. Held(at, p, i) /\ i # j /\ ~Inside(at, i, j)
      BY <1>1, <1>6, <1>7
    <2>2. Held(at, q, j) /\ ~Inside(at, j, i)
      BY <1>1, <1>6, <1>7
    <2> QED BY <2>1, <2>2
  <1>9. Sound(w, {p, q})
    BY <1>1, <1>5, SettleGives
  <1>10. w.at = at /\ w.item = tradeItem /\ Apart(w, {p, q}) /\ NoLoop(w.at)
    BY <1>1, SettleApart DEF AInv
  <1>11. \/ last = first
         \/ \E back \in Stowage(first, p) : last = MoveTo(first, j, back, {p, q})
    BY <1>3
  <1> HIDE DEF w
  <1>12. /\ Apart(last, {p, q}) /\ NoLoop(last.at)
         /\ Sound(last, {p, q}) /\ Ends(w, last, {p, q})
         /\ \A k \in Things \ {i, j} : last.at[k] = w.at[k]
         /\ \A r \in Players \ {p, q}, t \in Items, k \in {i, j} \cap Things :
               last.item[r] = t /\ Inside(last.at, k, t) => last.at[k] = w.at[k]
    <2> HIDE DEF busy
    <2>1. /\ w.item[p] = i /\ w.item[q] = j /\ p # q /\ place \in Stowage(w, q)
          /\ first = MoveTo(w, i, place, {p, q})
      BY <1>1, <1>2, <1>7, <1>10 DEF busy
    <2> HIDE DEF first
    <2>2. /\ ~Inside(w.at, i, j) /\ ~Inside(w.at, j, i)
          /\ Held(w.at, p, i) /\ Held(w.at, q, j)
      BY <1>8, <1>10
    <2>c. Clear(w, i, {p, q}) /\ Clear(w, j, {p, q})
      <3> SUFFICES ASSUME NEW r \in Players \ {p, q}, NEW t \in Items, tradeItem[r] = t,
                          NEW k \in {i, j}
                   PROVE  t # k /\ ~Inside(at, t, k) /\ ~Inside(at, k, t)
        BY <1>10 DEF Clear
      <3>1. t # NoItem
        BY DEF Items
      <3> QED BY <3>1, <1>1, <1>6, <1>7
    <2>3. Handed(w, p, q, i, j, place, first, last)
      BY <1>1, <1>8, <1>9, <1>10, <1>11, <2>1, <2>2, <2>c DEF Handed
    <2>4. HandedOver(w, p, q, i, j, last)
      BY ONLY <2>3, ExchangeMoves
    <2> QED BY <2>4 DEF HandedOver
  <1> HIDE DEF first
  <1>13. /\ Sound(x, {p, q}) /\ Ends(last, x, {p, q})
         /\ Apart(x, {p, q}) /\ NoLoop(x.at) /\ Stays(last, x)
    <2>1. CASE {i, j} \cap Houses = {}
      <3>1. x = last
        BY <2>1
      <3>2. Stays(last, last)
        BY DEF Stays
      <3>3. Ends(last, last, {p, q})
        BY DEF Ends
      <3> QED BY <3>1, <3>2, <3>3, <1>12
    <2>2. CASE {i, j} \cap Houses # {}
      <3>1. x = Close(last, kicked)
        BY <2>2
      <3>2. {p, q} \in SUBSET Players /\ kicked \in SUBSET (Players \ {p, q})
        BY <1>1, <1>4
      <3> HIDE DEF x
      <3>3. Sound(Close(last, kicked), {p, q}) /\ Ends(last, Close(last, kicked), {p, q})
        <4> HIDE DEF busy
        <4>1. PICK both : both = {p, q}
          OBVIOUS
        <4>2. /\ both \in SUBSET Players /\ kicked \in SUBSET (Players \ both)
              /\ Sound(last, both)
          BY <3>2, <4>1, <1>12
        <4>3. Sound(Close(last, kicked), both) /\ Ends(last, Close(last, kicked), both)
          BY ONLY <4>2, CloseGives DEF Ends
        <4> QED BY <4>1, <4>3
      <3>4. /\ Apart(Close(last, kicked), {p, q}) /\ NoLoop(Close(last, kicked).at)
            /\ Stays(last, Close(last, kicked))
        BY <3>2, <1>12, CloseApart, CloseStays
      <3> QED BY <3>1, <3>3, <3>4
    <2> QED BY <2>1, <2>2
  <1> HIDE DEF x
  <1>14. Offered(x, {p, q}) = {i, j}
    <2>1. x.item[p] = i /\ x.item[q] = j
      BY <1>1, <1>7, <1>10, <1>12, <1>13 DEF Ends
    <2> QED BY <2>1, <1>1 DEF Offered
  <1>15. /\ Sound(z, {}) /\ Ends(x, z, {})
         /\ Apart(z, {}) /\ NoLoop(z.at) /\ Stays(x, z)
         /\ \A r \in {p, q} : z.item[r] = NoItem
    <2>1. PICK S : S = {i, j}
      OBVIOUS
    <2>2. /\ p \in Players /\ q \in Players /\ S = Offered(x, {p, q})
          /\ Sound(x, {p, q}) /\ Apart(x, {p, q}) /\ NoLoop(x.at)
      BY <1>1, <1>13, <1>14, <2>1
    <2>3. z = Reset(Discard(x, S), {p, q})
      BY <2>1
    <2> HIDE DEF z
    <2>4. Sound(z, {}) /\ Ends(x, z, {})
      BY ONLY <2>2, <2>3, FinishGives
    <2> QED BY ONLY <2>2, <2>3, <2>4, FinishApart
  <1> HIDE DEF z
  <1>16. AInv' /\ at' = z.at /\ tradeItem' = z.item
    BY <1>4, <1>15, BecomeApart DEF Sound
  <1>17. last \in WorldType /\ x \in WorldType /\ z \in WorldType
    BY <1>12, <1>13, <1>15 DEF Sound
  <1>18. \A k \in Things : /\ z.at[k] = last.at[k]
                           /\ Holders(z.at, k) = Holders(last.at, k)
    <2> SUFFICES ASSUME NEW k \in Things
                 PROVE  z.at[k] = last.at[k] /\ Holders(z.at, k) = Holders(last.at, k)
      OBVIOUS
    <2>1. k \in Items /\ k \notin Houses
      BY DEF Items
    <2>2. Holders(z.at, k) = Holders(x.at, k)
      BY <2>1, <1>15, <1>17, StaysHolders
    <2>3. Holders(x.at, k) = Holders(last.at, k)
      BY <2>1, <1>13, <1>17, StaysHolders
    <2> QED BY <2>1, <2>2, <2>3, <1>13, <1>15 DEF Stays
  <1>19. Steady
    <2> SUFFICES ASSUME NEW r \in Players, tradeItem[r] # NoItem, tradeItem'[r] = tradeItem[r],
                        NEW k \in Things,
                        \/ k = tradeItem[r]
                        \/ Inside(at, k, tradeItem[r])
                        \/ Inside(at', k, tradeItem[r])
                 PROVE  at'[k] = at[k]
      BY <1>4 DEF Steady, Untouched
    <2> DEFINE t == tradeItem[r]
    <2>1. t \in Items /\ r \in Players \ {p, q}
      BY <1>5, <1>15, <1>16
    <2>2. last.item[r] = t
      BY <1>13, <1>15, <1>16, <2>1 DEF Ends
    <2>3. CASE k \notin {i, j}
      BY <2>3, <1>10, <1>12, <1>16, <1>18
    <2>4. CASE k \in {i, j}
      <3>1. k # t /\ ~Inside(at, k, t)
        <4>1. CASE k = i
          BY <4>1, <1>1, <1>6, <1>7, <2>1
        <4>2. CASE k = j
          BY <4>2, <1>1, <1>6, <1>7, <2>1
        <4> QED BY <2>4, <4>1, <4>2
      <3>2. Inside(last.at, k, t)
        BY <3>1, <1>16, <1>18 DEF Inside
      <3> HIDE DEF t
      <3> QED BY <2>1, <2>2, <2>4, <3>2, <1>10, <1>12, <1>16, <1>18
    <2> QED BY <2>3, <2>4
  <1> QED BY <1>16, <1>19

LEMMA StillSteady ==
    ASSUME IInv, AInv, UNCHANGED <<at, stack, tradeItem>>
    PROVE  AInv' /\ Steady
  <1>1. Apart(World, {})'
    <2>1. World'.at = World.at /\ World'.item = World.item
      BY DEF World
    <2>2. Apart(World', {})
      BY <2>1 DEF AInv, Apart
    <2> QED BY <2>2
  <1>2. NoLoop(at)'
    <2>1. NoLoop(at')
      BY DEF AInv
    <2> QED BY <2>1
  <1>3. Steady
    BY DEF Steady, Untouched
  <1> QED BY <1>1, <1>2, <1>3 DEF AInv

LEMMA InitApart == Init => AInv
  <1> SUFFICES ASSUME Init PROVE AInv
    OBVIOUS
  <1>1. /\ at \in [Items -> Places] /\ tradeItem = [p \in Players |-> NoItem]
        /\ \A c \in Things : at[c] = Floor
    BY PlacesApart DEF Init, Places
  <1>2. Apart(World, {})
    BY <1>1 DEF Apart, World
  <1>3. \A c \in Things : Holders(at, c) = {Floor}
    BY <1>1, HoldersUnfold, PlacesApart
  <1> QED BY <1>2, <1>3, PlacesApart DEF AInv, NoLoop, Inside

LEMMA NextSteady == IInv /\ AInv /\ [Next]_vars => AInv' /\ Steady
  <1> SUFFICES ASSUME IInv, AInv, [Next]_vars PROVE AInv' /\ Steady
    OBVIOUS
  <1>1. ASSUME NEW i \in Things, Change(i) PROVE AInv' /\ Steady
    BY <1>1, ChangeSteady
  <1>2. ASSUME NEW i \in Things, Destroy(i) PROVE AInv' /\ Steady
    <2>1. Nowhere \in Places /\ Room(at, i, Nowhere) /\ Open(at, Nowhere)
      BY PlacesApart DEF Room, Open
    <2>2. at \in [Items -> Places] /\ i \in Items
      BY WorldIs, PlacesApart
    <2>3. ~Inside(at, i, Lost)
      BY <1>2, <2>2, NotLost DEF Destroy, InWorld
    <2> QED BY <1>2, <2>1, <2>3, MovingSteady DEF Destroy
  <1>3. ASSUME NEW p \in Players, Login(p) \/ Accept(p) PROVE AInv' /\ Steady
    BY <1>3, StillSteady DEF Login, Accept
  <1>4. ASSUME NEW p \in Players, Logout(p) PROVE AInv' /\ Steady
    <2>1. CASE tradePartner[p] = NoPlayer
      <3>1. UNCHANGED <<at, stack, tradeItem>>
        BY <1>4, <2>1 DEF Logout, Become, World
      <3> QED BY <3>1, StillSteady
    <2>2. CASE tradePartner[p] # NoPlayer
      <3>1. Become(Close(World, {p})) /\ stack' = stack
        BY <1>4, <2>2 DEF Logout
      <3> QED BY <3>1, ClosingSteady
    <2> QED BY <2>1, <2>2
  <1>5. ASSUME NEW p \in Players, CloseTrade(p) \/ WalkAway(p) \/ AcceptRefused(p)
        PROVE  AInv' /\ Steady
    <2>1. Become(Close(World, {p})) /\ stack' = stack
      BY <1>5 DEF CloseTrade, WalkAway, AcceptRefused
    <2> QED BY <2>1, ClosingSteady
  <1>6. ASSUME NEW p \in Players, ExchangeFails(p) PROVE AInv' /\ Steady
    BY <1>6, ExchangeFailsSteady
  <1>7. ASSUME NEW p \in Players, Exchange(p) PROVE AInv' /\ Steady
    BY <1>7, ExchangeSteady
  <1>8. ASSUME NEW p \in Players, NEW i \in Things, NEW place \in {p, Floor} \cup Containers,
               Move(p, i, place)
        PROVE  AInv' /\ Steady
    <2>1. Become(MoveTo(World, i, place, {})) /\ stack' = stack
      BY <1>8 DEF Move
    <2>2. place \in Places /\ Room(at, i, place)
      BY <1>8, PlacesApart DEF Places, Room, Move
    <2>3. at \in [Items -> Places] /\ i \in Items /\ \A c \in Containers : c \in Things
      BY WorldIs, PlacesApart
    <2>4. ~Inside(at, i, Lost)
      BY <1>8, <2>3, NotLost DEF Move, AtHand
    <2>5. Open(at, place)
      <3>1. PICK r \in {p, Floor} : place = r \/ (place \in Things /\ Inside(at, place, r))
        BY <1>8, <2>3 DEF Move, AtHand, Inside
      <3> QED BY <3>1, <2>2, <2>3, OpenElsewhere
    <2> QED BY <2>1, <2>2, <2>4, <2>5, MovingSteady
  <1>9. ASSUME NEW p \in Players, NEW q \in Players, NEW i \in Things, RequestTrade(p, q, i)
        PROVE  AInv' /\ Steady
    BY <1>9, RequestSteady
  <1>10. ASSUME NEW p \in Players, NEW q \in Players, NEW h \in Houses, SellHouse(p, q, h)
         PROVE  AInv' /\ Steady
    BY <1>10, SellHouseSteady
  <1>11. ASSUME NEW p \in Players, NEW h \in Houses, BuyHouse(p, h) PROVE AInv' /\ Steady
    BY <1>11, StillSteady DEF BuyHouse
  <1>12. ASSUME NEW p \in Players, NEW h \in Houses, LeaveHouse(p, h) PROVE AInv' /\ Steady
    <2>1. PICK kicked \in SUBSET Players : Become(Close(World, kicked))
      BY <1>12 DEF LeaveHouse
    <2>2. stack' = stack
      BY <1>12 DEF LeaveHouse
    <2> QED BY <2>1, <2>2, ClosingSteady
  <1>13. ASSUME NEW i \in Things, Replace(i) PROVE AInv' /\ Steady
    BY <1>13, ReplaceSteady
  <1>14. CASE UNCHANGED vars
    BY <1>14, StillSteady DEF vars
  <1> QED BY <1>1, <1>2, <1>3, <1>4, <1>5, <1>6, <1>7, <1>8, <1>9, <1>10, <1>11, <1>12, <1>13,
             <1>14 DEF Next

(***************************************************************************)
(* No item is in two offers, by itself or through a container, and nobody  *)
(* offers what lies with another player or was destroyed, for any number   *)
(* of players, things and containers: the check of playerRequestTrade and  *)
(* the hooks of internalMoveItem together see to it.  What is excepted is  *)
(* an offer that was lost in a container replaced inside another one,      *)
(* which Container::replaceThing does not notice; even that one stays      *)
(* apart from the others.  The same argument shows that no container comes *)
(* to lie in itself.                                                       *)
(***************************************************************************)
THEOREM TradeOffersApart == Spec => []OffersApart
  <1>1. ASSUME AInv, IInv PROVE OffersApart
    <2>1. World.at = at /\ World.item = tradeItem
      BY DEF World
    <2>2. Apart(World, {})
      BY <1>1 DEF AInv
    <2> QED BY <2>1, <2>2 DEF Apart, OffersApart, Held, AtHand, Inside
  <1> QED BY <1>1, TradeInvariant, InitApart, NextSteady, PTL DEF Spec

(***************************************************************************)
(* While an offer stands, nothing is put into it, taken out of it or       *)
(* changed in it, at any depth: Player::checkTradeState misses no update,  *)
(* but that it may be lost, once and whole, with the container it lies in, *)
(* when Container::replaceThing puts another in the place of that one.     *)
(***************************************************************************)
THEOREM TradeOffersStable == Spec => OfferIsStable
  <1>1. Steady <=> \A p \in Players :
                      tradeItem[p] # NoItem /\ tradeItem'[p] = tradeItem[p] =>
                          Untouched(tradeItem[p]) \/ IsLost(tradeItem[p])
    BY DEF Steady
  <1> QED BY <1>1, TradeInvariant, InitApart, NextSteady, PTL DEF Spec, OfferIsStable
=============================================================================
