------------------------------- MODULE Party -------------------------------
(***************************************************************************)
(* Parties of players (party.cpp, with their callers in game.cpp and       *)
(* player.cpp).  Party and Player point at each other twice: a party lists *)
(* its leader, members and invitees, and a player keeps the party it is in *)
(* and the parties that invited it.  A party deletes itself when nobody is *)
(* left in it and nobody invited, from within most of its operations.      *)
(*                                                                         *)
(* Every request of a client is one task of the dispatcher, one action     *)
(* here.  Scripts may refuse a join or a voluntary leave, which then       *)
(* changes nothing; they are taken to permit a disband (the event is       *)
(* disabled in data/events/events.xml).                                    *)
(*                                                                         *)
(* A party may share experience if all of it have fought or healed lately, *)
(* are near the leader and have similar levels.  The last two, of which    *)
(* there are many causes, are one fact, that the party is fit.  Nobody has *)
(* the flag that excuses from the first.                                   *)
(***************************************************************************)
EXTENDS Naturals, SequencesExt

CONSTANTS Players, Parties, NoPlayer, NoParty

ASSUME PartyAssumption == NoPlayer \notin Players /\ NoParty \notin Parties

VARIABLES
    online,       \* the players in the game
    leader,       \* Party::leader, NoPlayer for a party that does not exist
    memberList,   \* Party::memberList
    inviteList,   \* Party::inviteList
    party,        \* Player::party
    invitations,  \* Player::invitePartyList
    shared        \* sharedExpActive, sharedExpEnabled, ticksMap; whether it is fit

vars == <<online, leader, memberList, inviteList, party, invitations, shared>>

\* No entry in ticksMap, one of the last PZ_LOCKED milliseconds, or an older one.
Ages == {"none", "recent", "old"}

NotShared == [active |-> FALSE, enabled |-> FALSE, fit |-> FALSE,
              ticks |-> [q \in Players |-> "none"]]

Exists(p) == leader[p] # NoPlayer

In(q, s) == \E i \in 1 .. Len(s) : s[i] = q

(***************************************************************************)
(* The one type invariant.                                                 *)
(***************************************************************************)
TypeOK ==
    /\ online \in SUBSET Players
    /\ leader \in [Parties -> Players \cup {NoPlayer}]
    /\ memberList \in [Parties -> Seq(Players)]
    /\ inviteList \in [Parties -> SUBSET Players]
    /\ party \in [Players -> Parties \cup {NoParty}]
    /\ invitations \in [Players -> SUBSET Parties]
    /\ shared \in [Parties -> [active : BOOLEAN, enabled : BOOLEAN, fit : BOOLEAN,
                               ticks : [Players -> Ages]]]
    /\ \A p \in Parties : ~Exists(p) =>
          memberList[p] = <<>> /\ inviteList[p] = {} /\ shared[p] = NotShared

Init ==
    /\ online = {}
    /\ leader = [p \in Parties |-> NoPlayer]
    /\ memberList = [p \in Parties |-> <<>>]
    /\ inviteList = [p \in Parties |-> {}]
    /\ party = [q \in Players |-> NoParty]
    /\ invitations = [q \in Players |-> {}]
    /\ shared = [p \in Parties |-> NotShared]

(* What the operations below change, so that they compose like the calls.  *)
World == [leader |-> leader, members |-> memberList, invites |-> inviteList,
          party |-> party, invitations |-> invitations, shared |-> shared]

Become(w) == /\ leader' = w.leader
             /\ memberList' = w.members
             /\ inviteList' = w.invites
             /\ party' = w.party
             /\ invitations' = w.invitations
             /\ shared' = w.shared

\* The party's members come and go, move about and advance: it is fit, or not.
Anew(w, p, fit) == [w EXCEPT !.shared[p].fit = fit]

-----------------------------------------------------------------------------
(* Party.                                                                  *)

IsEmpty(w, p) == w.members[p] = <<>> /\ w.invites[p] = {}
Within(w, p, q) == q = w.leader[p] \/ In(q, w.members[p])

CanEnable(w, p) ==
    /\ w.members[p] # <<>> /\ w.shared[p].fit
    /\ \A q \in Players : Within(w, p, q) => w.shared[p].ticks[q] = "recent"

\* Party::updateSharedExperience
Update(w, p) ==
    IF w.shared[p].active THEN [w EXCEPT !.shared[p].enabled = CanEnable(w, p)] ELSE w

\* Mutant of ClearPoints: who leaves, or has rested, keeps its points.
ClearPointsNot(w, p, q) == w

\* Party::clearPlayerPoints
ClearPoints(w, p, q) ==
    IF w.shared[p].ticks[q] = "none" THEN w
    ELSE Update([w EXCEPT !.shared[p].ticks[q] = "none"], p)

\* Mutant of Disband: the invitees are not told.
DisbandKeepsInvitations(w, p) ==
    [w EXCEPT !.leader[p] = NoPlayer, !.members[p] = <<>>, !.invites[p] = {},
              !.shared[p] = NotShared,
              !.party = [q \in Players |->
                  IF Within(w, p, q) THEN NoParty ELSE w.party[q]]]

\* The party unlinks everyone and deletes itself.
Disband(w, p) ==
    [w EXCEPT !.leader[p] = NoPlayer, !.members[p] = <<>>, !.invites[p] = {},
              !.shared[p] = NotShared,
              !.party = [q \in Players |->
                  IF Within(w, p, q) THEN NoParty ELSE w.party[q]],
              !.invitations = [q \in Players |->
                  IF q \in w.invites[p] THEN w.invitations[q] \ {p} ELSE w.invitations[q]]]

DisbandIfEmpty(w, p) == IF IsEmpty(w, p) THEN Disband(w, p) ELSE w

\* Party::removeInvite, with removeFromPlayer.
RemoveInvite(w, p, q) ==
    IF q \notin w.invites[p] THEN w
    ELSE DisbandIfEmpty([w EXCEPT !.invites[p] = @ \ {q}, !.invitations[q] = @ \ {p}], p)

\* Player::clearPartyInvitations: removeInvite on every party that invited q;
\* those left without anyone disband.
ClearInvitations(w, q) ==
    LET inviting == {p \in w.invitations[q] : q \in w.invites[p]}
        left     == [p \in Parties |-> IF p \in inviting THEN w.invites[p] \ {q} ELSE w.invites[p]]
        gone     == {p \in inviting : w.members[p] = <<>> /\ left[p] = {}}
    IN [w EXCEPT !.invites = left,
                 !.leader = [p \in Parties |-> IF p \in gone THEN NoPlayer ELSE w.leader[p]],
                 !.party = [x \in Players |-> IF \E p \in gone : w.leader[p] = x THEN NoParty
                                              ELSE w.party[x]],
                 !.shared = [p \in Parties |-> IF p \in gone THEN NotShared ELSE w.shared[p]],
                 !.invitations[q] = {}]

\* Mutant of PassLeadership: the new leader stays in the list of members.
PassLeadershipKeepsMember(w, p, q) ==
    IF w.leader[p] = q \/ w.party[q] # p THEN w
    ELSE [w EXCEPT !.members[p] = <<w.leader[p]>> \o @, !.leader[p] = q]

PassLeadership(w, p, q) ==
    IF w.leader[p] = q \/ w.party[q] # p THEN w
    ELSE Update([w EXCEPT !.members[p] = <<w.leader[p]>> \o RemoveFirst(@, q), !.leader[p] = q], p)

\* Mutant of Leave: a party that has lost its last member is kept.
LeaveKeepsEmpty(w, p, q) ==
    LET leads   == w.leader[p] = q
        missing == leads /\ \/ w.members[p] = <<>>
                            \/ Len(w.members[p]) = 1 /\ w.invites[p] = {}
        passed  == IF leads /\ ~missing THEN PassLeadership(w, p, Head(w.members[p])) ELSE w
        left    == Update([passed EXCEPT !.members[p] = RemoveFirst(@, q), !.party[q] = NoParty], p)
        cleared == ClearPoints(left, p, q)
    IN IF missing THEN Disband(cleared, p) ELSE cleared

\* Mutant of Leave: a leader leaves without a successor.
LeaveHeadless(w, p, q) ==
    LET leads == w.leader[p] = q
        left  == [w EXCEPT !.members[p] = RemoveFirst(@, q), !.party[q] = NoParty,
                           !.leader[p] = IF leads THEN NoPlayer ELSE @]
    IN IF leads /\ w.members[p] = <<>> THEN Disband(left, p) ELSE DisbandIfEmpty(left, p)

\* Party::leaveParty: a leader is succeeded by the first member, unless that
\* would leave one player with nobody invited.
Leave(w, p, q) ==
    LET leads   == w.leader[p] = q
        missing == leads /\ \/ w.members[p] = <<>>
                            \/ Len(w.members[p]) = 1 /\ w.invites[p] = {}
        passed  == IF leads /\ ~missing THEN PassLeadership(w, p, Head(w.members[p])) ELSE w
        left    == Update([passed EXCEPT !.members[p] = RemoveFirst(@, q), !.party[q] = NoParty], p)
        cleared == ClearPoints(left, p, q)
    IN IF missing THEN Disband(cleared, p) ELSE DisbandIfEmpty(cleared, p)

\* Mutant of Join: the leader keeps the invitations it has received.
JoinKeepsLeadersInvitations(w, p, q) ==
    Update(ClearInvitations([w EXCEPT !.members[p] = Append(@, q), !.party[q] = p], q), p)

\* Mutant of Join: whether experience is shared is not looked at again.
JoinUnseen(w, p, q) ==
    LET u == IF w.members[p] = <<>> THEN ClearInvitations(w, w.leader[p]) ELSE w
    IN ClearInvitations([u EXCEPT !.members[p] = Append(@, q), !.party[q] = p], q)

\* Party::joinParty: with its first member the party is formed, and the leader
\* loses the invitations it has received itself.
Join(w, p, q) ==
    LET u == IF w.members[p] = <<>> THEN ClearInvitations(w, w.leader[p]) ELSE w
        v == [u EXCEPT !.members[p] = Append(@, q), !.party[q] = p]
    IN Update(ClearInvitations(v, q), p)

-----------------------------------------------------------------------------
(* Game: what the clients ask for.                                         *)

Leads(a, p)    == party[a] = p /\ leader[p] = a
Inviting(a, b) == \E p \in Parties : Leads(a, p) /\ b \in inviteList[p]

\* Game::playerInviteToParty, which creates the party when there is none.
InviteToParty(a, b) ==
    /\ a # b /\ {a, b} \subseteq online
    /\ ~Inviting(b, a)
    /\ party[b] = NoParty
    /\ \E p \in Parties :
        /\ IF party[a] = NoParty THEN ~Exists(p) ELSE Leads(a, p)
        /\ b \notin inviteList[p]
        /\ Become([World EXCEPT !.leader[p] = a, !.party[a] = p,
                                !.invites[p] = @ \cup {b}, !.invitations[b] = @ \cup {p}])
    /\ UNCHANGED online

JoinParty(b, a) ==
    /\ {a, b} \subseteq online
    /\ Inviting(a, b)
    /\ party[b] = NoParty
    /\ \E fit \in BOOLEAN : Become(Join(Anew(World, party[a], fit), party[a], b))
    /\ UNCHANGED online

RevokeInvitation(a, b) ==
    /\ {a, b} \subseteq online
    /\ Inviting(a, b)
    /\ Become(RemoveInvite(World, party[a], b))
    /\ UNCHANGED online

PassPartyLeadership(a, b) ==
    /\ {a, b} \subseteq online /\ a # b
    /\ \E p \in Parties : /\ Leads(a, p)
                          /\ party[b] = p
                          /\ \E fit \in BOOLEAN :
                                Become(PassLeadership(Anew(World, p, fit), p, b))
    /\ UNCHANGED online

LeaveParty(a) ==
    /\ a \in online
    /\ party[a] # NoParty
    /\ \E fit \in BOOLEAN : Become(Leave(Anew(World, party[a], fit), party[a], a))
    /\ UNCHANGED online

EnableSharedPartyExperience(a, active) ==
    /\ a \in online
    /\ \E p \in Parties :
        /\ Leads(a, p)
        /\ shared[p].active # active
        /\ Become([World EXCEPT !.shared[p] =
               [shared[p] EXCEPT !.active = active,
                                 !.enabled = IF active THEN CanEnable(World, p)
                                             ELSE shared[p].enabled]])
    /\ UNCHANGED online

-----------------------------------------------------------------------------
(* Player: what disturbs shared experience.                                *)

\* Player::onCreatureMove of its own, and changes of its level (whom a death takes
\* out of the game leaves the party, in Logout).
Roam(a) ==
    /\ party[a] # NoParty
    /\ \E fit \in BOOLEAN : Become(Update(Anew(World, party[a], fit), party[a]))
    /\ UNCHANGED online

\* Party::updatePlayerTicks, of one who hurts a monster or heals a partner.
Fight(a) ==
    /\ party[a] # NoParty
    /\ Become(Update([World EXCEPT !.shared[party[a]].ticks[a] = "recent"], party[a]))
    /\ UNCHANGED online

\* PZ_LOCKED milliseconds have passed since: nobody looks.
Tire(a) ==
    /\ party[a] # NoParty
    /\ shared[party[a]].ticks[a] = "recent"
    /\ shared' = [shared EXCEPT ![party[a]].ticks[a] = "old"]
    /\ UNCHANGED <<online, leader, memberList, inviteList, party, invitations>>

\* Player::onIdleStatus
Rest(a) ==
    /\ party[a] # NoParty
    /\ Become(ClearPoints(World, party[a], a))
    /\ UNCHANGED online

Login(a) == /\ a \notin online
            /\ online' = online \cup {a}
            /\ UNCHANGED <<leader, memberList, inviteList, party, invitations, shared>>

\* Mutant of Logout: the parties that invited the player keep it on their list.
LogoutKeepsInvitations(a) ==
    /\ a \in online
    /\ Become(IF party[a] = NoParty THEN World ELSE Leave(World, party[a], a))
    /\ online' = online \ {a}

\* Player::onRemoveCreature.
Logout(a) ==
    /\ a \in online
    /\ LET w == ClearInvitations(World, a)
       IN IF w.party[a] = NoParty THEN Become(w)
          ELSE \E fit \in BOOLEAN : Become(Leave(Anew(w, w.party[a], fit), w.party[a], a))
    /\ online' = online \ {a}

Next == \E a \in Players :
    \/ Login(a)
    \/ Logout(a)
    \/ LeaveParty(a)
    \/ \E active \in BOOLEAN : EnableSharedPartyExperience(a, active)
    \/ Roam(a) \/ Fight(a) \/ Tire(a) \/ Rest(a)
    \/ \E b \in Players : \/ InviteToParty(a, b) \/ JoinParty(a, b)
                          \/ RevokeInvitation(a, b) \/ PassPartyLeadership(a, b)

Spec == Init /\ [][Next]_vars

-----------------------------------------------------------------------------
(* Properties.                                                             *)

(***************************************************************************)
(* A player is in a party exactly when the party has it, once, as leader   *)
(* or as member; so no player is in two, and none keeps a pointer to a     *)
(* party that deleted itself.  A party of one with nobody invited does not *)
(* stay.                                                                   *)
(***************************************************************************)
MembershipAgrees ==
    \A p \in Parties :
        /\ \A q \in Players :
            (Exists(p) /\ party[q] = p) <=> Within(World, p, q)
        /\ \A q \in Players : party[q] = p => Exists(p)
        /\ ~In(leader[p], memberList[p])
        /\ \A i, j \in 1 .. Len(memberList[p]) : memberList[p][i] = memberList[p][j] => i = j
        /\ Exists(p) => ~IsEmpty(World, p)

(***************************************************************************)
(* Both ends of an invitation agree; a party that disbands, from whatever  *)
(* call, takes its invitations with it.  Once a party is formed its        *)
(* leader, like every member, has no invitation from others (party.cpp:    *)
(* 202), whoever leads it later.                                           *)
(***************************************************************************)
InvitationsAgree ==
    /\ \A p \in Parties, q \in Players : q \in inviteList[p] <=> p \in invitations[q]
    /\ \A p \in Parties : memberList[p] # <<>> =>
          \A q \in Players : Within(World, p, q) => invitations[q] = {}

(***************************************************************************)
(* No party refers to a player that has left the game: the player object   *)
(* is deleted.                                                             *)
(***************************************************************************)
OfflineIsForgotten ==
    \A p \in Parties, q \in Players \ online :
        ~Within(World, p, q) /\ q \notin inviteList[p]

(***************************************************************************)
(* While a party has shared experience on, the answer it keeps is the one  *)
(* it would compute, however its members have joined, succeeded each       *)
(* other, left, moved and fought; it may be out of date only on how long   *)
(* ago somebody fought.  And nobody earns by what was done before leaving: *)
(* ticksMap knows no others than the party's own.                          *)
(***************************************************************************)
SharingIsEarned ==
    \A p \in Parties :
        /\ shared[p].active /\ CanEnable(World, p) => shared[p].enabled
        /\ shared[p].active /\ shared[p].enabled =>
              /\ memberList[p] # <<>> /\ shared[p].fit
              /\ \A q \in Players : Within(World, p, q) => shared[p].ticks[q] # "none"
        /\ \A q \in Players : shared[p].ticks[q] # "none" => Within(World, p, q)
=============================================================================
