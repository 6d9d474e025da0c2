------------------------------- MODULE Decay -------------------------------
(***************************************************************************)
(* Items that decay (decay.cpp, with its callers in game.cpp, item.cpp and *)
(* container.cpp): a map from time stamps to the items that expire then,   *)
(* and a scheduler event, checkDecay, meant to run when the first bucket   *)
(* is due.  An item carries its own view in attributes: its decay state    *)
(* and the stamp it is listed under.  The map holds a reference on every   *)
(* listed item; ReleaseItem defers the release to Game::cleanup.           *)
(*                                                                         *)
(* Everything here runs on the dispatcher thread, one task at a time, so a *)
(* client's call is one action.  checkDecay is split into the move of the  *)
(* due buckets to a temporary vector, one step per item, and the end that  *)
(* looks at the iterator it kept.  A task takes no time.                   *)
(***************************************************************************)
EXTENDS Naturals, FiniteSets

CONSTANTS
    Items,
    Inside,     \* the items each container holds
    Durations,  \* in units of SCHEDULER_MINTICKS, 50 ms
    MinTicks,   \* SCHEDULER_MINTICKS
    Cap,        \* MAX_DECAY_PER_TICK
    MaxStart,   \* bound: nothing starts to decay later than that
    MaxTime,    \* bound: the clock stops there, when no check is due later
    MaxChecks,  \* bound: clients start nothing with as many checks pending,
    MaxRelease, \* bound: nor an item with as many releases pending
    None,       \* no stamp
    End,        \* the end iterator of the map
    Gone        \* an iterator whose bucket was erased

ASSUME DecayAssumption ==
    /\ IsFiniteSet(Items)
    /\ Inside \in [Items -> SUBSET Items]
    /\ \A c \in Items : \A i \in Inside[c] : Inside[i] = {} /\ \A e \in Items : i \in Inside[e] => e = c
    /\ Durations \subseteq Nat \ {0}
    /\ MinTicks \in Nat \ {0} /\ Cap \in Nat \ {0}
    /\ {MaxStart, MaxTime, MaxChecks, MaxRelease} \subseteq Nat
    /\ \A d \in Durations : MaxStart + d <= MaxTime
    /\ None \notin Nat /\ End \notin Nat /\ Gone \notin Nat /\ Gone # End

VARIABLES
    map,       \* Decay::decayMap; an absent bucket is empty here
    checks,    \* the pending checkDecay events: identifier to due time
    eventId,   \* Decay::eventId, possibly of an event that has fired
    item,      \* the attributes, references and place of each item
    release,   \* how often each item is in Game::ToReleaseItems
    temp,      \* tempItems still to process, during checkDecay
    saved,     \* the iterator checkDecay keeps over its loop
    pc,        \* "idle" or "checking"
    dangling,  \* checkDecay has read an erased bucket (history)
    now        \* OTSYS_TIME

vars == <<map, checks, eventId, item, release, temp, saved, pc, dangling, now>>

\* The stamps that occur.
Times == 0 .. MaxTime

States == {"none", "pending", "true", "stopping"}
Places == {"unborn", "placed", "removed", "freed"}

ItemRecord == [state : States, stamp : Times \cup {None}, burns : BOOLEAN,
               place : Places, refs : Nat, copy : BOOLEAN]

(***************************************************************************)
(* The one type invariant.                                                 *)
(***************************************************************************)
TypeOK ==
    /\ map \in [Times -> SUBSET Items]
    /\ DOMAIN checks \subseteq Nat /\ \A k \in DOMAIN checks : checks[k] \in Nat
    /\ eventId \in Nat
    /\ item \in [Items -> ItemRecord]
    /\ release \in [Items -> Nat]
    /\ temp \in SUBSET Items
    /\ saved \in Times \cup {End, Gone}
    /\ pc \in {"idle", "checking"}
    /\ dangling \in BOOLEAN
    /\ now \in Nat

Init ==
    /\ map = [t \in Times |-> {}]
    /\ checks = [k \in {} |-> 0] /\ eventId = 0
    /\ item = [i \in Items |-> [state |-> "none", stamp |-> None, burns |-> FALSE,
                                place |-> "unborn", refs |-> 0, copy |-> FALSE]]
    /\ release = [i \in Items |-> 0]
    /\ temp = {} /\ saved = End /\ pc = "idle" /\ dangling = FALSE
    /\ now = 0

(* What the operations below change, so that they compose like the calls.  *)
World == [map |-> map, checks |-> checks, id |-> eventId, item |-> item,
          release |-> release, saved |-> saved]

Become(w) == /\ map' = w.map
             /\ checks' = w.checks
             /\ eventId' = w.id
             /\ item' = w.item
             /\ release' = w.release
             /\ saved' = w.saved

\* r takes the place of an item's record.
Put(w, i, r) == [w EXCEPT !.item[i] = r]

-----------------------------------------------------------------------------
(* The scheduler, as its clients see it.                                   *)

FreshId(w) == CHOOSE k \in 1 .. Cardinality(DOMAIN w.checks) + 1 : k \notin DOMAIN w.checks

AddCheck(w, delay) ==
    LET k   == FreshId(w)
        due == now + (IF delay < MinTicks THEN MinTicks ELSE delay)
    IN  [w EXCEPT !.checks = [j \in DOMAIN w.checks \cup {k} |-> IF j = k THEN due ELSE w.checks[j]],
                  !.id = k]

\* stopEvent: an identifier that has fired is not there any more.
StopCheck(w) == [w EXCEPT !.checks = [j \in DOMAIN w.checks \ {w.id} |-> w.checks[j]]]

-----------------------------------------------------------------------------
(* Decay and Game.                                                         *)

Buckets(w) == {t \in Times : w.map[t] # {}}
IsFirst(w, t) == t \in Buckets(w) /\ \A u \in Buckets(w) : t <= u

\* Item::canDecay: a type that decays, and not removed from the world.
CanDecay(w, i) ==
    /\ w.item[i].burns
    /\ w.item[i].place = "placed"
    /\ \A c \in Items : i \in Inside[c] => w.item[c].place = "placed"

\* Decay::stopDecay, for each item of X that is found under its stamp; the
\* bucket of the last one is erased, and iterators to it with it.
Found(w, X) == {i \in X : w.item[i].stamp # None /\ i \in w.map[w.item[i].stamp]}

Unlist(w, X) ==
    LET F    == Found(w, X)
        left == [t \in Times |-> {i \in w.map[t] : ~(i \in F /\ w.item[i].stamp = t)}]
    IN [w EXCEPT
        !.map     = left,
        !.item    = [i \in Items |-> IF i \in F THEN [w.item[i] EXCEPT !.state = "none"] ELSE w.item[i]],
        !.release = [i \in Items |-> IF i \in F THEN w.release[i] + 1 ELSE w.release[i]],
        !.saved   = IF w.saved \in Times /\ left[w.saved] = {} THEN Gone ELSE w.saved]

\* Game::stopDecay of each item of X.
GameStop(w, X) ==
    LET S == {i \in X : w.item[i].state # "none"}
        u == Unlist(w, S)
    IN [u EXCEPT !.item = [i \in Items |->
            IF i \notin S THEN u.item[i]
            ELSE IF w.item[i].stamp = None THEN [u.item[i] EXCEPT !.state = "none"]
            ELSE [u.item[i] EXCEPT !.stamp = None]]]

\* The item's own record of being listed under t, with the reference of the map.
Listing(w, i, t) == [w.item[i] EXCEPT !.state = "true", !.stamp = t, !.refs = w.item[i].refs + 1]

\* Mutant of List: the map takes no reference.
ListNoReference(w, i, d) ==
    LET u == Unlist(w, {i})
        t == now + d
        v == IF Buckets(u) = {} THEN AddCheck(u, d)
             ELSE IF \A b \in Buckets(u) : t < b THEN AddCheck(StopCheck(u), d)
             ELSE u
    IN [Put(v, i, [v.item[i] EXCEPT !.state = "true", !.stamp = t]) EXCEPT !.map[t] = @ \cup {i}]

\* Mutant of List: an item that is listed already is not taken off first.
ListTwice(w, i, d) ==
    LET t == now + d
        v == IF Buckets(w) = {} THEN AddCheck(w, d)
             ELSE IF \A b \in Buckets(w) : t < b THEN AddCheck(StopCheck(w), d)
             ELSE w
    IN [Put(v, i, Listing(v, i, t)) EXCEPT !.map[t] = @ \cup {i}]

\* Mutant of List: an earlier stamp does not bring the check forward.
ListKeepsCheck(w, i, d) ==
    LET u == Unlist(w, {i})
        t == now + d
        v == IF Buckets(u) = {} THEN AddCheck(u, d) ELSE u
    IN [Put(v, i, Listing(v, i, t)) EXCEPT !.map[t] = @ \cup {i}]

\* Decay::startDecay.
List(w, i, d) ==
    LET u == Unlist(w, {i})
        t == now + d
        v == IF Buckets(u) = {} THEN AddCheck(u, d)
             ELSE IF \A b \in Buckets(u) : t < b THEN AddCheck(StopCheck(u), d)
             ELSE u
    IN [Put(v, i, Listing(v, i, t)) EXCEPT !.map[t] = @ \cup {i}]

\* Game::startDecay, of an item whose duration is positive.
GameStart(w, i, d) ==
    LET s == w.item[i].state IN
    IF s = "stopping" \/ (~CanDecay(w, i) /\ s = "true") THEN GameStop(w, {i})
    ELSE IF ~CanDecay(w, i) \/ s = "true" THEN w
    ELSE List(w, i, d)

\* Item::setID: to a type that decays, the duration starts anew; to one that
\* does not, a decay that has begun is marked for stopping.
SetBurning(w, i) == Put(w, i, [w.item[i] EXCEPT !.burns = TRUE, !.state = "pending"])
SetInert(w, i)   == Put(w, i, [w.item[i] EXCEPT !.burns = FALSE,
                        !.state = IF w.item[i].state = "none" THEN "none" ELSE "stopping"])

Release(w, i) == [w EXCEPT !.release[i] = @ + 1]

\* internalRemoveItem: the item leaves the world, and its decay and that of
\* what it contains are stopped.
RemoveItem(w, i) ==
    Release(GameStop(Put(w, i, [w.item[i] EXCEPT !.place = "removed"]), {i} \cup Inside[i]), i)

-----------------------------------------------------------------------------
(* The clients: map, players and scripts.                                  *)

Idle == pc = "idle" /\ UNCHANGED <<temp, pc, dangling, now>>

MayStart(i) == /\ now <= MaxStart
               /\ Cardinality(DOMAIN checks) < MaxChecks
               /\ release[i] < MaxRelease

Placed(i) == item[i].place = "placed"

\* An item that decays is created in the world, or in a container there.
Place(i, d) ==
    /\ Idle /\ MayStart(i)
    /\ item[i].place = "unborn"
    /\ \A c \in Items : i \in Inside[c] => Placed(c)
    /\ Become(GameStart(Put(World, i, [item[i] EXCEPT !.place = "placed", !.refs = 1,
                                                     !.burns = TRUE, !.state = "pending"]), i, d))

\* Item::clone, of a stack that is moved or split or by a script; of a container
\* with nothing in it.  The attributes of i are copied with what they say of its
\* decay.  startDecaying, before the copy is anywhere, does not find it in the map
\* and takes its stamp away; some callers start it again where it is put.
Clone(i, j, d) ==
    /\ Idle /\ MayStart(j)
    /\ Placed(i) /\ item[j].place = "unborn"
    /\ \A k \in Inside[i] : ~Placed(k)
    /\ \A c \in Items : j \in Inside[c] => Placed(c)
    /\ LET copy == GameStart(Put(World, j,
                      [item[i] EXCEPT !.place = "unborn", !.refs = 1, !.copy = TRUE]), j, d)
           put  == Put(copy, j, [copy.item[j] EXCEPT !.place = "placed"])
       IN  Become(put) \/ Become(GameStart(put, j, d))

\* transformItem, in place.
Ignite(i, d) ==
    /\ Idle /\ MayStart(i)
    /\ Placed(i) /\ ~item[i].burns
    /\ Become(GameStart(SetBurning(World, i), i, d))

Extinguish(i) ==
    /\ Idle
    /\ Placed(i) /\ item[i].burns
    /\ \E d \in Durations : Become(GameStart(SetInert(World, i), i, d))

\* A script sets the duration, or the decay state.
SetDuration(i, d) ==
    /\ Idle /\ MayStart(i)
    /\ Placed(i)
    /\ Become(GameStart(Put(World, i, [item[i] EXCEPT !.state = "pending"]), i, d))

ScriptStarts(i, d) ==
    /\ Idle /\ MayStart(i)
    /\ Placed(i)
    /\ Become(GameStart(World, i, d))

ScriptStops(i) ==
    /\ Idle
    /\ Placed(i)
    /\ Become(GameStop(World, {i}))

Remove(i) ==
    /\ Idle
    /\ Placed(i)
    /\ Become(RemoveItem(World, i))

\* Game::cleanup; the destructor of a container releases what it holds.
Cleanup ==
    LET rest(i)  == item[i].refs - release[i]
        freed    == {i \in Items : item[i].place \notin {"unborn", "freed"} /\ rest(i) = 0}
        orphans  == {i \in Items : \E c \in freed : i \in Inside[c] /\ Placed(i)}
        final(i) == IF i \in orphans THEN rest(i) - 1 ELSE rest(i)
        place(i) == IF item[i].place = "unborn" THEN "unborn"
                    ELSE IF final(i) = 0 THEN "freed"
                    ELSE IF i \in orphans THEN "removed" ELSE item[i].place
    IN  /\ Idle
        /\ \E i \in Items : release[i] > 0
        /\ item' = [i \in Items |-> [item[i] EXCEPT !.refs = final(i), !.place = place(i)]]
        /\ release' = [i \in Items |-> 0]
        /\ UNCHANGED <<map, checks, eventId, saved>>

-----------------------------------------------------------------------------
(* checkDecay.                                                             *)

\* The buckets that are due, up to the one that reaches the cap.
Taken == {t \in Buckets(World) :
            /\ t <= now
            /\ Cardinality(UNION {map[u] : u \in {v \in Times : v < t}}) < Cap}

BeginCheck(k) ==
    /\ pc = "idle"
    /\ k \in DOMAIN checks /\ checks[k] <= now
    /\ checks' = [j \in DOMAIN checks \ {k} |-> checks[j]]
    /\ temp' = UNION {map[t] : t \in Taken}
    /\ map' = [t \in Times |-> IF t \in Taken THEN {} ELSE map[t]]
    /\ IF Buckets(World) = Taken THEN saved' = End
       ELSE \E t \in Buckets(World) \ Taken :
                /\ \A u \in Buckets(World) \ Taken : t <= u
                /\ saved' = t
    /\ pc' = "checking"
    /\ UNCHANGED <<eventId, item, release, dangling, now>>

Checking(i) == pc = "checking" /\ i \in temp /\ temp' = temp \ {i} /\ UNCHANGED <<pc, dangling, now>>

\* setDecaying(DECAYING_FALSE) also removes the stamp.
Unmarked(i) == Put(World, i, [item[i] EXCEPT !.state = "none", !.stamp = None])

Spared(i) == /\ Checking(i)
             /\ ~CanDecay(World, i)
             /\ Become(Release(Unmarked(i), i))

Decays(i) == Checking(i) /\ CanDecay(World, i)

\* Mutant of Vanishes: the reference of the map is not released.
VanishesKeepsReference(i) == Decays(i) /\ Become(RemoveItem(Unmarked(i), i))

\* internalDecayItem: the item is removed, ...
Vanishes(i) == Decays(i) /\ Become(Release(RemoveItem(Unmarked(i), i), i))

\* ... or cannot be removed, ...
Stays(i) == Decays(i) /\ Become(Release(Unmarked(i), i))

\* ... or becomes an item that decays in its turn, ...
BecomesBurning(i, d) == /\ Decays(i)
                        /\ now <= MaxStart
                        /\ Become(Release(GameStart(SetBurning(Unmarked(i), i), i, d), i))

\* ... or one that does not.
BecomesInert(i) == /\ Decays(i)
                   /\ \E d \in Durations :
                        Become(Release(GameStart(SetInert(Unmarked(i), i), i, d), i))

\* Mutant of EndCheck: buckets left behind at the cap are not checked again.
EndCheckForgetsDue ==
    /\ pc = "checking" /\ temp = {}
    /\ \/ saved = End /\ Become(World)
       \/ saved \in Times /\ Become([(IF saved > now THEN AddCheck(World, saved - now) ELSE World)
                                        EXCEPT !.saved = End])
       \/ saved = Gone /\ \E d \in Times : Become([AddCheck(World, d) EXCEPT !.saved = End])
    /\ dangling' = (dangling \/ saved = Gone)
    /\ pc' = "idle"
    /\ UNCHANGED <<temp, now>>

\* The next check is due with the bucket the iterator was left at.  When that
\* bucket was erased meanwhile, any number may be read from it.
EndCheck ==
    /\ pc = "checking" /\ temp = {}
    /\ \/ saved = End /\ Become(World)
       \/ saved \in Times /\ Become([AddCheck(World, IF saved < now THEN 0 ELSE saved - now)
                                        EXCEPT !.saved = End])
       \/ saved = Gone /\ \E d \in Times : Become([AddCheck(World, d) EXCEPT !.saved = End])
    /\ dangling' = (dangling \/ saved = Gone)
    /\ pc' = "idle"
    /\ UNCHANGED <<temp, now>>

Tick == /\ pc = "idle"
        /\ now < MaxTime \/ \E k \in DOMAIN checks : now < checks[k]
        /\ now' = now + 1
        /\ UNCHANGED <<map, checks, eventId, item, release, temp, saved, pc, dangling>>

-----------------------------------------------------------------------------
Client == \E i \in Items :
    \/ \E d \in Durations : Place(i, d) \/ Ignite(i, d) \/ SetDuration(i, d) \/ ScriptStarts(i, d)
    \/ \E j \in Items, d \in Durations : Clone(i, j, d)
    \/ Extinguish(i)
    \/ ScriptStops(i)
    \/ Remove(i)

CheckStep == \/ \E i \in Items : \/ Spared(i) \/ Vanishes(i) \/ Stays(i) \/ BecomesInert(i)
                                 \/ \E d \in Durations : BecomesBurning(i, d)
             \/ EndCheck

RunCheck == \E k \in DOMAIN checks : BeginCheck(k)

Next == Client \/ RunCheck \/ CheckStep \/ Cleanup \/ Tick

(* The scheduler fires what is due, a task that has begun ends, and time   *)
(* passes.  No client is forced to do anything.                            *)
Fairness == WF_vars(RunCheck) /\ WF_vars(CheckStep) /\ WF_vars(Tick)

Spec     == Init /\ [][Next]_vars
FairSpec == Spec /\ Fairness

-----------------------------------------------------------------------------
(* Properties.                                                             *)

(***************************************************************************)
(* An item is referenced by its place in the world, by the bucket that     *)
(* lists it, by tempItems, and by the releases still to be done.  Any      *)
(* other count frees an item that is still listed, or leaks it.            *)
(***************************************************************************)
RefsBalance ==
    \A i \in Items :
        item[i].refs = (IF Placed(i) THEN 1 ELSE 0) + (IF i \in temp THEN 1 ELSE 0)
                       + Cardinality({t \in Times : i \in map[t]}) + release[i]

(***************************************************************************)
(* The map and the attributes of an item say the same: it is listed once,  *)
(* under its stamp, and an item marked as decaying, which startDecay then  *)
(* leaves alone, is one that will expire.  The calls keep the two apart.   *)
(* The exception is a copy, which may be marked although nothing will ever *)
(* make it expire.                                                         *)
(***************************************************************************)
AttributesAgree ==
    \A i \in Items :
        /\ \A t \in Times : i \in map[t] <=> item[i].stamp = t /\ i \notin temp
        /\ item[i].state = "true" => item[i].stamp # None \/ i \in temp \/ item[i].copy
        /\ item[i].stamp # None => item[i].state = "true"

(***************************************************************************)
(* While something is listed a check is pending that comes at most         *)
(* MinTicks after the first stamp, or after the present when the first     *)
(* stamp has passed, although startDecay moves only the event it           *)
(* remembers, stopDecay moves none, and a check leaves work behind at its  *)
(* cap.  (Unless checkDecay has read an erased bucket.)                    *)
(***************************************************************************)
Later(a, b) == IF a < b THEN b ELSE a

CheckCoversFirst ==
    pc = "idle" /\ ~dangling =>
        \A t \in Buckets(World) :
            \E k \in DOMAIN checks : checks[k] <= Later(t, now) + MinTicks

(***************************************************************************)
(* What is listed does not stay, once nothing new starts to decay: it      *)
(* expires, or its decay is stopped.                                       *)
(***************************************************************************)
ListedLeaves ==
    \A i \in Items : (\E t \in Times : i \in map[t]) ~> (\A t \in Times : i \notin map[t]) \/ dangling

(***************************************************************************)
(* decay.cpp:114: "Iterating here is unsafe so let's copy our items into   *)
(* temporary vector".  The copy is to make the loop over them safe; yet    *)
(* the iterator kept across that loop may be left at an erased bucket.     *)
(***************************************************************************)
IteratorStaysValid == ~dangling
=============================================================================
