----------------------------- MODULE RideRooms ------------------------------
(***************************************************************************)
(* The room ride:<id> of each ride of one user, as his sockets see it: the *)
(* key active_ride:<user> that a connecting socket rejoins by, and the     *)
(* calls of joinRideRoom and leaveRideRoom, which nobody awaits: pickDriver*)
(* starts the one, completeRide and cancelRide the other.  Also the entry  *)
(* of a rider among the watchers of nearby drivers.                        *)
(*                                                                         *)
(* One step per await.  Socket.IO is external: fetchSockets returns the    *)
(* sockets whose handshake is over, and a socket that closes leaves its    *)
(* rooms.  A Redis command may fail, and the process may die.              *)
(***************************************************************************)
EXTENDS Naturals

CONSTANTS Rides,   \* rides of the user, each active once
          NoRide,  \* no ride
          Phones,  \* sockets of the user
          NoPhone  \* no socket

ASSUME RoomsAssumption == NoRide \notin Rides /\ NoPhone \notin Phones

VARIABLES stage,      \* each ride: "before", "active" (accepted up to in progress), "over"
          activeKey,  \* active_ride:<user>, the ride it names
          phone,      \* each socket's handshake: see PhoneStages
          found,      \* the ride a handshake has read from the key
          rooms,      \* the ride rooms each socket is in
          joining,    \* each ride's joinRideRoom
          leaving,    \* each ride's leaveRideRoom
          watcher,    \* the socket that asked for nearby drivers
          mixed,      \* history: rides left while a join or a handshake was under way, or
                      \* one of whose calls failed
          missed      \* history: active rides that a handshake did not find in the key, or
                      \* one of whose calls failed

roomVars == <<stage, activeKey, phone, found, rooms, joining, leaving, watcher, mixed, missed>>

PhoneStages == {"off", "greeted", "rejoining", "connected"}

\* A call: not made, about to fetch, with sockets left to move, about to write the key, done.
RoomCall == [at : {"none", "fetch", "move", "key", "done"}, todo : SUBSET Phones]

NoCallYet == [at |-> "none", todo |-> {}]
FetchNext == [at |-> "fetch", todo |-> {}]
CallDone  == [at |-> "done", todo |-> {}]

UnderWay(room) == room.at \in {"fetch", "move", "key"}

Connected == {s \in Phones : phone[s] = "connected"}

-----------------------------------------------------------------------------
RoomsInit ==
    /\ stage = [r \in Rides |-> "before"]
    /\ activeKey = NoRide
    /\ phone = [s \in Phones |-> "off"]
    /\ found = [s \in Phones |-> NoRide]
    /\ rooms = [s \in Phones |-> {}]
    /\ joining = [r \in Rides |-> NoCallYet]
    /\ leaving = [r \in Rides |-> NoCallYet]
    /\ watcher = NoPhone
    /\ mixed = {} /\ missed = {}

(* Rides *)

\* pickDriver: the join is started.  Nobody asks whether the user is in another ride.
Accepted(r) ==
    /\ stage[r] = "before"
    /\ stage' = [stage EXCEPT ![r] = "active"]
    /\ joining' = [joining EXCEPT ![r] = FetchNext]
    /\ missed' = IF \E s \in Phones : phone[s] = "rejoining" THEN missed \cup {r} ELSE missed
    /\ UNCHANGED <<activeKey, phone, found, rooms, leaving, watcher, mixed>>

\* completeRide or cancelRide: the leave is started, the join perhaps under way.
Over(r) ==
    /\ stage[r] = "active"
    /\ stage' = [stage EXCEPT ![r] = "over"]
    /\ leaving' = [leaving EXCEPT ![r] = FetchNext]
    /\ mixed' = IF UnderWay(joining[r]) \/ \E s \in Phones : found[s] = r
                THEN mixed \cup {r} ELSE mixed
    /\ UNCHANGED <<activeKey, phone, found, rooms, joining, watcher, missed>>

(* joinRideRoom *)

JoinFetch(r) ==
    /\ joining[r].at = "fetch"
    /\ joining' = [joining EXCEPT ![r] = [at |-> "move", todo |-> Connected]]
    /\ UNCHANGED <<stage, activeKey, phone, found, rooms, leaving, watcher, mixed, missed>>

\* A socket that has closed meanwhile is passed over.
JoinNext(r) ==
    /\ joining[r].at = "move"
    /\ IF joining[r].todo = {}
       THEN joining' = [joining EXCEPT ![r].at = "key"] /\ UNCHANGED rooms
       ELSE \E s \in joining[r].todo :
              /\ joining' = [joining EXCEPT ![r].todo = @ \ {s}]
              /\ rooms' = IF s \in Connected THEN [rooms EXCEPT ![s] = @ \cup {r}] ELSE rooms
    /\ UNCHANGED <<stage, activeKey, phone, found, leaving, watcher, mixed, missed>>

JoinKey(r) ==
    /\ joining[r].at = "key"
    /\ joining' = [joining EXCEPT ![r] = CallDone]
    /\ activeKey' = r
    /\ UNCHANGED <<stage, phone, found, rooms, leaving, watcher, mixed, missed>>

(* leaveRideRoom *)

LeaveFetch(r) ==
    /\ leaving[r].at = "fetch"
    /\ leaving' = [leaving EXCEPT ![r] = [at |-> "move", todo |-> Connected]]
    /\ UNCHANGED <<stage, activeKey, phone, found, rooms, joining, watcher, mixed, missed>>

\* Mutant: only the first socket is made to leave.
LeaveOne(r) ==
    /\ leaving[r].at = "move"
    /\ IF leaving[r].todo = {}
       THEN leaving' = [leaving EXCEPT ![r].at = "key"] /\ UNCHANGED rooms
       ELSE \E s \in leaving[r].todo :
              /\ leaving' = [leaving EXCEPT ![r].todo = {}]
              /\ rooms' = [rooms EXCEPT ![s] = @ \ {r}]
    /\ UNCHANGED <<stage, activeKey, phone, found, joining, watcher, mixed, missed>>

LeaveNext(r) ==
    /\ leaving[r].at = "move"
    /\ IF leaving[r].todo = {}
       THEN leaving' = [leaving EXCEPT ![r].at = "key"] /\ UNCHANGED rooms
       ELSE \E s \in leaving[r].todo :
              /\ leaving' = [leaving EXCEPT ![r].todo = @ \ {s}]
              /\ rooms' = [rooms EXCEPT ![s] = @ \ {r}]
    /\ UNCHANGED <<stage, activeKey, phone, found, joining, watcher, mixed, missed>>

\* DEL, whatever ride the key names by now.
LeaveKey(r) ==
    /\ leaving[r].at = "key"
    /\ leaving' = [leaving EXCEPT ![r] = CallDone]
    /\ activeKey' = NoRide
    /\ UNCHANGED <<stage, phone, found, rooms, joining, watcher, mixed, missed>>

\* The key is not written: logged and swallowed.
KeyFails(r) ==
    /\ \/ joining[r].at = "key" /\ joining' = [joining EXCEPT ![r] = CallDone] /\ UNCHANGED leaving
       \/ leaving[r].at = "key" /\ leaving' = [leaving EXCEPT ![r] = CallDone] /\ UNCHANGED joining
    /\ mixed' = mixed \cup {r} /\ missed' = missed \cup {r}
    /\ UNCHANGED <<stage, activeKey, phone, found, rooms, watcher>>

\* The process dies, among other causes when fetchSockets rejects: nobody handles that, and
\* server.ts exits.  The calls are lost, the sockets closed.
ProcessDies ==
    LET Lost == {r \in Rides : UnderWay(joining[r]) \/ UnderWay(leaving[r])}
        Ended(call) == [r \in Rides |-> IF UnderWay(call[r]) THEN CallDone ELSE call[r]]
    IN  /\ joining' = Ended(joining) /\ leaving' = Ended(leaving)
        /\ mixed' = mixed \cup Lost /\ missed' = missed \cup Lost
        /\ phone' = [s \in Phones |-> "off"]
        /\ rooms' = [s \in Phones |-> {}]
        /\ found' = [s \in Phones |-> NoRide]
        /\ watcher' = NoPhone
        /\ UNCHANGED <<stage, activeKey>>

-----------------------------------------------------------------------------
(* Sockets *)

\* The handshake has passed the token checks and joined the user's own room.
Greet(s) ==
    /\ phone[s] = "off"
    /\ phone' = [phone EXCEPT ![s] = "greeted"]
    /\ UNCHANGED <<stage, activeKey, found, rooms, joining, leaving, watcher, mixed, missed>>

ReadKey(s) ==
    /\ phone[s] = "greeted"
    /\ phone' = [phone EXCEPT ![s] = "rejoining"]
    /\ found' = [found EXCEPT ![s] = activeKey]
    /\ mixed' = mixed \cup {r \in Rides : activeKey = r /\ stage[r] = "over"}
    /\ missed' = missed \cup {r \in Rides : activeKey # r /\ stage[r] = "active"}
    /\ UNCHANGED <<stage, activeKey, rooms, joining, leaving, watcher>>

\* Mutant: the key is not acted upon.
ConnectOnly(s) ==
    /\ phone[s] = "rejoining"
    /\ phone' = [phone EXCEPT ![s] = "connected"]
    /\ found' = [found EXCEPT ![s] = NoRide]
    /\ UNCHANGED <<stage, activeKey, rooms, joining, leaving, watcher, mixed, missed>>

\* The room is joined, and the socket is connected.
Rejoin(s) ==
    /\ phone[s] = "rejoining"
    /\ phone' = [phone EXCEPT ![s] = "connected"]
    /\ rooms' = [rooms EXCEPT ![s] = {found[s]} \ {NoRide}]
    /\ found' = [found EXCEPT ![s] = NoRide]
    /\ UNCHANGED <<stage, activeKey, joining, leaving, watcher, mixed, missed>>

\* Mutant: the watcher is left in the map.
CloseQuietly(s) ==
    /\ phone[s] # "off"
    /\ phone' = [phone EXCEPT ![s] = "off"]
    /\ rooms' = [rooms EXCEPT ![s] = {}]
    /\ found' = [found EXCEPT ![s] = NoRide]
    /\ UNCHANGED <<stage, activeKey, joining, leaving, watcher, mixed, missed>>

\* A disconnect, or the sweep of startTokenExpiryCheck.  The watcher goes with any socket
\* of the user whose handlers were registered.
Close(s) ==
    /\ phone[s] # "off"
    /\ phone' = [phone EXCEPT ![s] = "off"]
    /\ rooms' = [rooms EXCEPT ![s] = {}]
    /\ found' = [found EXCEPT ![s] = NoRide]
    /\ watcher' = IF phone[s] = "connected" THEN NoPhone ELSE watcher
    /\ UNCHANGED <<stage, activeKey, joining, leaving, mixed, missed>>

\* nearby:subscribe and nearby:unsubscribe
Subscribe(s) ==
    /\ s \in Connected
    /\ watcher' = s
    /\ UNCHANGED <<stage, activeKey, phone, found, rooms, joining, leaving, mixed, missed>>

Unsubscribe(s) ==
    /\ s \in Connected
    /\ watcher' = NoPhone
    /\ UNCHANGED <<stage, activeKey, phone, found, rooms, joining, leaving, mixed, missed>>

RoomStep(r) == \/ JoinFetch(r) \/ JoinNext(r) \/ JoinKey(r)
               \/ LeaveFetch(r) \/ LeaveNext(r) \/ LeaveKey(r)

RoomsNext ==
    \/ \E r \in Rides : Accepted(r) \/ Over(r) \/ RoomStep(r) \/ KeyFails(r)
    \/ \E s \in Phones : \/ Greet(s) \/ ReadKey(s) \/ Rejoin(s) \/ Close(s)
                         \/ Subscribe(s) \/ Unsubscribe(s)
    \/ ProcessDies

RoomsSpec == RoomsInit /\ [][RoomsNext]_roomVars

-----------------------------------------------------------------------------
(* Properties *)

\* Rides, sockets and calls keep their types; and the map of watchers holds no socket that
\* has gone: it does not grow with every rider who ever looked.
RoomsTypeOK ==
    /\ stage \in [Rides -> {"before", "active", "over"}]
    /\ activeKey \in Rides \cup {NoRide}
    /\ phone \in [Phones -> PhoneStages]
    /\ found \in [Phones -> Rides \cup {NoRide}]
    /\ rooms \in [Phones -> SUBSET Rides]
    /\ joining \in [Rides -> RoomCall] /\ leaving \in [Rides -> RoomCall]
    /\ watcher \in Connected \cup {NoPhone}
    /\ mixed \subseteq Rides /\ missed \subseteq Rides

\* Once its leave is done, a ride has nobody in its room and no key, unless the leave
\* overlapped the join or a handshake, or one of the calls failed.
LeftRideIsForgotten ==
    \A r \in Rides : leaving[r].at = "done" /\ r \notin mixed =>
        activeKey # r /\ ~\E s \in Phones : r \in rooms[s]

\* While a ride goes on, every socket of the user is in its room, those that connected
\* later too; unless one read the key before the join wrote it, or after another ride's join
\* overwrote it or its leave deleted it.
PhonesAreInTheRoom ==
    \A r \in Rides : stage[r] = "active" /\ joining[r].at = "done" /\ r \notin missed =>
        \A s \in Connected : r \in rooms[s]
=============================================================================
