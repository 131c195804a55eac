--------------------------- MODULE DriverPresence ---------------------------
(***************************************************************************)
(* Whether one driver can be found: isOnline and isApproved of his         *)
(* profile, his member of the Redis set drivers:online, the hash           *)
(* driver:<id>:meta without which a search takes him for stale, and the    *)
(* handlers, sockets and searches that change them, one step per await.    *)
(*                                                                         *)
(* The index is written by pipelines, which are no transactions: other     *)
(* clients' commands come between theirs, each command may be lost or      *)
(* refused without the others, and nobody looks at their results.  The     *)
(* process may die.  Time is a countdown in ticks.                         *)
(***************************************************************************)
EXTENDS Naturals

CONSTANTS Handlers,  \* handlers running at once for this driver
          Sockets,   \* connections of the driver's app
          MetaTTL    \* META_TTL, in ticks

ASSUME PresenceAssumption == MetaTTL \in Nat \ {0}

VARIABLES profile,   \* the driver_profiles row
          inGeo,     \* he is a member of drivers:online
          meta,      \* ticks his meta hash has left; 0 = no such key
          handler,   \* where each handler stands
          open,      \* open sockets
          closing,   \* what each closed socket's disconnect handler has started
          search,    \* a search that looks at him: "idle", "found" or "stale"
          quiet,     \* history: ticks since his place was last written, up to MetaTTL
          broken,    \* history: his hash was left without a lifetime, EXPIRE being lost
          excused    \* history: offline, he was written back or a removal was lost

presenceVars == <<profile, inGeo, meta, handler, open, closing, search, quiet, broken, excused>>
indexVars == <<inGeo, meta, quiet, broken, excused>>

\* Where the driver is, lastLat, is left out: whoever looks finds a place or none.
Profile == [approved : BOOLEAN, online : BOOLEAN]

\* A pipeline is named by its next command.
Steps == {"idle", "save_on", "save_off", "add", "hset", "expire", "remove", "del"}

Closing == {"remove", "del", "mark_offline"}

\* MetaTTL + 1 ticks left stand for a hash without a lifetime.
NoLifetime == MetaTTL + 1

\* What a search in Redis returns.
Visible == inGeo /\ meta > 0

HandlerGoes(k, step) == handler' = [handler EXCEPT ![k] = step]
HandlerEnds(k) == HandlerGoes(k, "idle")

-----------------------------------------------------------------------------
PresenceInit ==
    /\ profile = [approved |-> FALSE, online |-> FALSE]
    /\ inGeo = FALSE /\ meta = 0
    /\ handler = [k \in Handlers |-> "idle"]
    /\ open = {} /\ closing = [s \in Sockets |-> {}]
    /\ search = "idle"
    /\ quiet = MetaTTL /\ broken = FALSE /\ excused = FALSE

(* The commands of the two pipelines *)

\* A disconnect has still to mark the driver offline.
OfflineToCome == \E s \in Sockets : "mark_offline" \in closing[s]

\* A removal from the index is under way.
RemovalUnderWay ==
    \/ \E k \in Handlers : handler[k] \in {"remove", "del"}
    \/ \E s \in Sockets : closing[s] \cap {"remove", "del"} # {}

\* A command of updateDriverLocation has its effect; it may make an offline driver visible.
Written ==
    /\ quiet' = 0
    /\ excused' = ((~profile.online \/ OfflineToCome) /\ (excused \/ ~Visible))

Lost == UNCHANGED indexVars

GeoAdd == inGeo' = TRUE /\ Written /\ UNCHANGED <<meta, broken>>

\* A hash that is there keeps its lifetime; a new one has none yet.
HSet == meta' = (IF meta = 0 THEN NoLifetime ELSE meta) /\ Written /\ UNCHANGED <<inGeo, broken>>

\* Without the hash there is nothing to give a lifetime to.
ExpireMeta ==
    /\ meta' = (IF meta = 0 THEN 0 ELSE MetaTTL)
    /\ quiet' = 0 /\ broken' = FALSE
    /\ UNCHANGED <<inGeo, excused>>

ExpireMetaIsLost ==
    /\ broken' = (broken \/ meta = NoLifetime)
    /\ UNCHANGED <<inGeo, meta, quiet, excused>>

ZRem == inGeo' = FALSE /\ UNCHANGED <<meta, quiet, broken, excused>>

Del == meta' = 0 /\ broken' = FALSE /\ UNCHANGED <<inGeo, quiet, excused>>

DelIsLost == excused' = (excused \/ Visible) /\ UNCHANGED <<inGeo, meta, quiet, broken>>

(* Handlers *)

\* toggleOnlineStatus reads the profile, which must be approved.  save() writes isOnline
\* only if that is a change to what was read; a driver without a place is not indexed.
Toggle(k, on) ==
    /\ handler[k] = "idle" /\ profile.approved
    /\ \/ on /\ ~profile.online /\ HandlerGoes(k, "save_on")
       \/ ~on /\ profile.online /\ HandlerGoes(k, "save_off")
       \/ on /\ profile.online /\ HandlerGoes(k, "add")
       \/ ~on /\ ~profile.online /\ HandlerGoes(k, "remove")
    /\ UNCHANGED <<profile, open, closing, search, indexVars>>

\* Mutant: the index is left as it is.
SaveStatusOnly(k) ==
    /\ handler[k] \in {"save_on", "save_off"}
    /\ profile' = [profile EXCEPT !.online = handler[k] = "save_on"]
    /\ HandlerEnds(k)
    /\ UNCHANGED <<open, closing, search, indexVars>>

\* The profile is saved, and then the index brought in line.
SaveStatus(k) ==
    /\ \/ /\ handler[k] = "save_on" /\ profile' = [profile EXCEPT !.online = TRUE]
          /\ HandlerGoes(k, "add") \/ HandlerEnds(k)
       \/ /\ handler[k] = "save_off" /\ profile' = [profile EXCEPT !.online = FALSE]
          /\ HandlerGoes(k, "remove")
    /\ UNCHANGED <<open, closing, search, indexVars>>

\* updateLocation over HTTP: nobody asks whether he is online.
Place(k) ==
    /\ handler[k] = "idle"
    /\ HandlerGoes(k, "add")
    /\ UNCHANGED <<profile, open, closing, search, indexVars>>

\* location:update over a socket: nobody asks here either.
Report(k) == open # {} /\ Place(k)

\* updateDriverLocation: geoadd, hset and expire.
WritePlace(k) ==
    /\ \/ handler[k] = "add" /\ (GeoAdd \/ Lost) /\ HandlerGoes(k, "hset")
       \/ handler[k] = "hset" /\ (HSet \/ Lost) /\ HandlerGoes(k, "expire")
       \/ handler[k] = "expire" /\ (ExpireMeta \/ ExpireMetaIsLost) /\ HandlerEnds(k)
    /\ UNCHANGED <<profile, open, closing, search>>

\* removeDriver: zrem and del.
RemoveAfterToggle(k) ==
    /\ \/ handler[k] = "remove" /\ (ZRem \/ Lost) /\ HandlerGoes(k, "del")
       \/ handler[k] = "del" /\ (Del \/ DelIsLost) /\ HandlerEnds(k)
    /\ UNCHANGED <<profile, open, closing, search>>

(* Sockets *)

Connect(s) ==
    /\ s \notin open /\ closing[s] = {}
    /\ open' = open \cup {s}
    /\ UNCHANGED <<profile, handler, closing, search, indexVars>>

\* A disconnect, or the sweep of startTokenExpiryCheck: two writes are started, and the
\* driver's other sockets are not looked at.
Disconnect(s) ==
    /\ s \in open
    /\ open' = open \ {s}
    /\ closing' = [closing EXCEPT ![s] = {"remove", "mark_offline"}]
    /\ UNCHANGED <<profile, handler, search, indexVars>>

RemoveOnDisconnect(s) ==
    /\ \/ /\ "remove" \in closing[s] /\ (ZRem \/ Lost)
          /\ closing' = [closing EXCEPT ![s] = (@ \ {"remove"}) \cup {"del"}]
       \/ /\ "del" \in closing[s] /\ (Del \/ DelIsLost)
          /\ closing' = [closing EXCEPT ![s] = @ \ {"del"}]
    /\ UNCHANGED <<profile, handler, open, search>>

\* It may fail, which the code swallows.
MarkOffline(s) ==
    /\ "mark_offline" \in closing[s]
    /\ closing' = [closing EXCEPT ![s] = @ \ {"mark_offline"}]
    /\ profile' = [profile EXCEPT !.online = FALSE] \/ UNCHANGED profile
    /\ UNCHANGED <<handler, open, search, indexVars>>

-----------------------------------------------------------------------------
(* Searches and administration *)

\* getNearbyDrivers: the set is searched,
Find ==
    /\ search = "idle" /\ inGeo
    /\ search' = "found"
    /\ UNCHANGED <<profile, handler, open, closing, indexVars>>

\* the meta hash is fetched: whoever has none is stale, and so is one whose fetch failed,
FetchMeta ==
    /\ search = "found"
    /\ \/ search' = "stale"
       \/ search' = "idle" /\ meta > 0
    /\ UNCHANGED <<profile, handler, open, closing, indexVars>>

\* and is removed from the set, later.
SweepStale ==
    /\ search = "stale"
    /\ search' = "idle"
    /\ ZRem \/ Lost
    /\ UNCHANGED <<profile, handler, open, closing>>

\* approveDriver and rejectDriver, which leaves him online.
Decide ==
    /\ profile' = [profile EXCEPT !.approved = ~@]
    /\ UNCHANGED <<handler, open, closing, search, indexVars>>

\* The process dies: no disconnect handler runs, and isOnline stays as it is.
Crash ==
    /\ excused' = (excused \/ (Visible /\ RemovalUnderWay))
    /\ broken' = (broken \/ meta = NoLifetime)
    /\ handler' = [k \in Handlers |-> "idle"]
    /\ open' = {} /\ closing' = [s \in Sockets |-> {}]
    /\ search' = "idle"
    /\ UNCHANGED <<profile, inGeo, meta, quiet>>

\* Mutant: the hash of a driver who is online has no lifetime.
LapseWhenOffline ==
    /\ meta' = IF meta \in {0, NoLifetime} \/ profile.online THEN meta ELSE meta - 1
    /\ quiet' = IF quiet = MetaTTL THEN quiet ELSE quiet + 1
    /\ UNCHANGED <<profile, inGeo, handler, open, closing, search, broken, excused>>

\* One tick of META_TTL.
PresenceTick ==
    /\ meta' = IF meta \in {0, NoLifetime} THEN meta ELSE meta - 1
    /\ quiet' = IF quiet = MetaTTL THEN quiet ELSE quiet + 1
    /\ UNCHANGED <<profile, inGeo, handler, open, closing, search, broken, excused>>

PresenceNext ==
    \/ \E k \in Handlers :
          \/ \E on \in BOOLEAN : Toggle(k, on)
          \/ SaveStatus(k) \/ Place(k) \/ Report(k) \/ WritePlace(k)
          \/ RemoveAfterToggle(k)
    \/ \E s \in Sockets :
          Connect(s) \/ Disconnect(s) \/ RemoveOnDisconnect(s) \/ MarkOffline(s)
    \/ Find \/ FetchMeta \/ SweepStale
    \/ Decide \/ Crash \/ PresenceTick

PresenceSpec == PresenceInit /\ [][PresenceNext]_presenceVars

-----------------------------------------------------------------------------
(* Properties *)

\* The profile, the index and the handlers keep their types.
PresenceTypeOK ==
    /\ profile \in Profile
    /\ inGeo \in BOOLEAN /\ meta \in 0..NoLifetime
    /\ handler \in [Handlers -> Steps]
    /\ open \subseteq Sockets
    /\ closing \in [Sockets -> SUBSET Closing]
    /\ search \in {"idle", "found", "stale"}
    /\ quiet \in 0..MetaTTL /\ broken \in BOOLEAN /\ excused \in BOOLEAN

\* A driver whose place nobody writes any more is not found after MetaTTL ticks, whatever
\* raced or died; unless the EXPIRE of a new hash was lost and neither EXPIRE nor DEL has
\* come since, or is still on its way.
GhostLapses ==
    Visible /\ quiet = MetaTTL =>
        broken \/ \E k \in Handlers : handler[k] = "expire"

\* A driver who went offline is hidden, or his removal is under way; unless a report that
\* came late made him visible again, or the removal was lost while he was visible.
OfflineDriverIsHidden == Visible /\ ~profile.online => excused \/ RemovalUnderWay
=============================================================================
