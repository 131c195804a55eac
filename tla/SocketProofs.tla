---------------------------- MODULE SocketProofs ----------------------------
(***************************************************************************)
(* What holds of a user's sockets: of one driver's presence for any number *)
(* of handlers and sockets and any META_TTL, and of the ride rooms for any *)
(* number of rides and of sockets of a user.                               *)
(***************************************************************************)
EXTENDS DriverPresence, RideRooms, TLAPS

-----------------------------------------------------------------------------
(* Presence *)

\* The hash lives no longer than MetaTTL after the last write of his place.
HashIsRecent == meta \in 1..MetaTTL => meta + quiet <= MetaTTL

\* A hash without a lifetime is given one, or its EXPIRE was lost.
LifetimeFollows ==
    meta = NoLifetime => broken \/ \E k \in Handlers : handler[k] = "expire"

\* Who is offline, or is about to be marked so, has his removal still to come.  The second
\* case makes it inductive: MarkOffline may be the last of a disconnect's two writes.
RemovalFollows ==
    Visible /\ (~profile.online \/ OfflineToCome) => excused \/ RemovalUnderWay

PresenceInv == PresenceTypeOK /\ HashIsRecent /\ LifetimeFollows /\ RemovalFollows

-----------------------------------------------------------------------------
LEMMA PresenceInitInv == PresenceInit => PresenceInv
<1> SUFFICES ASSUME PresenceInit PROVE PresenceInv
  OBVIOUS
<1> USE PresenceAssumption DEF PresenceInit
<1>1. PresenceTypeOK
  <2>1. meta \in 0..NoLifetime /\ quiet \in 0..MetaTTL
    BY DEF NoLifetime
  <2>2. profile \in Profile /\ handler \in [Handlers -> Steps]
    BY DEF Profile, Steps
  <2> QED BY <2>1, <2>2 DEF PresenceTypeOK
<1>2. HashIsRecent /\ LifetimeFollows /\ RemovalFollows
  BY DEF HashIsRecent, LifetimeFollows, RemovalFollows, Visible, NoLifetime
<1> QED BY <1>1, <1>2 DEF PresenceInv

\* A handler that goes from one step to another.
LEMMA HandlerMoves ==
    ASSUME handler \in [Handlers -> Steps], NEW k \in Handlers, NEW step \in Steps,
           HandlerGoes(k, step)
    PROVE  /\ handler' \in [Handlers -> Steps]
           /\ handler'[k] = step
           /\ \A j \in Handlers \ {k} : handler'[j] = handler[j]
BY DEF HandlerGoes

\* What a change of the profile may be.
LEMMA ProfileField ==
    ASSUME profile \in Profile, NEW on \in BOOLEAN
    PROVE  /\ [profile EXCEPT !.online = on] \in Profile
           /\ [profile EXCEPT !.online = on].online = on
           /\ [profile EXCEPT !.approved = on] \in Profile
           /\ [profile EXCEPT !.approved = on].online = profile.online
BY DEF Profile

\* A step that leaves the index alone, takes no removal or EXPIRE away, and marks nobody
\* offline whose removal has not been started.
LEMMA IndexUntouched ==
    ASSUME PresenceInv, PresenceTypeOK', UNCHANGED indexVars,
           \A j \in Handlers : handler[j] = "expire" => handler'[j] = "expire",
           RemovalUnderWay => RemovalUnderWay',
           ~profile'.online \/ OfflineToCome' =>
               ~profile.online \/ OfflineToCome \/ RemovalUnderWay'
    PROVE  PresenceInv'
BY DEF PresenceInv, HashIsRecent, LifetimeFollows, RemovalFollows, Visible, indexVars, NoLifetime

\* What the index is after a command.
LEMMA IndexTypes ==
    ASSUME PresenceTypeOK,
           \/ GeoAdd \/ HSet \/ ExpireMeta \/ ExpireMetaIsLost
           \/ ZRem \/ Del \/ DelIsLost \/ Lost
    PROVE  /\ inGeo' \in BOOLEAN /\ meta' \in 0..NoLifetime
           /\ quiet' \in 0..MetaTTL /\ broken' \in BOOLEAN /\ excused' \in BOOLEAN
<1> USE PresenceAssumption DEF PresenceTypeOK
<1>0. 0 \in 0..NoLifetime /\ MetaTTL \in 0..NoLifetime /\ NoLifetime \in 0..NoLifetime
      /\ 0 \in 0..MetaTTL
  BY DEF NoLifetime
<1>1. CASE GeoAdd \/ HSet
  <2>1. excused' \in BOOLEAN /\ quiet' = 0
    BY <1>1 DEF GeoAdd, HSet, Written
  <2>2. inGeo' \in BOOLEAN /\ broken' \in BOOLEAN
    BY <1>1 DEF GeoAdd, HSet
  <2>3. meta' \in {meta, NoLifetime}
    BY <1>1 DEF GeoAdd, HSet
  <2> QED BY <1>0, <2>1, <2>2, <2>3
<1>2. CASE ExpireMeta
  BY <1>0, <1>2 DEF ExpireMeta
<1>3. CASE ExpireMetaIsLost
  <2>1. broken' \in BOOLEAN
    BY <1>3 DEF ExpireMetaIsLost
  <2> QED BY <1>3, <2>1 DEF ExpireMetaIsLost
<1>4. CASE ZRem \/ Del \/ Lost
  BY <1>0, <1>4 DEF ZRem, Del, Lost, indexVars
<1>5. CASE DelIsLost
  <2>1. excused' \in BOOLEAN
    BY <1>5 DEF DelIsLost
  <2> QED BY <1>5, <2>1 DEF DelIsLost
<1> QED BY <1>1, <1>2, <1>3, <1>4, <1>5

\* GEOADD and HSET: who thereby becomes visible while offline is excused, and a new hash
\* has its EXPIRE to come.
LEMMA WrittenInv ==
    ASSUME PresenceInv, PresenceTypeOK', GeoAdd \/ HSet, UNCHANGED <<profile, closing>>,
           \A j \in Handlers : handler[j] = "expire" => handler'[j] = "expire",
           GeoAdd \/ \E k \in Handlers : handler'[k] = "expire",
           RemovalUnderWay => RemovalUnderWay'
    PROVE  PresenceInv'
<1> USE PresenceAssumption DEF PresenceInv
<1>1. quiet' = 0 /\ (GeoAdd => meta' = meta /\ broken' = broken)
  BY DEF GeoAdd, HSet, Written
<1>2. HashIsRecent'
  <2>1. \A m \in 1..MetaTTL : m + 0 <= MetaTTL
    OBVIOUS
  <2> QED BY <1>1, <2>1 DEF HashIsRecent
<1>3. LifetimeFollows'
  BY <1>1 DEF LifetimeFollows, NoLifetime
<1>4. RemovalFollows'
  <2>1. OfflineToCome' = OfflineToCome
    BY DEF OfflineToCome
  <2>2. excused' = ((~profile.online \/ OfflineToCome) /\ (excused \/ ~Visible))
    BY DEF GeoAdd, HSet, Written
  <2> QED BY <2>1, <2>2 DEF RemovalFollows
<1> QED BY <1>2, <1>3, <1>4

\* EXPIRE, done or lost: he is as visible as before, and no removal changes.
LEMMA ExpiredInv ==
    ASSUME PresenceInv, PresenceTypeOK', ExpireMeta \/ ExpireMetaIsLost,
           UNCHANGED <<profile, closing>>, RemovalUnderWay => RemovalUnderWay'
    PROVE  PresenceInv'
<1> USE PresenceAssumption DEF PresenceInv
<1>1. meta \in 0..NoLifetime
  BY DEF PresenceTypeOK
<1>2. RemovalFollows'
  <2>1. OfflineToCome' = OfflineToCome /\ excused' = excused /\ inGeo' = inGeo
    BY DEF OfflineToCome, ExpireMeta, ExpireMetaIsLost
  <2>2. meta' > 0 => meta > 0
    BY <1>1 DEF ExpireMeta, ExpireMetaIsLost, NoLifetime
  <2> QED BY <2>1, <2>2 DEF RemovalFollows, Visible
<1>3. CASE ExpireMeta
  <2>1. HashIsRecent' /\ LifetimeFollows'
    BY <1>3 DEF HashIsRecent, LifetimeFollows, ExpireMeta, NoLifetime
  <2> QED BY <1>2, <2>1
<1>4. CASE ExpireMetaIsLost
  <2>1. meta' = meta /\ quiet' = quiet /\ broken' = (broken \/ meta = NoLifetime)
    BY <1>4 DEF ExpireMetaIsLost
  <2>2. HashIsRecent'
    BY <2>1 DEF HashIsRecent
  <2>3. LifetimeFollows'
    BY <2>1 DEF LifetimeFollows, NoLifetime
  <2> QED BY <1>2, <2>2, <2>3
<1> QED BY <1>3, <1>4

\* A command of a removal, done or lost.  After a lost ZREM the DEL is still to come.
LEMMA RemovedInv ==
    ASSUME PresenceInv, PresenceTypeOK', ZRem \/ Del \/ DelIsLost,
           \A j \in Handlers : handler[j] = "expire" => handler'[j] = "expire"
    PROVE  PresenceInv'
<1> USE DEF PresenceInv
<1>1. meta' \in {0, meta} /\ quiet' = quiet
  BY DEF ZRem, Del, DelIsLost
<1>2. HashIsRecent' /\ RemovalFollows'
  <2>1. HashIsRecent'
    BY <1>1 DEF HashIsRecent
  <2>2. CASE ZRem \/ Del
    BY <2>1, <2>2, PresenceAssumption DEF RemovalFollows, Visible, ZRem, Del
  <2>3. CASE DelIsLost
    BY <2>1, <2>3 DEF RemovalFollows, Visible, DelIsLost
  <2> QED BY <2>1, <2>2, <2>3
<1>3. LifetimeFollows'
  BY PresenceAssumption DEF LifetimeFollows, ZRem, Del, DelIsLost, NoLifetime
<1> QED BY <1>2, <1>3

-----------------------------------------------------------------------------
(* One lemma for the handlers, one for the sockets, one for the rest *)

LEMMA PlaceInv == ASSUME PresenceInv, NEW k \in Handlers, WritePlace(k) PROVE PresenceInv'
<1>0. PresenceTypeOK /\ handler \in [Handlers -> Steps]
      /\ {"idle", "hset", "expire"} \subseteq Steps
  BY DEF PresenceInv, PresenceTypeOK, Steps
<1>1. PICK step \in {"idle", "hset", "expire"} :
          /\ HandlerGoes(k, step) /\ handler[k] \in {"add", "hset", "expire"}
          /\ handler[k] = "expire" <=> step = "idle"
          /\ handler[k] = "hset" <=> step = "expire"
  BY DEF WritePlace, HandlerEnds
<1>2. /\ handler' \in [Handlers -> Steps] /\ handler'[k] = step
      /\ \A j \in Handlers \ {k} : handler'[j] = handler[j]
  BY <1>0, <1>1, HandlerMoves
<1>3. PresenceTypeOK'
  BY <1>0, <1>2, IndexTypes DEF PresenceTypeOK, WritePlace
<1>4. RemovalUnderWay => RemovalUnderWay'
  BY <1>1, <1>2 DEF RemovalUnderWay, WritePlace
<1>5. UNCHANGED <<profile, closing>>
  BY DEF WritePlace
<1>6. CASE handler[k] = "expire"
  BY <1>3, <1>4, <1>5, <1>6, ExpiredInv DEF WritePlace
<1>7. CASE handler[k] # "expire"
  <2>1. \A j \in Handlers : handler[j] = "expire" => handler'[j] = "expire"
    BY <1>2, <1>7
  <2>2. handler[k] = "hset" => handler'[k] = "expire"
    BY <1>1, <1>2
  <2>3. CASE handler[k] = "add" /\ GeoAdd
    BY <1>3, <1>4, <1>5, <2>1, <2>3, WrittenInv
  <2>4. CASE handler[k] = "hset" /\ HSet
    BY <1>3, <1>4, <1>5, <2>1, <2>2, <2>4, WrittenInv
  <2>5. CASE Lost
    BY <1>3, <1>4, <1>5, <2>1, <2>5, IndexUntouched DEF Lost, OfflineToCome
  <2> QED BY <1>1, <1>7, <2>3, <2>4, <2>5 DEF WritePlace
<1> QED BY <1>6, <1>7

LEMMA HandlerStepInv ==
    ASSUME PresenceInv, NEW k \in Handlers,
           \/ \E on \in BOOLEAN : Toggle(k, on)
           \/ SaveStatus(k) \/ Place(k) \/ Report(k) \/ WritePlace(k)
           \/ RemoveAfterToggle(k)
    PROVE  PresenceInv'
<1>0. PresenceTypeOK /\ handler \in [Handlers -> Steps] /\ profile \in Profile
  BY DEF PresenceInv, PresenceTypeOK
<1>1. ASSUME \/ \E on \in BOOLEAN : Toggle(k, on)
             \/ Place(k)
      PROVE  PresenceInv'
  <2>1. PICK step \in Steps : HandlerGoes(k, step)
    BY <1>1 DEF Toggle, Place, Steps
  <2>2. handler[k] = "idle" /\ UNCHANGED <<profile, open, closing, search, indexVars>>
    BY <1>1 DEF Toggle, Place
  <2>3. PresenceTypeOK'
    BY <1>0, <2>1, <2>2, HandlerMoves DEF PresenceTypeOK, indexVars
  <2>4. /\ RemovalUnderWay => RemovalUnderWay'
        /\ \A j \in Handlers : handler[j] = "expire" => handler'[j] = "expire"
    BY <1>0, <2>1, <2>2, HandlerMoves DEF RemovalUnderWay
  <2> QED BY <2>2, <2>3, <2>4, IndexUntouched DEF OfflineToCome
<1>2. ASSUME SaveStatus(k) PROVE PresenceInv'
  <2>1. PICK step \in Steps : /\ HandlerGoes(k, step)
                              /\ handler[k] = "save_off" => step = "remove"
    BY <1>2 DEF SaveStatus, HandlerEnds, Steps
  <2>2. profile' \in Profile /\ (~profile'.online => handler[k] = "save_off")
    BY <1>0, <1>2, ProfileField DEF SaveStatus
  <2>3. handler[k] \in {"save_on", "save_off"} /\ UNCHANGED <<open, closing, search, indexVars>>
    BY <1>2 DEF SaveStatus
  <2>4. PresenceTypeOK'
    BY <1>0, <2>1, <2>2, <2>3, HandlerMoves DEF PresenceTypeOK, indexVars
  <2>5. /\ RemovalUnderWay => RemovalUnderWay'
        /\ \A j \in Handlers : handler[j] = "expire" => handler'[j] = "expire"
    BY <1>0, <2>1, <2>3, HandlerMoves DEF RemovalUnderWay
  <2>6. ~profile'.online => RemovalUnderWay'
    BY <1>0, <2>1, <2>2, HandlerMoves DEF RemovalUnderWay
  <2> QED BY <2>3, <2>4, <2>5, <2>6, IndexUntouched DEF OfflineToCome
<1>3. ASSUME RemoveAfterToggle(k) PROVE PresenceInv'
  <2>1. PICK step \in {"idle", "del"} :
            /\ HandlerGoes(k, step) /\ handler[k] \in {"remove", "del"}
            /\ handler[k] = "remove" => step = "del"
    BY <1>3 DEF RemoveAfterToggle, HandlerEnds
  <2>2. step \in Steps
    BY <2>1 DEF Steps
  <2>3. PresenceTypeOK'
    BY <1>0, <1>3, <2>1, <2>2, HandlerMoves, IndexTypes DEF PresenceTypeOK, RemoveAfterToggle
  <2>4. \A j \in Handlers : handler[j] = "expire" => handler'[j] = "expire"
    BY <1>0, <2>1, <2>2, HandlerMoves
  <2>5. CASE ZRem \/ Del \/ DelIsLost
    BY <2>3, <2>4, <2>5, RemovedInv
  <2>6. CASE handler[k] = "remove" /\ Lost
    <3>1. RemovalUnderWay'
      BY <1>0, <2>1, <2>2, <2>6, HandlerMoves DEF RemovalUnderWay
    <3> QED BY <1>3, <2>3, <2>4, <2>6, <3>1, IndexUntouched
            DEF Lost, RemoveAfterToggle, OfflineToCome
  <2> QED BY <1>3, <2>5, <2>6 DEF RemoveAfterToggle
<1> QED BY <1>1, <1>2, <1>3, PlaceInv DEF Report

LEMMA SocketStepInv ==
    ASSUME PresenceInv, NEW s \in Sockets,
           Connect(s) \/ Disconnect(s) \/ RemoveOnDisconnect(s) \/ MarkOffline(s)
    PROVE  PresenceInv'
<1>0. /\ PresenceTypeOK /\ profile \in Profile
      /\ closing \in [Sockets -> SUBSET Closing]
  BY DEF PresenceInv, PresenceTypeOK
<1>1. CASE Connect(s)
  <2>1. PresenceTypeOK'
    BY <1>0, <1>1 DEF PresenceTypeOK, Connect, indexVars
  <2> QED BY <1>1, <2>1, IndexUntouched DEF Connect, OfflineToCome, RemovalUnderWay
<1>2. CASE Disconnect(s)
  <2>1. /\ closing' \in [Sockets -> SUBSET Closing]
        /\ "remove" \in closing'[s]
    BY <1>0, <1>2 DEF Disconnect, Closing
  <2>2. PresenceTypeOK'
    BY <1>0, <1>2, <2>1 DEF PresenceTypeOK, Disconnect, indexVars
  <2>3. RemovalUnderWay'
    BY <2>1 DEF RemovalUnderWay
  <2> QED BY <1>2, <2>2, <2>3, IndexUntouched DEF Disconnect
<1>3. CASE RemoveOnDisconnect(s)
  <2>1. closing' \in [Sockets -> SUBSET Closing]
    BY <1>0, <1>3 DEF RemoveOnDisconnect, Closing
  <2>2. PresenceTypeOK'
    BY <1>0, <1>3, <2>1, IndexTypes DEF PresenceTypeOK, RemoveOnDisconnect
  <2>3. UNCHANGED <<profile, handler>>
    BY <1>3 DEF RemoveOnDisconnect
  <2>4. CASE ZRem \/ Del \/ DelIsLost
    BY <2>2, <2>3, <2>4, RemovedInv
  <2>5. CASE Lost /\ closing' = [closing EXCEPT ![s] = (@ \ {"remove"}) \cup {"del"}]
    <3>1. "del" \in closing'[s]
      BY <1>0, <2>5
    <3>2. RemovalUnderWay'
      BY <3>1 DEF RemovalUnderWay
    <3>3. OfflineToCome' => OfflineToCome
      BY <1>0, <2>5 DEF OfflineToCome
    <3> QED BY <2>2, <2>3, <2>5, <3>2, <3>3, IndexUntouched DEF Lost
  <2> QED BY <1>3, <2>4, <2>5 DEF RemoveOnDisconnect
<1>4. CASE MarkOffline(s)
  <2>1. /\ closing' \in [Sockets -> SUBSET Closing]
        /\ \A t \in Sockets : closing[t] \cap {"remove", "del"} = closing'[t] \cap {"remove", "del"}
    BY <1>0, <1>4 DEF MarkOffline
  <2>2. profile' \in Profile
    BY <1>0, <1>4, ProfileField DEF MarkOffline
  <2>3. PresenceTypeOK'
    BY <1>0, <1>4, <2>1, <2>2 DEF PresenceTypeOK, MarkOffline, indexVars
  <2>4. RemovalUnderWay => RemovalUnderWay'
    BY <1>4, <2>1 DEF RemovalUnderWay, MarkOffline
  <2>5. OfflineToCome
    BY <1>4 DEF OfflineToCome, MarkOffline
  <2> QED BY <1>4, <2>3, <2>4, <2>5, IndexUntouched DEF MarkOffline
<1> QED BY <1>1, <1>2, <1>3, <1>4

LEMMA OtherStepInv ==
    ASSUME PresenceInv, Find \/ FetchMeta \/ SweepStale \/ Decide \/ Crash \/ PresenceTick
    PROVE  PresenceInv'
<1>0. PresenceTypeOK /\ profile \in Profile
  BY DEF PresenceInv, PresenceTypeOK
<1>1. CASE Find \/ FetchMeta
  <2>1. search' \in {"idle", "found", "stale"}
    BY <1>1 DEF Find, FetchMeta
  <2>2. UNCHANGED <<profile, handler, open, closing, indexVars>>
    BY <1>1 DEF Find, FetchMeta
  <2>3. PresenceTypeOK'
    BY <1>0, <2>1, <2>2 DEF PresenceTypeOK, indexVars
  <2> QED BY <2>2, <2>3, IndexUntouched DEF OfflineToCome, RemovalUnderWay
<1>2. CASE SweepStale
  <2>1. PresenceTypeOK'
    BY <1>0, <1>2, IndexTypes DEF PresenceTypeOK, SweepStale
  <2>2. CASE ZRem
    BY <1>2, <2>1, <2>2, RemovedInv DEF SweepStale
  <2>3. CASE Lost
    BY <1>2, <2>1, <2>3, IndexUntouched DEF SweepStale, Lost, OfflineToCome, RemovalUnderWay
  <2> QED BY <1>2, <2>2, <2>3 DEF SweepStale
<1>3. CASE Decide
  <2>1. profile' \in Profile /\ profile'.online = profile.online
    BY <1>0, <1>3 DEF Decide, Profile
  <2>2. PresenceTypeOK'
    BY <1>0, <1>3, <2>1 DEF PresenceTypeOK, Decide, indexVars
  <2> QED BY <1>3, <2>1, <2>2, IndexUntouched DEF Decide, OfflineToCome, RemovalUnderWay
<1>4. CASE Crash
  <2>1. /\ excused' = (excused \/ (Visible /\ RemovalUnderWay))
        /\ broken' = (broken \/ meta = NoLifetime)
        /\ UNCHANGED <<profile, inGeo, meta, quiet>>
    BY <1>4 DEF Crash
  <2>2. ~OfflineToCome'
    BY <1>4 DEF OfflineToCome, Crash
  <2>3. excused' \in BOOLEAN /\ broken' \in BOOLEAN
    BY <2>1
  <2>4. PresenceTypeOK'
    BY <1>0, <1>4, <2>3 DEF PresenceTypeOK, Crash, Steps
  <2>5. HashIsRecent'
    BY <2>1 DEF PresenceInv, HashIsRecent
  <2>6. LifetimeFollows'
    BY <2>1 DEF LifetimeFollows, NoLifetime
  <2>7. RemovalFollows'
    BY <2>1, <2>2 DEF PresenceInv, RemovalFollows, Visible
  <2> QED BY <2>4, <2>5, <2>6, <2>7 DEF PresenceInv
<1>5. CASE PresenceTick
  <2> USE PresenceAssumption
  <2>1. meta \in 0..NoLifetime /\ quiet \in 0..MetaTTL /\ NoLifetime = MetaTTL + 1
    BY <1>0 DEF PresenceTypeOK, NoLifetime
  <2>2. /\ meta' = IF meta \in {0, NoLifetime} THEN meta ELSE meta - 1
        /\ quiet' = IF quiet = MetaTTL THEN quiet ELSE quiet + 1
        /\ UNCHANGED <<profile, inGeo, handler, open, closing, search, broken, excused>>
    BY <1>5 DEF PresenceTick
  <2>3. /\ meta' \in 0..NoLifetime /\ quiet' \in 0..MetaTTL /\ (meta' > 0 => meta > 0)
        /\ meta' = NoLifetime => meta = NoLifetime
    BY <2>1, <2>2
  <2>4. PresenceTypeOK'
    BY <1>0, <2>2, <2>3 DEF PresenceTypeOK, NoLifetime
  <2>5. HashIsRecent'
    BY <2>1, <2>2 DEF PresenceInv, HashIsRecent
  <2>6. LifetimeFollows'
    BY <2>2, <2>3 DEF PresenceInv, LifetimeFollows, NoLifetime
  <2>7. RemovalFollows'
    BY <2>2, <2>3 DEF PresenceInv, RemovalFollows, Visible, OfflineToCome, RemovalUnderWay
  <2> QED BY <2>4, <2>5, <2>6, <2>7 DEF PresenceInv
<1> QED BY <1>1, <1>2, <1>3, <1>4, <1>5

LEMMA PresenceStepInv == PresenceInv /\ [PresenceNext]_presenceVars => PresenceInv'
<1> SUFFICES ASSUME PresenceInv, [PresenceNext]_presenceVars PROVE PresenceInv'
  OBVIOUS
<1>1. CASE UNCHANGED presenceVars
  BY <1>1 DEF presenceVars, PresenceInv, PresenceTypeOK, HashIsRecent, LifetimeFollows,
              RemovalFollows, Visible, OfflineToCome, RemovalUnderWay, NoLifetime
<1> QED BY <1>1, HandlerStepInv, SocketStepInv, OtherStepInv DEF PresenceNext

-----------------------------------------------------------------------------
\* The strengthened invariant holds throughout.
THEOREM PresenceInvariance == PresenceSpec => []PresenceInv
BY PresenceInitInv, PresenceStepInv, PTL DEF PresenceSpec

\* The profile, the index and the handlers keep their types.
THEOREM PresenceTypes == PresenceSpec => []PresenceTypeOK
<1>1. PresenceInv => PresenceTypeOK
  BY DEF PresenceInv
<1> QED BY <1>1, PresenceInvariance, PTL

\* A driver whose place is no longer written is not found after META_TTL, whatever raced or
\* died (updateDriverLocation, removeDriver and getNearbyDrivers in redisGeoService.ts);
\* unless the EXPIRE of his hash was lost, and until the next EXPIRE or DEL.
THEOREM GhostsLapse == PresenceSpec => []GhostLapses
<1>1. PresenceInv => GhostLapses
  <2> SUFFICES ASSUME PresenceInv, Visible, quiet = MetaTTL
               PROVE  broken \/ \E k \in Handlers : handler[k] = "expire"
    BY DEF GhostLapses
  <2>1. meta \in 0..NoLifetime /\ meta > 0 /\ MetaTTL \in Nat /\ NoLifetime = MetaTTL + 1
    BY PresenceAssumption DEF PresenceInv, PresenceTypeOK, Visible, NoLifetime
  <2>2. meta = NoLifetime
    BY <2>1 DEF PresenceInv, HashIsRecent
  <2> QED BY <2>2 DEF PresenceInv, LifetimeFollows
<1> QED BY <1>1, PresenceInvariance, PTL

\* A driver who went offline, by the switch or by a disconnect, is hidden or about to be,
\* unless a late report made him visible again or the removal was lost.
THEOREM OfflineIsHidden == PresenceSpec => []OfflineDriverIsHidden
<1>1. PresenceInv => OfflineDriverIsHidden
  BY DEF PresenceInv, RemovalFollows, OfflineDriverIsHidden
<1> QED BY <1>1, PresenceInvariance, PTL

-----------------------------------------------------------------------------
(* Ride rooms *)

\* A ride is active while its join has been started and its leave has not.
CallsFollowRides ==
    \A r \in Rides : /\ stage[r] = "before" => joining[r].at = "none"
                     /\ leaving[r].at # "none" <=> stage[r] = "over"

\* Only a connected socket is in a room, and only a handshake holds what it has read.
OnlyConnectedInRooms ==
    \A s \in Phones : /\ phone[s] # "connected" => rooms[s] = {}
                      /\ phone[s] # "rejoining" => found[s] = NoRide

\* Nobody will put a socket into the room of a ride that was left in peace, or write its key.
NobodyJoinsAfter ==
    \A r \in Rides : stage[r] = "over" /\ r \notin mixed =>
        /\ ~UnderWay(joining[r])
        /\ \A s \in Phones : found[s] # r

\* As such a ride's leave goes on, its room empties, and then its key is deleted.
RoomEmpties ==
    \A r \in Rides : r \notin mixed =>
        /\ leaving[r].at = "move" => \A s \in Phones : r \in rooms[s] => s \in leaving[r].todo
        /\ leaving[r].at \in {"key", "done"} => \A s \in Phones : r \notin rooms[s]
        /\ leaving[r].at = "done" => activeKey # r

\* As an active ride's join goes on, its room fills; who is in his handshake will follow.
RoomFills ==
    \A r \in Rides : stage[r] = "active" /\ r \notin missed =>
        /\ \A s \in Phones : phone[s] = "rejoining" => found[s] = r
        /\ joining[r].at = "move" => \A s \in Connected : r \in rooms[s] \/ s \in joining[r].todo
        /\ joining[r].at \in {"key", "done"} => \A s \in Connected : r \in rooms[s]

RoomsInv ==
    /\ RoomsTypeOK /\ CallsFollowRides /\ OnlyConnectedInRooms
    /\ NobodyJoinsAfter /\ RoomEmpties /\ RoomFills

-----------------------------------------------------------------------------
LEMMA CallTypes == NoCallYet \in RoomCall /\ FetchNext \in RoomCall /\ CallDone \in RoomCall
BY DEF NoCallYet, FetchNext, CallDone, RoomCall

LEMMA CallFields ==
    /\ NoCallYet.at = "none" /\ FetchNext.at = "fetch" /\ CallDone.at = "done"
    /\ ~UnderWay(NoCallYet) /\ UnderWay(FetchNext) /\ ~UnderWay(CallDone)
BY DEF NoCallYet, FetchNext, CallDone, UnderWay

LEMMA CallChanges ==
    ASSUME NEW call \in [Rides -> RoomCall], NEW r \in Rides
    PROVE  /\ [call EXCEPT ![r].at = "key"] \in [Rides -> RoomCall]
           /\ [call EXCEPT ![r].at = "key"][r].at = "key"
<1>1. [call[r] EXCEPT !.at = "key"] \in RoomCall /\ [call[r] EXCEPT !.at = "key"].at = "key"
  BY DEF RoomCall
<1> QED BY <1>1

LEMMA CallProceeds ==
    ASSUME NEW call \in RoomCall, NEW s \in Phones
    PROVE  /\ [call EXCEPT !.todo = @ \ {s}] \in RoomCall
           /\ [call EXCEPT !.todo = @ \ {s}].at = call.at
           /\ [call EXCEPT !.todo = @ \ {s}].todo = call.todo \ {s}
BY DEF RoomCall

LEMMA RoomsInitInv == RoomsInit => RoomsInv
<1> SUFFICES ASSUME RoomsInit PROVE RoomsInv
  OBVIOUS
<1>1. RoomsTypeOK
  BY CallTypes DEF RoomsInit, RoomsTypeOK, PhoneStages, Connected
<1> QED BY <1>1, CallFields
        DEF RoomsInit, RoomsInv, CallsFollowRides, OnlyConnectedInRooms, NobodyJoinsAfter,
            RoomEmpties, RoomFills

-----------------------------------------------------------------------------
(* Rides *)

LEMMA AcceptedInv == ASSUME RoomsInv, NEW r \in Rides, Accepted(r) PROVE RoomsInv'
<1> USE DEF RoomsInv, Accepted
<1>1. RoomsTypeOK'
  BY CallTypes DEF RoomsTypeOK, Connected
<1>2. /\ stage'[r] = "active" /\ joining'[r].at = "fetch"
      /\ \A q \in Rides \ {r} : stage'[q] = stage[q] /\ joining'[q] = joining[q]
  BY CallFields DEF RoomsTypeOK
<1>3. CallsFollowRides' /\ OnlyConnectedInRooms'
  BY <1>2 DEF CallsFollowRides, OnlyConnectedInRooms
<1>4. NobodyJoinsAfter'
  BY <1>2 DEF NobodyJoinsAfter, UnderWay
<1>5. RoomEmpties'
  BY DEF RoomEmpties
<1>6. RoomFills'
  <2>1. /\ missed \subseteq missed'
        /\ r \notin missed' => \A s \in Phones : phone[s] # "rejoining"
    OBVIOUS
  <2> SUFFICES ASSUME NEW q \in Rides, stage'[q] = "active", q \notin missed'
               PROVE  /\ \A s \in Phones : phone[s] = "rejoining" => found[s] = q
                      /\ joining'[q].at = "move" =>
                            \A s \in Connected : q \in rooms[s] \/ s \in joining'[q].todo
                      /\ joining'[q].at \in {"key", "done"} => \A s \in Connected : q \in rooms[s]
    BY DEF RoomFills, Connected
  <2>2. CASE q = r
    BY <1>2, <2>1, <2>2
  <2>3. CASE q # r
    BY <1>2, <2>1, <2>3 DEF RoomFills
  <2> QED BY <2>2, <2>3
<1> QED BY <1>1, <1>3, <1>4, <1>5, <1>6

LEMMA OverInv == ASSUME RoomsInv, NEW r \in Rides, Over(r) PROVE RoomsInv'
<1> USE DEF RoomsInv, Over
<1>1. RoomsTypeOK'
  BY CallTypes DEF RoomsTypeOK, Connected
<1>2. /\ stage'[r] = "over" /\ leaving'[r].at = "fetch"
      /\ \A q \in Rides \ {r} : stage'[q] = stage[q] /\ leaving'[q] = leaving[q]
  BY CallFields DEF RoomsTypeOK
<1>3. CallsFollowRides' /\ OnlyConnectedInRooms'
  BY <1>2 DEF CallsFollowRides, OnlyConnectedInRooms
<1>4. NobodyJoinsAfter'
  BY <1>2 DEF NobodyJoinsAfter
<1>5. RoomEmpties'
  BY <1>2 DEF RoomEmpties
<1>6. RoomFills'
  BY <1>2 DEF RoomFills, Connected
<1> QED BY <1>1, <1>3, <1>4, <1>5, <1>6

-----------------------------------------------------------------------------
(* joinRideRoom and leaveRideRoom *)

\* A ride whose join is under way is not left in peace: it is active or mixed.
LEMMA JoinerIsActive ==
    ASSUME RoomsInv, NEW r \in Rides, UnderWay(joining[r]), r \notin mixed
    PROVE  stage[r] = "active" /\ leaving[r].at = "none"
BY DEF RoomsInv, RoomsTypeOK, CallsFollowRides, NobodyJoinsAfter, UnderWay

LEMMA JoinFetchInv == ASSUME RoomsInv, NEW r \in Rides, JoinFetch(r) PROVE RoomsInv'
<1> USE DEF RoomsInv, JoinFetch
<1>1. [at |-> "move", todo |-> Connected] \in RoomCall
  BY DEF RoomCall, Connected
<1>2. RoomsTypeOK'
  BY <1>1 DEF RoomsTypeOK, Connected
<1>3. /\ joining'[r].at = "move" /\ joining'[r].todo = Connected
      /\ \A q \in Rides \ {r} : joining'[q] = joining[q]
  BY DEF RoomsTypeOK
<1>4. CallsFollowRides' /\ OnlyConnectedInRooms'
  BY <1>3 DEF CallsFollowRides, OnlyConnectedInRooms
<1>5. NobodyJoinsAfter'
  BY <1>3 DEF NobodyJoinsAfter, UnderWay
<1>6. RoomEmpties'
  BY DEF RoomEmpties
<1>7. RoomFills'
  BY <1>3 DEF RoomFills, Connected
<1> QED BY <1>2, <1>4, <1>5, <1>6, <1>7

LEMMA JoinNextInv == ASSUME RoomsInv, NEW r \in Rides, JoinNext(r) PROVE RoomsInv'
<1> USE DEF RoomsInv, JoinNext
<1>0. /\ joining \in [Rides -> RoomCall] /\ rooms \in [Phones -> SUBSET Rides]
      /\ UnderWay(joining[r]) /\ joining[r].at = "move" /\ joining[r].todo \subseteq Phones
  BY DEF RoomsTypeOK, UnderWay, RoomCall
<1>1. CASE joining[r].todo = {}
  <2>1. /\ joining' = [joining EXCEPT ![r].at = "key"] /\ UNCHANGED rooms
        /\ UNCHANGED <<stage, activeKey, phone, found, leaving, watcher, mixed, missed>>
    BY <1>1
  <2>2. /\ joining' \in [Rides -> RoomCall] /\ joining'[r].at = "key"
        /\ \A q \in Rides \ {r} : joining'[q] = joining[q]
    BY <1>0, <2>1, CallChanges
  <2>3. RoomsTypeOK'
    BY <2>1, <2>2 DEF RoomsTypeOK, Connected
  <2>4. CallsFollowRides' /\ OnlyConnectedInRooms'
    BY <1>0, <2>1, <2>2 DEF CallsFollowRides, OnlyConnectedInRooms
  <2>5. NobodyJoinsAfter'
    BY <1>0, <2>1, <2>2 DEF NobodyJoinsAfter, UnderWay
  <2>6. RoomEmpties'
    BY <2>1 DEF RoomEmpties
  <2>7. RoomFills'
    BY <1>0, <1>1, <2>1, <2>2 DEF RoomFills, Connected
  <2> QED BY <2>3, <2>4, <2>5, <2>6, <2>7
<1>2. CASE joining[r].todo # {}
  <2>1. PICK s \in joining[r].todo :
              /\ joining' = [joining EXCEPT ![r].todo = @ \ {s}]
              /\ rooms' = IF s \in Connected THEN [rooms EXCEPT ![s] = @ \cup {r}] ELSE rooms
    BY <1>2
  <2>2. s \in Phones /\ UNCHANGED <<stage, activeKey, phone, found, leaving, watcher, mixed, missed>>
    BY <1>0
  <2>3. /\ joining' \in [Rides -> RoomCall]
        /\ joining'[r].at = "move" /\ joining'[r].todo = joining[r].todo \ {s}
        /\ \A q \in Rides \ {r} : joining'[q] = joining[q]
    <3>1. joining' = [joining EXCEPT ![r] = [joining[r] EXCEPT !.todo = @ \ {s}]]
      BY <1>0, <2>1
    <3>2. [joining[r] EXCEPT !.todo = @ \ {s}] \in RoomCall
      BY <1>0, <2>2, CallProceeds
    <3>3. /\ [joining[r] EXCEPT !.todo = @ \ {s}].at = joining[r].at
          /\ [joining[r] EXCEPT !.todo = @ \ {s}].todo = joining[r].todo \ {s}
      BY <1>0, <2>2, CallProceeds
    <3> QED BY <1>0, <3>1, <3>2, <3>3
  <2>4. /\ rooms' \in [Phones -> SUBSET Rides]
        /\ \A t \in Phones \ {s} : rooms'[t] = rooms[t]
        /\ rooms'[s] = IF s \in Connected THEN rooms[s] \cup {r} ELSE rooms[s]
    BY <1>0, <2>1, <2>2
  <2>5. RoomsTypeOK'
    BY <2>2, <2>3, <2>4 DEF RoomsTypeOK, Connected
  <2>6. CallsFollowRides' /\ OnlyConnectedInRooms'
    BY <1>0, <2>2, <2>3, <2>4 DEF CallsFollowRides, OnlyConnectedInRooms, Connected
  <2>7. NobodyJoinsAfter'
    BY <1>0, <2>2, <2>3 DEF NobodyJoinsAfter, UnderWay
  <2>8. \A q \in Rides, t \in Phones : q # r => (q \in rooms'[t] <=> q \in rooms[t])
    BY <2>4
  <2>9. RoomEmpties'
    BY <1>0, <2>2, <2>8, JoinerIsActive DEF RoomEmpties
  <2>10. RoomFills'
    BY <1>0, <2>2, <2>3, <2>4, <2>8 DEF RoomFills, Connected
  <2> QED BY <2>5, <2>6, <2>7, <2>9, <2>10
<1> QED BY <1>1, <1>2

LEMMA JoinKeyInv == ASSUME RoomsInv, NEW r \in Rides, JoinKey(r) PROVE RoomsInv'
<1> USE DEF RoomsInv, JoinKey
<1>1. RoomsTypeOK'
  BY CallTypes DEF RoomsTypeOK, Connected
<1>2. /\ joining'[r].at = "done" /\ UnderWay(joining[r])
      /\ \A q \in Rides \ {r} : joining'[q] = joining[q]
  BY CallFields DEF RoomsTypeOK, UnderWay
<1>3. CallsFollowRides' /\ OnlyConnectedInRooms'
  BY <1>2 DEF CallsFollowRides, OnlyConnectedInRooms
<1>4. NobodyJoinsAfter'
  BY <1>2 DEF NobodyJoinsAfter, UnderWay
<1>5. RoomEmpties'
  BY <1>2, JoinerIsActive DEF RoomEmpties
<1>6. RoomFills'
  BY <1>2 DEF RoomFills, Connected
<1> QED BY <1>1, <1>3, <1>4, <1>5, <1>6

LEMMA LeaveFetchInv == ASSUME RoomsInv, NEW r \in Rides, LeaveFetch(r) PROVE RoomsInv'
<1> USE DEF RoomsInv, LeaveFetch
<1>1. [at |-> "move", todo |-> Connected] \in RoomCall
  BY DEF RoomCall, Connected
<1>2. RoomsTypeOK'
  BY <1>1 DEF RoomsTypeOK, Connected
<1>3. /\ leaving'[r].at = "move" /\ leaving'[r].todo = Connected
      /\ \A q \in Rides \ {r} : leaving'[q] = leaving[q]
  BY DEF RoomsTypeOK
<1>4. CallsFollowRides' /\ OnlyConnectedInRooms'
  BY <1>3 DEF CallsFollowRides, OnlyConnectedInRooms
<1>5. RoomEmpties'
  BY <1>3 DEF RoomEmpties, OnlyConnectedInRooms, Connected
<1>6. NobodyJoinsAfter' /\ RoomFills'
  BY DEF NobodyJoinsAfter, RoomFills, Connected
<1> QED BY <1>2, <1>4, <1>5, <1>6

LEMMA LeaveNextInv == ASSUME RoomsInv, NEW r \in Rides, LeaveNext(r) PROVE RoomsInv'
<1> USE DEF RoomsInv, LeaveNext
<1>0. /\ leaving \in [Rides -> RoomCall] /\ rooms \in [Phones -> SUBSET Rides]
      /\ leaving[r].at = "move" /\ leaving[r].todo \subseteq Phones /\ stage[r] = "over"
  BY DEF RoomsTypeOK, RoomCall, CallsFollowRides
<1>1. CASE leaving[r].todo = {}
  <2>1. /\ leaving' = [leaving EXCEPT ![r].at = "key"] /\ UNCHANGED rooms
        /\ UNCHANGED <<stage, activeKey, phone, found, joining, watcher, mixed, missed>>
    BY <1>1
  <2>2. /\ leaving' \in [Rides -> RoomCall] /\ leaving'[r].at = "key"
        /\ \A q \in Rides \ {r} : leaving'[q] = leaving[q]
    BY <1>0, <2>1, CallChanges
  <2>3. RoomsTypeOK'
    BY <2>1, <2>2 DEF RoomsTypeOK, Connected
  <2>4. CallsFollowRides' /\ OnlyConnectedInRooms'
    BY <1>0, <2>1, <2>2 DEF CallsFollowRides, OnlyConnectedInRooms
  <2>5. NobodyJoinsAfter' /\ RoomFills'
    BY <2>1 DEF NobodyJoinsAfter, RoomFills, Connected
  <2>6. RoomEmpties'
    BY <1>0, <1>1, <2>1, <2>2 DEF RoomEmpties
  <2> QED BY <2>3, <2>4, <2>5, <2>6
<1>2. CASE leaving[r].todo # {}
  <2>1. PICK s \in leaving[r].todo : /\ leaving' = [leaving EXCEPT ![r].todo = @ \ {s}]
                                     /\ rooms' = [rooms EXCEPT ![s] = @ \ {r}]
    BY <1>2
  <2>2. s \in Phones /\ UNCHANGED <<stage, activeKey, phone, found, joining, watcher, mixed, missed>>
    BY <1>0
  <2>3. /\ leaving' \in [Rides -> RoomCall]
        /\ leaving'[r].at = "move" /\ leaving'[r].todo = leaving[r].todo \ {s}
        /\ \A q \in Rides \ {r} : leaving'[q] = leaving[q]
    <3>1. leaving' = [leaving EXCEPT ![r] = [leaving[r] EXCEPT !.todo = @ \ {s}]]
      BY <1>0, <2>1
    <3>2. [leaving[r] EXCEPT !.todo = @ \ {s}] \in RoomCall
      BY <1>0, <2>2, CallProceeds
    <3>3. /\ [leaving[r] EXCEPT !.todo = @ \ {s}].at = leaving[r].at
          /\ [leaving[r] EXCEPT !.todo = @ \ {s}].todo = leaving[r].todo \ {s}
      BY <1>0, <2>2, CallProceeds
    <3> QED BY <1>0, <3>1, <3>2, <3>3
  <2>4. /\ rooms' \in [Phones -> SUBSET Rides] /\ rooms'[s] = rooms[s] \ {r}
        /\ \A t \in Phones \ {s} : rooms'[t] = rooms[t]
    BY <1>0, <2>1, <2>2
  <2>5. RoomsTypeOK'
    BY <2>2, <2>3, <2>4 DEF RoomsTypeOK, Connected
  <2>6. CallsFollowRides' /\ OnlyConnectedInRooms'
    BY <1>0, <2>2, <2>3, <2>4 DEF CallsFollowRides, OnlyConnectedInRooms
  <2>7. \A q \in Rides, t \in Phones : /\ q \in rooms'[t] => q \in rooms[t]
                                       /\ q # r /\ q \in rooms[t] => q \in rooms'[t]
    BY <2>4
  <2>8. NobodyJoinsAfter'
    BY <2>2 DEF NobodyJoinsAfter
  <2>9. RoomEmpties'
    BY <1>0, <2>2, <2>3, <2>4, <2>7 DEF RoomEmpties
  <2>10. RoomFills'
    BY <1>0, <2>2, <2>7 DEF RoomFills, Connected
  <2> QED BY <2>5, <2>6, <2>8, <2>9, <2>10
<1> QED BY <1>1, <1>2

LEMMA LeaveKeyInv == ASSUME RoomsInv, NEW r \in Rides, LeaveKey(r) PROVE RoomsInv'
<1> USE RoomsAssumption DEF RoomsInv, LeaveKey
<1>1. RoomsTypeOK'
  BY CallTypes DEF RoomsTypeOK, Connected
<1>2. /\ leaving'[r].at = "done" /\ \A q \in Rides \ {r} : leaving'[q] = leaving[q]
  BY CallFields DEF RoomsTypeOK
<1>3. CallsFollowRides' /\ OnlyConnectedInRooms'
  BY <1>2 DEF CallsFollowRides, OnlyConnectedInRooms
<1>4. NobodyJoinsAfter' /\ RoomFills'
  BY DEF NobodyJoinsAfter, RoomFills, Connected
<1>5. RoomEmpties'
  BY <1>2 DEF RoomEmpties
<1> QED BY <1>1, <1>3, <1>4, <1>5

LEMMA KeyFailsInv == ASSUME RoomsInv, NEW r \in Rides, KeyFails(r) PROVE RoomsInv'
<1> USE DEF RoomsInv
<1>0. UNCHANGED <<stage, activeKey, phone, found, rooms, watcher>>
  BY DEF KeyFails
<1>1. mixed' = mixed \cup {r} /\ missed' = missed \cup {r}
  BY DEF KeyFails
<1>2. /\ joining' \in [Rides -> RoomCall] /\ leaving' \in [Rides -> RoomCall]
      /\ \A q \in Rides \ {r} : joining'[q] = joining[q] /\ leaving'[q] = leaving[q]
      /\ joining'[r].at = "none" <=> joining[r].at = "none"
      /\ leaving'[r].at = "none" <=> leaving[r].at = "none"
  BY CallTypes, CallFields DEF KeyFails, RoomsTypeOK
<1>3. RoomsTypeOK'
  BY <1>0, <1>1, <1>2 DEF RoomsTypeOK, Connected
<1>4. CallsFollowRides' /\ OnlyConnectedInRooms'
  BY <1>0, <1>2 DEF CallsFollowRides, OnlyConnectedInRooms
<1>5. NobodyJoinsAfter' /\ RoomEmpties' /\ RoomFills'
  BY <1>0, <1>1, <1>2 DEF NobodyJoinsAfter, RoomEmpties, RoomFills, Connected
<1> QED BY <1>3, <1>4, <1>5

LEMMA ProcessDiesInv == ASSUME RoomsInv, ProcessDies PROVE RoomsInv'
<1> USE DEF RoomsInv
<1>0. /\ UNCHANGED <<stage, activeKey>> /\ watcher' = NoPhone
      /\ phone' = [s \in Phones |-> "off"] /\ rooms' = [s \in Phones |-> {}]
      /\ found' = [s \in Phones |-> NoRide]
  BY DEF ProcessDies
<1>1. /\ mixed' \subseteq Rides /\ missed' \subseteq Rides
      /\ \A r \in Rides : /\ r \in mixed => r \in mixed'
                          /\ r \in missed => r \in missed'
                          /\ UnderWay(joining[r]) \/ UnderWay(leaving[r]) => r \in mixed' /\ r \in missed'
  BY DEF ProcessDies, RoomsTypeOK
<1>2. /\ joining' \in [Rides -> RoomCall] /\ leaving' \in [Rides -> RoomCall]
      /\ \A r \in Rides :
            /\ IF UnderWay(joining[r]) THEN joining'[r] = CallDone ELSE joining'[r] = joining[r]
            /\ IF UnderWay(leaving[r]) THEN leaving'[r] = CallDone ELSE leaving'[r] = leaving[r]
  BY CallTypes DEF ProcessDies, RoomsTypeOK
<1>3. \A r \in Rides : /\ joining'[r].at = "none" <=> joining[r].at = "none"
                       /\ leaving'[r].at = "none" <=> leaving[r].at = "none"
                       /\ ~UnderWay(joining'[r]) /\ ~UnderWay(leaving'[r])
  BY <1>2, CallFields DEF UnderWay
<1>4. RoomsTypeOK'
  BY <1>0, <1>1, <1>2, RoomsAssumption DEF RoomsTypeOK, Connected, PhoneStages
<1>5. CallsFollowRides' /\ OnlyConnectedInRooms'
  BY <1>0, <1>3 DEF CallsFollowRides, OnlyConnectedInRooms
<1>6. NobodyJoinsAfter'
  BY <1>0, <1>3, RoomsAssumption DEF NobodyJoinsAfter
<1>7. \A r \in Rides : r \notin mixed' =>
        r \notin mixed /\ joining'[r] = joining[r] /\ leaving'[r] = leaving[r]
  BY <1>1, <1>2
<1>8. RoomEmpties'
  BY <1>0, <1>3, <1>7 DEF RoomEmpties, UnderWay
<1>9. RoomFills'
  BY <1>0 DEF RoomFills, Connected
<1> QED BY <1>4, <1>5, <1>6, <1>8, <1>9

-----------------------------------------------------------------------------
(* Sockets *)

LEMMA GreetInv == ASSUME RoomsInv, NEW s \in Phones, Greet(s) PROVE RoomsInv'
<1> USE DEF RoomsInv, Greet
<1>1. Connected' = Connected
  BY DEF Connected, RoomsTypeOK
<1>2. RoomsTypeOK'
  BY <1>1 DEF RoomsTypeOK, PhoneStages
<1>3. CallsFollowRides' /\ OnlyConnectedInRooms'
  BY DEF CallsFollowRides, OnlyConnectedInRooms, RoomsTypeOK
<1>4. NobodyJoinsAfter' /\ RoomEmpties'
  BY DEF NobodyJoinsAfter, RoomEmpties
<1>5. RoomFills'
  BY <1>1 DEF RoomFills, RoomsTypeOK
<1> QED BY <1>2, <1>3, <1>4, <1>5

LEMMA ReadKeyInv == ASSUME RoomsInv, NEW s \in Phones, ReadKey(s) PROVE RoomsInv'
<1> USE DEF RoomsInv, ReadKey
<1>1. Connected' = Connected
  BY DEF Connected, RoomsTypeOK
<1>2. /\ phone'[s] = "rejoining" /\ found'[s] = activeKey /\ activeKey' = activeKey
      /\ \A t \in Phones \ {s} : phone'[t] = phone[t] /\ found'[t] = found[t]
  BY DEF RoomsTypeOK
<1>3. RoomsTypeOK'
  BY <1>1 DEF RoomsTypeOK, PhoneStages
<1>4. CallsFollowRides' /\ OnlyConnectedInRooms'
  BY <1>2 DEF CallsFollowRides, OnlyConnectedInRooms
<1>5. NobodyJoinsAfter'
  BY <1>2 DEF NobodyJoinsAfter
<1>6. RoomEmpties'
  BY DEF RoomEmpties
<1>7. RoomFills'
  BY <1>1, <1>2 DEF RoomFills
<1> QED BY <1>3, <1>4, <1>5, <1>6, <1>7

LEMMA RejoinInv == ASSUME RoomsInv, NEW s \in Phones, Rejoin(s) PROVE RoomsInv'
<1> USE DEF RoomsInv, Rejoin
<1>1. Connected' = Connected \cup {s}
  BY DEF Connected, RoomsTypeOK
<1>2. /\ phone'[s] = "connected" /\ found'[s] = NoRide /\ rooms'[s] = {found[s]} \ {NoRide}
      /\ \A t \in Phones \ {s} : /\ phone'[t] = phone[t] /\ found'[t] = found[t]
                                 /\ rooms'[t] = rooms[t]
  BY DEF RoomsTypeOK
<1>3. RoomsTypeOK'
  BY <1>1 DEF RoomsTypeOK, PhoneStages
<1>4. CallsFollowRides' /\ OnlyConnectedInRooms'
  BY <1>2 DEF CallsFollowRides, OnlyConnectedInRooms
<1>5. NobodyJoinsAfter'
  BY <1>2, RoomsAssumption DEF NobodyJoinsAfter
<1>6. \A r \in Rides : stage[r] = "over" /\ r \notin mixed => r \notin rooms'[s]
  BY <1>2 DEF NobodyJoinsAfter
<1>7. RoomEmpties'
  BY <1>2, <1>6 DEF RoomEmpties, CallsFollowRides
<1>8. \A r \in Rides : stage[r] = "active" /\ r \notin missed => r \in rooms'[s]
  BY <1>2, RoomsAssumption DEF RoomFills
<1>9. RoomFills'
  BY <1>1, <1>2, <1>8 DEF RoomFills
<1> QED BY <1>3, <1>4, <1>5, <1>7, <1>9

LEMMA CloseInv == ASSUME RoomsInv, NEW s \in Phones, Close(s) PROVE RoomsInv'
<1> USE DEF RoomsInv, Close
<1>1. Connected' = Connected \ {s}
  BY DEF Connected, RoomsTypeOK
<1>2. /\ phone'[s] = "off" /\ found'[s] = NoRide /\ rooms'[s] = {}
      /\ \A t \in Phones \ {s} : /\ phone'[t] = phone[t] /\ found'[t] = found[t]
                                 /\ rooms'[t] = rooms[t]
  BY DEF RoomsTypeOK
<1>3. watcher' \in Connected' \cup {NoPhone}
  BY <1>1 DEF RoomsTypeOK, Connected
<1>4. RoomsTypeOK'
  BY <1>3 DEF RoomsTypeOK, PhoneStages
<1>5. CallsFollowRides' /\ OnlyConnectedInRooms'
  BY <1>2 DEF CallsFollowRides, OnlyConnectedInRooms
<1>6. NobodyJoinsAfter'
  BY <1>2, RoomsAssumption DEF NobodyJoinsAfter
<1>7. RoomEmpties'
  BY <1>2 DEF RoomEmpties
<1>8. RoomFills'
  BY <1>1, <1>2 DEF RoomFills
<1> QED BY <1>4, <1>5, <1>6, <1>7, <1>8

LEMMA WatchInv ==
    ASSUME RoomsInv, NEW s \in Phones, Subscribe(s) \/ Unsubscribe(s) PROVE RoomsInv'
<1>1. /\ UNCHANGED <<stage, activeKey, phone, found, rooms, joining, leaving, mixed, missed>>
      /\ watcher' \in Connected \cup {NoPhone}
  BY DEF Subscribe, Unsubscribe
<1> QED BY <1>1 DEF RoomsInv, RoomsTypeOK, CallsFollowRides, OnlyConnectedInRooms,
                    NobodyJoinsAfter, RoomEmpties, RoomFills, Connected

-----------------------------------------------------------------------------
LEMMA RoomsStepInv == RoomsInv /\ [RoomsNext]_roomVars => RoomsInv'
<1> SUFFICES ASSUME RoomsInv, [RoomsNext]_roomVars PROVE RoomsInv'
  OBVIOUS
<1>1. CASE UNCHANGED roomVars
  BY <1>1 DEF roomVars, RoomsInv, RoomsTypeOK, CallsFollowRides, OnlyConnectedInRooms,
              NobodyJoinsAfter, RoomEmpties, RoomFills, Connected
<1>2. ASSUME NEW r \in Rides, Accepted(r) \/ Over(r) \/ RoomStep(r) \/ KeyFails(r)
      PROVE  RoomsInv'
  BY <1>2, AcceptedInv, OverInv, JoinFetchInv, JoinNextInv, JoinKeyInv,
     LeaveFetchInv, LeaveNextInv, LeaveKeyInv, KeyFailsInv DEF RoomStep
<1>3. ASSUME NEW s \in Phones,
             Greet(s) \/ ReadKey(s) \/ Rejoin(s) \/ Close(s) \/ Subscribe(s) \/ Unsubscribe(s)
      PROVE  RoomsInv'
  BY <1>3, GreetInv, ReadKeyInv, RejoinInv, CloseInv, WatchInv
<1> QED BY <1>1, <1>2, <1>3, ProcessDiesInv DEF RoomsNext

\* The strengthened invariant holds throughout.
THEOREM RoomsInvariance == RoomsSpec => []RoomsInv
BY RoomsInitInv, RoomsStepInv, PTL DEF RoomsSpec

\* Rides, sockets and calls keep their types, and no watcher outlives his socket.
THEOREM RoomsTypes == RoomsSpec => []RoomsTypeOK
<1>1. RoomsInv => RoomsTypeOK
  BY DEF RoomsInv
<1> QED BY <1>1, RoomsInvariance, PTL

\* A ride that was left has nobody in its room and no key, unless its leave overlapped a
\* join or a handshake, or a call failed (leaveRideRoom in sockets/emitter.ts).
THEOREM LeftIsForgotten == RoomsSpec => []LeftRideIsForgotten
<1>1. RoomsInv => LeftRideIsForgotten
  BY DEF RoomsInv, RoomEmpties, LeftRideIsForgotten
<1> QED BY <1>1, RoomsInvariance, PTL

\* Every connected socket of the user is in the room of his ride, once it is joined, unless
\* one read the key too early or after an earlier ride's leave.
THEOREM PhonesFollowRide == RoomsSpec => []PhonesAreInTheRoom
<1>1. RoomsInv => PhonesAreInTheRoom
  BY DEF RoomsInv, RoomFills, PhonesAreInTheRoom
<1> QED BY <1>1, RoomsInvariance, PTL
=============================================================================
