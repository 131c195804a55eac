----------------------------- MODULE MCClients ------------------------------
(***************************************************************************)
(* The parts that stand between a client and the rides: sessions, the user *)
(* cache, one-time codes, the offer cooldown, a driver's presence and ride *)
(* rooms.  They share no state that their properties depend on, so each    *)
(* behaviour is one of one part: focus names it, and the others stay as    *)
(* they started.                                                           *)
(***************************************************************************)
EXTENDS Sessions, UserCache, Otp, OfferCooldown, DriverPresence, RideRooms, TLC

CONSTANT Parts  \* the parts to be explored

VARIABLE focus  \* the part that this behaviour is of

clientVars == <<focus, sessionVars, cacheVars, otpVars, cooldownVars, presenceVars, roomVars>>

ClientsInit ==
    /\ focus \in Parts
    /\ SessionInit /\ CacheInit /\ OtpInit /\ CooldownInit /\ PresenceInit /\ RoomsInit

ClientsNext ==
    /\ UNCHANGED focus
    /\ \/ /\ focus = "sessions" /\ SessionNext
          /\ UNCHANGED <<cacheVars, otpVars, cooldownVars, presenceVars, roomVars>>
       \/ /\ focus = "user_cache" /\ CacheNext
          /\ UNCHANGED <<sessionVars, otpVars, cooldownVars, presenceVars, roomVars>>
       \/ /\ focus = "otp" /\ OtpNext
          /\ UNCHANGED <<sessionVars, cacheVars, cooldownVars, presenceVars, roomVars>>
       \/ /\ focus = "cooldown" /\ CooldownNext
          /\ UNCHANGED <<sessionVars, cacheVars, otpVars, presenceVars, roomVars>>
       \/ /\ focus = "presence" /\ PresenceNext
          /\ UNCHANGED <<sessionVars, cacheVars, otpVars, cooldownVars, roomVars>>
       \/ /\ focus = "rooms" /\ RoomsNext
          /\ UNCHANGED <<sessionVars, cacheVars, otpVars, cooldownVars, presenceVars>>

ClientsSpec == ClientsInit /\ [][ClientsNext]_clientVars

\* Types of all parts, and the bounds that the modules state with them.
ClientsTypeOK ==
    /\ SessionTypeOK /\ CacheTypeOK /\ OtpTypeOK /\ CooldownTypeOK
    /\ PresenceTypeOK /\ RoomsTypeOK

Symmetry == Permutations(Requests) \cup Permutations(Tokens) \cup Permutations(Sockets)
=============================================================================
