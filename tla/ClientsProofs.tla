---------------------------- MODULE ClientsProofs ---------------------------
(***************************************************************************)
(* The composition of sessions, user cache, one-time codes, the offer      *)
(* cooldown, presence and ride rooms implements each of them, so it keeps  *)
(* what each was proved to keep by itself.                                 *)
(***************************************************************************)
EXTENDS MCClients, AccountProofs, OtpProofs, SocketProofs

\* A step of the composition is a step of its part and leaves the others alone.
LEMMA PartSteps ==
    ASSUME [ClientsNext]_clientVars
    PROVE  /\ [SessionNext]_sessionVars
           /\ [CacheNext]_cacheVars
           /\ [OtpNext]_otpVars
           /\ [CooldownNext]_cooldownVars
           /\ [PresenceNext]_presenceVars
           /\ [RoomsNext]_roomVars
<1>1. CASE UNCHANGED clientVars
  BY <1>1 DEF clientVars
<1>2. CASE ClientsNext
  BY <1>2 DEF ClientsNext
<1> QED BY <1>1, <1>2

\* Whatever the composition does is a behaviour of each part by itself.
THEOREM ClientsImplementParts ==
    ClientsSpec => /\ SessionSpec
                   /\ CacheSpec
                   /\ OtpSpec
                   /\ CooldownSpec
                   /\ PresenceSpec
                   /\ RoomsSpec
<1>1. ClientsInit => /\ SessionInit /\ CacheInit /\ OtpInit
                     /\ CooldownInit /\ PresenceInit /\ RoomsInit
  BY DEF ClientsInit
<1> QED BY <1>1, PartSteps, PTL
        DEF ClientsSpec, SessionSpec, CacheSpec, OtpSpec, CooldownSpec, PresenceSpec, RoomsSpec

\* Tokens, cached rows, codes, cooldowns, places and rooms keep their types and bounds side by side.
THEOREM ClientsTypes == ClientsSpec => []ClientsTypeOK
<1>1. SessionTypeOK /\ CacheTypeOK /\ OtpTypeOK /\ CooldownTypeOK /\ PresenceTypeOK
        /\ RoomsTypeOK => ClientsTypeOK
  BY DEF ClientsTypeOK
<1> QED BY <1>1, ClientsImplementParts, SessionTypes, CacheTypes, OtpTypes, CooldownTypes,
           PresenceTypes, RoomsTypes, PTL

\* Every safety property of the parts holds of the composition.
THEOREM ClientsAreSafe ==
    ClientsSpec => /\ [](RevokedTokenIsRefused /\ StaleRowLapses /\ ShutAccountStaysShut)
                   /\ [](RateLimitHolds /\ CounterLapses)
                   /\ [](LiveCodesAreBounded /\ AttemptsAreLimited)
                   /\ [](GhostLapses /\ OfflineDriverIsHidden)
                   /\ [](LeftRideIsForgotten /\ PhonesAreInTheRoom)
                   /\ InactiveGetsNoToken /\ TokensKeepTheirLife
                   /\ []CooldownLapses /\ ReOffersWait
<1> QED BY ClientsImplementParts, RevokedStaysRefused, StaleCopyLapses, DeactivatedStaysOut,
           PhoneLimitHolds, PhoneIsNotLockedOut, LiveCodesAreFew, GuessesAreLimited,
           GhostsLapse, OfflineIsHidden, LeftIsForgotten,
           PhonesFollowRide, InactiveAccountGetsNoToken, TokensLiveOnce,
           CooldownEnds, ReOffersAreHeldBack, PTL
=============================================================================
