---------------------------- MODULE MCServices ------------------------------
(***************************************************************************)
(* The services around a ride, the process that runs them and the schema   *)
(* beneath: seats of shared rides, ratings, notifications, idempotent      *)
(* retries, scheduled rides, start-up and shutdown, a driver's statistics, *)
(* migrations and seeds.  They share no state that their properties depend *)
(* on, so each behaviour is one of one part: focus names it, and the       *)
(* others stay as they started.                                            *)
(***************************************************************************)
EXTENDS SharedRides, Ratings, Notifications, Idempotency, ScheduledRides, ServerLifecycle,
        DriverStats, Schema

CONSTANT Services  \* the parts to be explored

VARIABLE focus     \* the part that this behaviour is of

serviceVars == <<focus, sharedVars, ratingVars, pushVars, idemVars, scheduleVars, serverVars,
                 statsVars, schemaVars>>

ServicesInit ==
    /\ focus \in Services
    /\ SharedInit /\ RatingInit /\ PushInit /\ IdemInit /\ ScheduleInit /\ ServerInit
    /\ StatsInit /\ SchemaInit

ServicesNext ==
    /\ UNCHANGED focus
    /\ \/ /\ focus = "shared_rides" /\ SharedNext
          /\ UNCHANGED <<ratingVars, pushVars, idemVars, scheduleVars,
                         serverVars, statsVars, schemaVars>>
       \/ /\ focus = "ratings" /\ RatingNext
          /\ UNCHANGED <<sharedVars, pushVars, idemVars, scheduleVars,
                         serverVars, statsVars, schemaVars>>
       \/ /\ focus = "notifications" /\ PushNext
          /\ UNCHANGED <<sharedVars, ratingVars, idemVars, scheduleVars,
                         serverVars, statsVars, schemaVars>>
       \/ /\ focus = "idempotency" /\ IdemNext
          /\ UNCHANGED <<sharedVars, ratingVars, pushVars, scheduleVars,
                         serverVars, statsVars, schemaVars>>
       \/ /\ focus = "scheduled_rides" /\ ScheduleNext
          /\ UNCHANGED <<sharedVars, ratingVars, pushVars, idemVars,
                         serverVars, statsVars, schemaVars>>
       \/ /\ focus = "server" /\ ServerNext
          /\ UNCHANGED <<sharedVars, ratingVars, pushVars, idemVars,
                         scheduleVars, statsVars, schemaVars>>
       \/ /\ focus = "stats" /\ StatsNext
          /\ UNCHANGED <<sharedVars, ratingVars, pushVars, idemVars,
                         scheduleVars, serverVars, schemaVars>>
       \/ /\ focus = "schema" /\ SchemaNext
          /\ UNCHANGED <<sharedVars, ratingVars, pushVars, idemVars,
                         scheduleVars, serverVars, statsVars>>

ServicesSpec == ServicesInit /\ [][ServicesNext]_serviceVars /\ RatingFairness

\* Types of all parts, and the bounds that the modules state with them.
ServicesTypeOK ==
    /\ SharedTypeOK /\ RatingTypeOK /\ PushTypeOK /\ IdemTypeOK /\ ScheduleTypeOK
    /\ ServerTypeOK /\ StatsTypeOK /\ SchemaTypeOK
=============================================================================
