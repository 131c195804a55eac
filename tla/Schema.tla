------------------------------- MODULE Schema -------------------------------
(***************************************************************************)
(* The database's schema and seed rows, as the migrations, the seeders and *)
(* the npm scripts db:* change them, one step per statement.  Nothing runs *)
(* in a transaction: a command that fails or dies leaves what it has done. *)
(*                                                                         *)
(* External: sequelize-cli, which runs pending migrations in order, undoes *)
(* the last one, records a migration when all its statements are done, and *)
(* runs every seeder every time; and PostgreSQL.  createTable is CREATE    *)
(* TABLE IF NOT EXISTS; dropTable and removeIndex are IF EXISTS.           *)
(***************************************************************************)
EXTENDS Naturals, SequencesExt

CONSTANT MaxCommandDeaths  \* bound: commands that die half-way

ASSUME SchemaAssumption == MaxCommandDeaths \in Nat

VARIABLES schema,        \* the objects there are
          applied,       \* migrations recorded in SequelizeMeta
          command,       \* the command running: its kind, its file, its next statement
          rows,          \* tables that hold the seeders' rows
          reoffered,     \* ride_offers holds two offers of one driver on one ride
          commandDeaths, \* commands that died
          failedAt       \* history: the object of the first statement that failed

schemaVars == <<schema, applied, command, rows, reoffered, commandDeaths, failedAt>>

-----------------------------------------------------------------------------
(* Objects and statements *)

\* An object goes with the table or type it is of ("" = of none); what it needs cannot be
\* dropped as long as it is there.
Object(name, of, needs) == [name |-> name, of |-> of, needs |-> needs]

Statement(op, object) == [op |-> op, object |-> object]

CreateType(type)         == Statement("create", Object(type, "", {}))
AddValue(type, value)    == Statement("create", Object(value, type, {}))
CreateTable(table, needs) == Statement("ensure", Object(table, "", needs))
AddColumn(table, column, needs) == Statement("create", Object(column, table, needs))
AddIndex(table, index)   == Statement("create", Object(index, table, {}))
AddUnique(table, index)  == Statement("create_unique", Object(index, table, {}))
DropIfExists(name)       == Statement("drop_if_exists", Object(name, "", {}))
RemoveColumn(column)     == Statement("drop", Object(column, "", {}))
BulkInsert(table, needs) == Statement("insert", Object(table, "", needs))
BulkDelete(table)        == Statement("delete", Object(table, "", {}))

Names(objects) == {o.name : o \in objects}

\* Whether PostgreSQL carries out a statement: a new object must be new, a dropped one not
\* needed by another, a row's references be there and its key be free.
Possible(statement) ==
    LET o == statement.object
    IN  CASE statement.op \in {"create", "create_unique"} ->
                /\ o.name \notin Names(schema)
                /\ o.needs \cup ({o.of} \ {""}) \subseteq Names(schema)
                /\ statement.op = "create_unique" => ~reoffered
          [] statement.op = "ensure" ->
                o.name \in Names(schema) \/ o.needs \subseteq Names(schema)
          [] statement.op \in {"drop", "drop_if_exists"} ->
                /\ statement.op = "drop" => o.name \in Names(schema)
                /\ \A other \in schema : o.name \in other.needs => other.of = o.name
          [] statement.op = "insert" ->
                o.name \in Names(schema) \ rows /\ o.needs \subseteq rows
          [] statement.op = "delete" -> o.name \in Names(schema)

\* The objects there are after a statement.
After(statement) ==
    LET o == statement.object
    IN  CASE statement.op \in {"drop", "drop_if_exists"} ->
                {other \in schema : o.name \notin {other.name, other.of}}
          [] statement.op \in {"create", "create_unique", "ensure"} ->
                IF o.name \in Names(schema) THEN schema ELSE schema \cup {o}
          [] OTHER -> schema

-----------------------------------------------------------------------------
(* The migrations *)

EnumTypes == <<"user_role", "ride_status", "offer_status", "vehicle_type", "wallet_status",
               "transaction_type", "transaction_status", "device_platform",
               "shared_passenger_status">>

Each(F(_), names) == [i \in DOMAIN names |-> F(names[i])]

CreateEnumTypes ==
    [up   |-> Each(CreateType, EnumTypes),
     down |-> Each(DropIfExists, Reverse(EnumTypes))]

CreateUsers ==
    [up   |-> <<CreateTable("users", {"user_role"}),
                AddIndex("users", "idx_users_email"),
                AddIndex("users", "idx_users_google_id")>>,
     down |-> <<DropIfExists("users")>>]

CreateDriverProfiles ==
    [up   |-> <<CreateTable("driver_profiles", {"users"})>>,
     down |-> <<DropIfExists("driver_profiles")>>]

CreateVehicles ==
    [up   |-> <<CreateTable("vehicles", {"driver_profiles", "vehicle_type"})>>,
     down |-> <<DropIfExists("vehicles")>>]

CreateWallets ==
    [up   |-> <<CreateTable("wallets", {"users", "wallet_status"})>>,
     down |-> <<DropIfExists("wallets")>>]

CreateRides ==
    [up   |-> <<CreateTable("rides", {"users", "vehicle_type", "ride_status"})>>,
     down |-> <<DropIfExists("rides")>>]

CreateRideOffers ==
    [up   |-> <<CreateTable("ride_offers", {"rides", "users", "offer_status"}),
                AddUnique("ride_offers", "idx_ride_offers_ride_driver_unique")>>,
     down |-> <<DropIfExists("ride_offers")>>]

CreateRideStops ==
    [up   |-> <<CreateTable("ride_stops", {"rides"}),
                AddIndex("ride_stops", "idx_ride_stops_ride_order_unique")>>,
     down |-> <<DropIfExists("ride_stops")>>]

CreateSharedRidePassengers ==
    [up   |-> <<CreateTable("shared_ride_passengers",
                            {"rides", "users", "shared_passenger_status"}),
                AddIndex("shared_ride_passengers", "idx_shared_passengers_ride_rider_unique")>>,
     down |-> <<DropIfExists("shared_ride_passengers")>>]

CreateRatings ==
    [up   |-> <<CreateTable("ratings", {"rides", "users"})>>,
     down |-> <<DropIfExists("ratings")>>]

CreateWalletTransactions ==
    [up   |-> <<CreateTable("wallet_transactions",
                            {"users", "transaction_type", "transaction_status"})>>,
     down |-> <<DropIfExists("wallet_transactions")>>]

CreateOtpCodes ==
    [up   |-> <<CreateTable("otp_codes", {})>>,
     down |-> <<DropIfExists("otp_codes")>>]

CreateRefreshTokens ==
    [up   |-> <<CreateTable("refresh_tokens", {"users"})>>,
     down |-> <<DropIfExists("refresh_tokens")>>]

CreateDeviceTokens ==
    [up   |-> <<CreateTable("device_tokens", {"users", "device_platform"}),
                AddIndex("device_tokens", "idx_device_tokens_user_platform_unique")>>,
     down |-> <<DropIfExists("device_tokens")>>]

\* The indexes of add-indexes: the table and the name of each.
Indexes == <<
    <<"rides", "idx_rides_status_expires_at">>, <<"rides", "idx_rides_rider_status">>,
    <<"rides", "idx_rides_driver_status">>, <<"rides", "idx_rides_shared_status">>,
    <<"rides", "idx_rides_scheduled">>, <<"ride_offers", "idx_ride_offers_ride_status">>,
    <<"ride_offers", "idx_ride_offers_driver_status">>,
    <<"wallet_transactions", "idx_wallet_txn_reference">>,
    <<"wallet_transactions", "idx_wallet_txn_owner_created">>,
    <<"driver_profiles", "idx_driver_profiles_online_approved">>,
    <<"otp_codes", "idx_otp_codes_phone_used_expires">>,
    <<"refresh_tokens", "idx_refresh_tokens_user">>,
    <<"device_tokens", "idx_device_tokens_user">>, <<"ratings", "idx_ratings_driver_created">> >>

AddNamed(pair) == AddIndex(pair[1], pair[2])
DropNamed(pair) == DropIfExists(pair[2])

\* Mutant: the last index is forgotten on the way back.
AddIndexesForOnce ==
    [up   |-> Each(AddNamed, Indexes),
     down |-> Tail(Each(DropNamed, Reverse(Indexes)))]

AddIndexes ==
    [up   |-> Each(AddNamed, Indexes),
     down |-> Each(DropNamed, Reverse(Indexes))]

Checks == <<
    <<"wallets", "chk_wallets_balance_non_negative">>,
    <<"wallet_transactions", "chk_wallet_transactions_amount_positive">>,
    <<"ratings", "chk_ratings_score_range">>, <<"rides", "chk_rides_commission_rate_range">> >>

AddCheckConstraints ==
    [up   |-> Each(AddNamed, Checks),
     down |-> Each(DropNamed, Reverse(Checks))]

CreateNotifications ==
    [up   |-> <<CreateType("notification_type"),
                CreateTable("notifications", {"users", "notification_type"}),
                AddIndex("notifications", "idx_notifications_user_unread_created"),
                AddIndex("notifications", "idx_notifications_user_created")>>,
     down |-> <<DropIfExists("notifications"), DropIfExists("notification_type")>>]

AddDriverLocationIndex ==
    [up   |-> <<AddIndex("driver_profiles", "idx_driver_profiles_nearby")>>,
     down |-> <<DropIfExists("idx_driver_profiles_nearby")>>]

\* PostgreSQL cannot take a value out of a type: the two values stay.
AddServiceTypeAndMotorcycle ==
    [up   |-> <<CreateType("service_type"), AddValue("vehicle_type", "motorcycle"),
                AddValue("notification_type", "offer_expired")>>,
     down |-> <<DropIfExists("service_type")>>]

AddRideColumnsAndOfferExpires ==
    [up   |-> <<AddColumn("rides", "rides.service_type", {"service_type"}),
                AddColumn("rides", "hide_estimate", {}),
                AddColumn("ride_offers", "expires_at", {})>>,
     down |-> <<RemoveColumn("expires_at"), RemoveColumn("hide_estimate"),
                RemoveColumn("rides.service_type")>>]

\* Offers become unique among the pending ones only, and again among all on the way back.
CreateDriverServiceTypesAndPartialIndex ==
    [up   |-> <<CreateTable("driver_service_types", {"users", "service_type"}),
                AddIndex("driver_service_types", "idx_driver_service_types_driver_service_unique"),
                DropIfExists("idx_ride_offers_ride_driver_unique"),
                AddIndex("ride_offers", "idx_ride_offers_ride_driver_pending")>>,
     down |-> <<DropIfExists("idx_ride_offers_ride_driver_pending"),
                AddUnique("ride_offers", "idx_ride_offers_ride_driver_unique"),
                DropIfExists("driver_service_types")>>]

Migrations == <<
    CreateEnumTypes, CreateUsers, CreateDriverProfiles, CreateVehicles, CreateWallets,
    CreateRides, CreateRideOffers, CreateRideStops, CreateSharedRidePassengers, CreateRatings,
    CreateWalletTransactions, CreateOtpCodes, CreateRefreshTokens, CreateDeviceTokens,
    AddIndexes, AddCheckConstraints, CreateNotifications, AddDriverLocationIndex,
    AddServiceTypeAndMotorcycle, AddRideColumnsAndOfferExpires,
    CreateDriverServiceTypesAndPartialIndex >>

Made(i) == {s.object : s \in {t \in Range(Migrations[i].up) : t.op # "drop_if_exists"}}
Unmade(i) == {s.object.name : s \in {t \in Range(Migrations[i].up) : t.op = "drop_if_exists"}}

\* The objects that migrations 1..n make of an empty database.
MadeBy == [n \in 0..Len(Migrations) |->
             Names(UNION {Made(i) : i \in 1..n}) \ UNION {Unmade(i) : i \in 1..n}]

-----------------------------------------------------------------------------
(* The seeders; each bulkInsert is one statement *)

InsertUsers      == BulkInsert("users", {})
InsertProfiles   == BulkInsert("driver_profiles", {"users"})
InsertVehicles   == BulkInsert("vehicles", {"driver_profiles"})
InsertWallets    == BulkInsert("wallets", {"users"})
InsertRides      == BulkInsert("rides", {"users"})
InsertOffers     == BulkInsert("ride_offers", {"rides", "users"})
InsertStops      == BulkInsert("ride_stops", {"rides"})
InsertRatings    == BulkInsert("ratings", {"rides", "users"})
InsertTransactions == BulkInsert("wallet_transactions", {"users"})

SeedUsers == [up |-> <<InsertUsers>>, down |-> <<BulkDelete("users")>>]

SeedDriverProfilesVehicles ==
    [up   |-> <<InsertProfiles, InsertVehicles>>,
     down |-> <<BulkDelete("vehicles"), BulkDelete("driver_profiles")>>]

SeedWallets == [up |-> <<InsertWallets>>, down |-> <<BulkDelete("wallets")>>]

SeedRidesOffersRatingsTransactions ==
    [up   |-> <<InsertRides, InsertOffers, InsertStops, InsertRatings, InsertTransactions>>,
     down |-> Each(BulkDelete, <<"wallet_transactions", "ratings", "ride_stops",
                                 "ride_offers", "rides">>)]

Seeders == <<SeedUsers, SeedDriverProfilesVehicles, SeedWallets,
             SeedRidesOffersRatingsTransactions>>

-----------------------------------------------------------------------------
(* Commands *)

NoCommand == [kind |-> "none", file |-> 0, step |-> 0]

CommandKinds == {"none", "migrate", "undo", "undo_all", "seed", "seed_undo"}

Idle == command = NoCommand
End == command' = NoCommand
Run(kind, file) == command' = [kind |-> kind, file |-> file, step |-> 1]

\* The statements of the file that the command is in.
Script ==
    CASE command.kind = "migrate" -> Migrations[command.file].up
      [] command.kind \in {"undo", "undo_all"} -> Migrations[command.file].down
      [] command.kind = "seed" -> Seeders[command.file].up
      [] command.kind = "seed_undo" -> Seeders[command.file].down

FileDone == ~Idle /\ command.step > Len(Script)
InFile == ~Idle /\ command.step <= Len(Script)
Current == Script[command.step]

SchemaInit ==
    /\ schema = {} /\ applied = 0 /\ command = NoCommand
    /\ rows = {} /\ reoffered = FALSE
    /\ commandDeaths = 0 /\ failedAt = "none"

\* db:migrate
Migrate ==
    /\ Idle /\ applied < Len(Migrations)
    /\ Run("migrate", applied + 1)
    /\ UNCHANGED <<schema, applied, rows, reoffered, commandDeaths, failedAt>>

\* db:migrate:undo and db:migrate:undo:all
Undo ==
    /\ Idle /\ applied > 0
    /\ \E kind \in {"undo", "undo_all"} : Run(kind, applied)
    /\ UNCHANGED <<schema, applied, rows, reoffered, commandDeaths, failedAt>>

\* db:seed on empty tables.  (On seeded ones it fails on the first key and changes nothing.)
Seed ==
    /\ Idle /\ applied = Len(Migrations) /\ rows = {}
    /\ Run("seed", 1)
    /\ UNCHANGED <<schema, applied, rows, reoffered, commandDeaths, failedAt>>

\* db:seed:undo
SeedUndo ==
    /\ Idle /\ applied = Len(Migrations)
    /\ Run("seed_undo", Len(Seeders))
    /\ UNCHANGED <<schema, applied, rows, reoffered, commandDeaths, failedAt>>

\* db:clean:only: one TRUNCATE of the tables there are, which takes rows that refer to them
\* along.  db:clean goes on with db:seed.
Clean ==
    /\ Idle
    /\ rows' = {} /\ reoffered' = FALSE
    /\ UNCHANGED <<schema, applied, command, commandDeaths, failedAt>>

\* acceptRide by a driver whose earlier offer on the ride is over.
ReOffer ==
    /\ Idle /\ applied = Len(Migrations) /\ failedAt = "none"
    /\ reoffered' = TRUE
    /\ UNCHANGED <<schema, applied, command, rows, commandDeaths, failedAt>>

\* The next statement is carried out.
Execute ==
    LET table == Current.object.name
        gone  == Current.op \in {"drop", "drop_if_exists", "delete"}
    IN  /\ InFile /\ Possible(Current)
        /\ schema' = After(Current)
        /\ rows' = CASE Current.op = "insert" -> rows \cup {table}
                     [] gone  -> rows \ {table}
                     [] OTHER -> rows
        /\ reoffered' = (reoffered /\ ~(gone /\ table \in {"ride_offers", "rides", "users"}))
        /\ command' = [command EXCEPT !.step = @ + 1]
        /\ UNCHANGED <<applied, commandDeaths, failedAt>>

\* It fails, and the command with it.
ExecuteFails ==
    /\ InFile /\ ~Possible(Current)
    /\ failedAt' = IF failedAt = "none" THEN Current.object.name ELSE failedAt
    /\ End
    /\ UNCHANGED <<schema, applied, rows, reoffered, commandDeaths>>

\* The migration is recorded, or its record removed; the command goes on to the next file.
Record ==
    /\ FileDone /\ command.kind \in {"migrate", "undo", "undo_all"}
    /\ applied' = IF command.kind = "migrate" THEN command.file ELSE command.file - 1
    /\ CASE command.kind = "migrate" /\ applied' < Len(Migrations) -> Run("migrate", applied' + 1)
         [] command.kind = "undo_all" /\ applied' > 0 -> Run("undo_all", applied')
         [] OTHER -> End
    /\ UNCHANGED <<schema, rows, reoffered, commandDeaths, failedAt>>

NextSeeder ==
    /\ FileDone /\ command.kind \in {"seed", "seed_undo"}
    /\ CASE command.kind = "seed" /\ command.file < Len(Seeders) -> Run("seed", command.file + 1)
         [] command.kind = "seed_undo" /\ command.file > 1 -> Run("seed_undo", command.file - 1)
         [] OTHER -> End
    /\ UNCHANGED <<schema, applied, rows, reoffered, commandDeaths, failedAt>>

\* The command is stopped between two statements, or loses its connection.
CommandDies ==
    /\ ~Idle /\ commandDeaths < MaxCommandDeaths
    /\ commandDeaths' = commandDeaths + 1
    /\ End
    /\ UNCHANGED <<schema, applied, rows, reoffered, failedAt>>

SchemaNext ==
    \/ Migrate \/ Undo \/ Seed \/ SeedUndo \/ Clean \/ ReOffer
    \/ Execute \/ ExecuteFails \/ Record \/ NextSeeder
    \/ CommandDies

SchemaSpec == SchemaInit /\ [][SchemaNext]_schemaVars

-----------------------------------------------------------------------------
(* Properties *)

\* Commands, recorded migrations and seed rows keep their types.
SchemaTypeOK ==
    /\ applied \in 0..Len(Migrations)
    /\ command.kind \in CommandKinds /\ command.step \in Nat
    /\ command.file \in 0..Len(Migrations)
    /\ rows \subseteq MadeBy[Len(Migrations)]
    /\ reoffered \in BOOLEAN /\ commandDeaths \in 0..MaxCommandDeaths

EnumValues == {"motorcycle", "offer_expired"}

\* Migrating and undoing in any order leaves the schema of the migrations recorded, but for
\* the two enum values; and a statement fails only if a command died before, if one of those
\* values is added again, or if the offers of the time between are not unique.
MigrationsAreReversible ==
    commandDeaths = 0 =>
        /\ failedAt \in EnumValues \cup {"none", "idx_ride_offers_ride_driver_unique"}
        /\ Idle /\ failedAt = "none" =>
              Names(schema) \ EnumValues = MadeBy[applied] \ EnumValues

\* Claim of 20260514120001, lines 26-28, "These values remain as harmless, unused entries":
\* no statement fails for them.
LeftoversAreHarmless == commandDeaths = 0 => failedAt \notin EnumValues
=============================================================================
