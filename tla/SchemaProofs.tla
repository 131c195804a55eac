---------------------------- MODULE SchemaProofs ----------------------------
(***************************************************************************)
(* What holds of the schema however commands follow each other and         *)
(* wherever they die: they stay within their files and seed tables that    *)
(* the migrations make; and, where none has died, migrating and undoing    *)
(* are inverse.                                                            *)
(*                                                                         *)
(* The second rests on what the 21 files say.  Every object is at home in  *)
(* one file (Home): its up makes it, once, where what it needs is there    *)
(* (UpFits), and its down takes it away, after what needs it (DownFits).   *)
(* So the schema in the middle of a file is known (UpState, DownState),    *)
(* and from one statement to the next stays so, which RevInv says.  The    *)
(* exception is the offers' unique index, which file 7 makes and file 21   *)
(* drops and, on its way back, makes again.                                *)
(***************************************************************************)
EXTENDS Schema, TLAPS

-----------------------------------------------------------------------------
(* Migrations and seeds *)

\* The tables that the seeders insert rows into.
SeededTables == {"users", "driver_profiles", "vehicles", "wallets", "rides", "ride_offers",
                 "ride_stops", "ratings", "wallet_transactions"}

\* What a migration's statement may be: it inserts no rows, and on the way up the one thing
\* it drops is an index.
IsUp(s) ==
    /\ s.op \in {"create", "create_unique", "ensure", "drop_if_exists"}
    /\ s.op = "drop_if_exists" => s.object.name = "idx_ride_offers_ride_driver_unique"

IsDown(s) == s.op \in {"drop", "drop_if_exists", "create_unique"}

LEMMA Statements ==
    /\ \A table, needs : IsUp(CreateTable(table, needs))
    /\ \A type : IsUp(CreateType(type))
    /\ \A type, value : IsUp(AddValue(type, value))
    /\ \A table, column, needs : IsUp(AddColumn(table, column, needs))
    /\ \A table, index : IsUp(AddIndex(table, index)) /\ IsUp(AddUnique(table, index))
    /\ \A pair : IsUp(AddNamed(pair)) /\ IsDown(DropNamed(pair))
    /\ IsUp(DropIfExists("idx_ride_offers_ride_driver_unique"))
    /\ \A name : IsDown(DropIfExists(name)) /\ IsDown(RemoveColumn(name))
    /\ \A table, index : IsDown(AddUnique(table, index))
BY DEF IsUp, IsDown, Statement, Object, CreateTable, CreateType, AddValue, AddColumn, AddIndex,
       AddUnique, AddNamed, DropNamed, DropIfExists, RemoveColumn

AllUp(script) ==
    /\ DOMAIN script = 1..Len(script) /\ Len(script) \in Nat
    /\ \A k \in 1..Len(script) : IsUp(script[k])

AllDown(script) == Len(script) \in Nat /\ \A k \in 1..Len(script) : IsDown(script[k])

LEMMA ShortScripts ==
    /\ \A a : /\ IsUp(a) => AllUp(<<a>>)
              /\ IsDown(a) => AllDown(<<a>>)
    /\ \A a, b : /\ IsUp(a) /\ IsUp(b) => AllUp(<<a, b>>)
                 /\ IsDown(a) /\ IsDown(b) => AllDown(<<a, b>>)
    /\ \A a, b, c : /\ IsUp(a) /\ IsUp(b) /\ IsUp(c) => AllUp(<<a, b, c>>)
                    /\ IsDown(a) /\ IsDown(b) /\ IsDown(c) => AllDown(<<a, b, c>>)
    /\ \A a, b, c, d : IsUp(a) /\ IsUp(b) /\ IsUp(c) /\ IsUp(d) => AllUp(<<a, b, c, d>>)
<1>1. \A a : (IsUp(a) => AllUp(<<a>>)) /\ (IsDown(a) => AllDown(<<a>>))
  BY DEF AllUp, AllDown
<1>2. \A a, b : /\ IsUp(a) /\ IsUp(b) => AllUp(<<a, b>>)
                /\ IsDown(a) /\ IsDown(b) => AllDown(<<a, b>>)
  BY DEF AllUp, AllDown
<1>3. \A a, b, c : /\ IsUp(a) /\ IsUp(b) /\ IsUp(c) => AllUp(<<a, b, c>>)
                   /\ IsDown(a) /\ IsDown(b) /\ IsDown(c) => AllDown(<<a, b, c>>)
  BY DEF AllUp, AllDown
<1>4. \A a, b, c, d : IsUp(a) /\ IsUp(b) /\ IsUp(c) /\ IsUp(d) => AllUp(<<a, b, c, d>>)
  BY DEF AllUp
<1> QED BY <1>1, <1>2, <1>3, <1>4

IsMigration(file) == AllUp(file.up) /\ AllDown(file.down)

LEMMA LongScripts ==
    IsMigration(CreateEnumTypes) /\ IsMigration(AddIndexes) /\ IsMigration(AddCheckConstraints)
<1> USE Statements DEF IsMigration, AllUp, AllDown, Each, Reverse
<1>1. IsMigration(CreateEnumTypes)
  BY DEF CreateEnumTypes, EnumTypes
<1>2. IsMigration(AddIndexes)
  BY DEF AddIndexes, Indexes
<1>3. IsMigration(AddCheckConstraints)
  BY DEF AddCheckConstraints, Checks
<1> QED BY <1>1, <1>2, <1>3

LEMMA FileCounts == Len(Migrations) = 21 /\ Len(Seeders) = 4
BY DEF Migrations, Seeders

LEMMA MigrationScripts == \A i \in 1..21 : IsMigration(Migrations[i])
<1> USE Statements, ShortScripts
<1>1. /\ IsMigration(CreateUsers)
      /\ IsMigration(CreateDriverProfiles)
      /\ IsMigration(CreateVehicles)
      /\ IsMigration(CreateWallets)
      /\ IsMigration(CreateRides)
      /\ IsMigration(CreateRideOffers)
  BY DEF IsMigration, CreateUsers, CreateDriverProfiles, CreateVehicles, CreateWallets, CreateRides, CreateRideOffers
<1>2. /\ IsMigration(CreateRideStops)
      /\ IsMigration(CreateSharedRidePassengers)
      /\ IsMigration(CreateRatings)
      /\ IsMigration(CreateWalletTransactions)
      /\ IsMigration(CreateOtpCodes)
      /\ IsMigration(CreateRefreshTokens)
  BY DEF IsMigration, CreateRideStops, CreateSharedRidePassengers, CreateRatings, CreateWalletTransactions, CreateOtpCodes, CreateRefreshTokens
<1>3. /\ IsMigration(CreateDeviceTokens)
      /\ IsMigration(CreateNotifications)
      /\ IsMigration(AddDriverLocationIndex)
      /\ IsMigration(AddServiceTypeAndMotorcycle)
      /\ IsMigration(AddRideColumnsAndOfferExpires)
      /\ IsMigration(CreateDriverServiceTypesAndPartialIndex)
  BY DEF IsMigration, CreateDeviceTokens, CreateNotifications, AddDriverLocationIndex, AddServiceTypeAndMotorcycle, AddRideColumnsAndOfferExpires, CreateDriverServiceTypesAndPartialIndex
<1>4. \A i \in 1..21 : i \in 1..7 \/ i \in 8..14 \/ i \in 15..21
  OBVIOUS
<1>5. \A i \in 1..7 : IsMigration(Migrations[i])
  BY <1>1, <1>2, <1>3, LongScripts DEF Migrations
<1>6. \A i \in 8..14 : IsMigration(Migrations[i])
  BY <1>1, <1>2, <1>3, LongScripts DEF Migrations
<1>7. \A i \in 15..21 : IsMigration(Migrations[i])
  BY <1>1, <1>2, <1>3, LongScripts DEF Migrations
<1> QED BY <1>4, <1>5, <1>6, <1>7

\* The tables that are seeded are made by the migrations, and none of them is dropped on the
\* way up.
LEMMA SeededTablesAreMade == SeededTables \subseteq MadeBy[Len(Migrations)]
<1> USE FileCounts
<1>1. \A i \in 1..21 : Unmade(i) \subseteq {"idx_ride_offers_ride_driver_unique"}
  <2> SUFFICES ASSUME NEW i \in 1..21, NEW k \in DOMAIN Migrations[i].up,
                      Migrations[i].up[k].op = "drop_if_exists"
               PROVE  Migrations[i].up[k].object.name = "idx_ride_offers_ride_driver_unique"
    BY DEF Unmade, Range
  <2> QED BY MigrationScripts DEF IsMigration, AllUp, IsUp
<1>2. ASSUME NEW i \in 1..21, NEW table, NEW needs,
             1 \in DOMAIN Migrations[i].up, Migrations[i].up[1] = CreateTable(table, needs)
      PROVE  table \in Names(UNION {Made(j) : j \in 1..21})
  <2>0. PICK s : s = Migrations[i].up[1]
    OBVIOUS
  <2>1. s \in Range(Migrations[i].up)
    BY <1>2, <2>0 DEF Range
  <2>2. s.op = "ensure" /\ s.object.name = table
    <3>1. s = CreateTable(table, needs)
      BY <1>2, <2>0
    <3> QED BY <3>1 DEF CreateTable, Statement, Object
  <2>3. s \in {t \in Range(Migrations[i].up) : t.op # "drop_if_exists"}
    BY <2>1, <2>2
  <2>4. s.object \in Made(i)
    BY <2>3 DEF Made
  <2>5. s.object \in UNION {Made(j) : j \in 1..21}
    BY <2>4
  <2> QED BY <2>2, <2>5 DEF Names
<1>3. SeededTables \subseteq Names(UNION {Made(j) : j \in 1..21})
  BY <1>2 DEF SeededTables, Migrations, CreateUsers, CreateDriverProfiles, CreateVehicles, CreateWallets,
      CreateRides, CreateRideOffers, CreateRideStops, CreateRatings, CreateWalletTransactions
<1>4. "idx_ride_offers_ride_driver_unique" \notin SeededTables
  BY DEF SeededTables
<1> QED BY <1>1, <1>3, <1>4 DEF MadeBy

\* Seeders insert into those tables, and only delete on the way back.
AllIntoSeeded(script) == \A k \in 1..Len(script) : script[k].object.name \in SeededTables
AllDelete(script) == \A k \in 1..Len(script) : script[k].op = "delete"

LEMMA SeederStatements ==
    /\ \A table \in SeededTables : \A needs : BulkInsert(table, needs).object.name \in SeededTables
    /\ \A table : BulkDelete(table).op = "delete"
BY DEF BulkInsert, BulkDelete, Statement, Object

LEMMA ShortSeeders ==
    /\ \A a : /\ a.object.name \in SeededTables => AllIntoSeeded(<<a>>)
              /\ a.op = "delete" => AllDelete(<<a>>)
    /\ \A a, b : /\ {a.object.name, b.object.name} \subseteq SeededTables => AllIntoSeeded(<<a, b>>)
                 /\ a.op = "delete" /\ b.op = "delete" => AllDelete(<<a, b>>)
    /\ \A a, b, c, d, e :
          {a.object.name, b.object.name, c.object.name, d.object.name, e.object.name}
             \subseteq SeededTables => AllIntoSeeded(<<a, b, c, d, e>>)
<1> USE DEF AllIntoSeeded, AllDelete
<1>1. \A a : /\ a.object.name \in SeededTables => AllIntoSeeded(<<a>>)
             /\ a.op = "delete" => AllDelete(<<a>>)
  OBVIOUS
<1>2. \A a, b : /\ {a.object.name, b.object.name} \subseteq SeededTables => AllIntoSeeded(<<a, b>>)
                /\ a.op = "delete" /\ b.op = "delete" => AllDelete(<<a, b>>)
  OBVIOUS
<1>3. \A a, b, c, d, e :
          {a.object.name, b.object.name, c.object.name, d.object.name, e.object.name}
             \subseteq SeededTables => AllIntoSeeded(<<a, b, c, d, e>>)
  OBVIOUS
<1> QED BY <1>1, <1>2, <1>3

LEMMA SeederScripts ==
    \A i \in 1..4 : AllIntoSeeded(Seeders[i].up) /\ AllDelete(Seeders[i].down)
<1>0. {"users", "driver_profiles", "vehicles", "wallets", "rides", "ride_offers",
                 "ride_stops", "ratings", "wallet_transactions"} = SeededTables
  BY DEF SeededTables
<1> USE SeederStatements, ShortSeeders, <1>0
<1>1. AllIntoSeeded(SeedUsers.up) /\ AllDelete(SeedUsers.down)
  BY DEF SeedUsers, InsertUsers
<1>2. AllIntoSeeded(SeedDriverProfilesVehicles.up) /\ AllDelete(SeedDriverProfilesVehicles.down)
  BY DEF SeedDriverProfilesVehicles, InsertProfiles, InsertVehicles
<1>3. AllIntoSeeded(SeedWallets.up) /\ AllDelete(SeedWallets.down)
  BY DEF SeedWallets, InsertWallets
<1>4. AllIntoSeeded(SeedRidesOffersRatingsTransactions.up)
  BY DEF SeedRidesOffersRatingsTransactions, InsertRides, InsertOffers, InsertStops,
         InsertRatings, InsertTransactions
<1>5. AllDelete(SeedRidesOffersRatingsTransactions.down)
  BY DEF SeedRidesOffersRatingsTransactions, Each, AllDelete
<1> QED BY <1>1, <1>2, <1>3, <1>4, <1>5 DEF Seeders

Command == [kind : CommandKinds, file : 0..21, step : Nat]

\* A command is in one of its kind's files, at a statement or past the last.
CommandIsInAFile ==
    /\ command \in Command
    /\ ~Idle => command.kind # "none" /\ command.file > 0 /\ command.step > 0
    /\ command.kind \in {"seed", "seed_undo"} => command.file <= 4

\* What holds wherever commands fail or die.
SchemaInv ==
    /\ applied \in 0..21
    /\ CommandIsInAFile
    /\ rows \subseteq SeededTables
    /\ reoffered \in BOOLEAN /\ commandDeaths \in 0..MaxCommandDeaths

LEMMA SchemaInitInv == SchemaInit => SchemaInv
<1> SUFFICES ASSUME SchemaInit PROVE SchemaInv
  OBVIOUS
<1>1. CommandIsInAFile
  BY DEF SchemaInit, CommandIsInAFile, NoCommand, Command, CommandKinds, Idle
<1>2. commandDeaths \in 0..MaxCommandDeaths
  BY SchemaAssumption DEF SchemaInit
<1>3. applied \in 0..21
  BY DEF SchemaInit
<1>4. rows \subseteq SeededTables /\ reoffered \in BOOLEAN
  BY DEF SchemaInit
<1> QED BY <1>1, <1>2, <1>3, <1>4 DEF SchemaInv

LEMMA RunOrEnd ==
    /\ End => CommandIsInAFile'
    /\ \A kind \in CommandKinds \ {"none"}, file \in 1..21 :
          Run(kind, file) /\ (kind \in {"seed", "seed_undo"} => file <= 4) => CommandIsInAFile'
BY DEF Run, End, CommandIsInAFile, NoCommand, Command, CommandKinds, Idle

LEMMA CommandsStartInv ==
    ASSUME SchemaInv, Migrate \/ Undo \/ Seed \/ SeedUndo PROVE SchemaInv'
<1>1. /\ UNCHANGED <<applied, rows, reoffered, commandDeaths>>
      /\ CommandIsInAFile'
  BY RunOrEnd, FileCounts DEF Migrate, Undo, Seed, SeedUndo, SchemaInv, CommandKinds
<1> QED BY <1>1 DEF SchemaInv

\* A command that goes on to another statement.
LEMMA StatementFollows ==
    ASSUME NEW c \in Command, NEW n \in Nat
    PROVE  /\ [c EXCEPT !.step = n] \in Command /\ [c EXCEPT !.step = n].step = n
           /\ [c EXCEPT !.step = n].kind = c.kind /\ [c EXCEPT !.step = n].file = c.file
BY DEF Command

LEMMA ExecuteInv == ASSUME SchemaInv, Execute PROVE SchemaInv'
<1>0. /\ command \in Command /\ command.kind # "none" /\ command.file \in 1..21
      /\ command.step \in Nat \ {0} /\ command.step <= Len(Script)
      /\ command.kind \in {"seed", "seed_undo"} => command.file \in 1..4
  <2>1. command \in Command /\ ~Idle /\ command.step <= Len(Script)
    BY DEF SchemaInv, CommandIsInAFile, Execute, InFile
  <2>2. command.file \in 0..21 /\ command.step \in Nat
    BY <2>1 DEF Command
  <2>3. command.kind # "none" /\ command.file > 0 /\ command.step > 0
    BY <2>1 DEF SchemaInv, CommandIsInAFile
  <2>4. command.kind \in {"seed", "seed_undo"} => command.file <= 4
    BY DEF SchemaInv, CommandIsInAFile
  <2>5. command.file \in 1..21 /\ command.step \in Nat \ {0}
    BY <2>2, <2>3
  <2>6. command.kind \in {"seed", "seed_undo"} => command.file \in 1..4
    BY <2>4, <2>5
  <2> QED BY <2>1, <2>3, <2>5, <2>6
<1>1. Current.op = "insert" => Current.object.name \in SeededTables
  <2> SUFFICES ASSUME Current.op = "insert" PROVE Current.object.name \in SeededTables
    OBVIOUS
  <2>1. CASE command.kind = "migrate"
    <3>1. Script = Migrations[command.file].up /\ AllUp(Script)
      BY <1>0, <2>1, MigrationScripts DEF Script, IsMigration
    <3>2. IsUp(Current)
      BY <1>0, <3>1 DEF Current, AllUp
    <3> QED BY <3>2 DEF IsUp
  <2>2. CASE command.kind \in {"undo", "undo_all"}
    <3>1. Script = Migrations[command.file].down /\ AllDown(Script)
      BY <1>0, <2>2, MigrationScripts DEF Script, IsMigration
    <3>2. IsDown(Current)
      BY <1>0, <3>1 DEF Current, AllDown
    <3> QED BY <3>2 DEF IsDown
  <2>3. CASE command.kind = "seed"
    BY <1>0, <2>3, SeederScripts DEF Current, Script, AllIntoSeeded, AllDelete
  <2>4. CASE command.kind = "seed_undo"
    BY <1>0, <2>4, SeederScripts DEF Current, Script, AllIntoSeeded, AllDelete
  <2> QED BY <1>0, <2>1, <2>2, <2>3, <2>4 DEF Command, CommandKinds
<1>2. rows' \subseteq SeededTables
  BY <1>1 DEF Execute, SchemaInv
<1>3. PICK next \in Nat : /\ next > 0
                          /\ command' = [command EXCEPT !.step = next]
  <2>1. command.step + 1 \in Nat /\ command.step + 1 > 0
    BY <1>0
  <2> QED BY <2>1 DEF Execute
<1>4. CommandIsInAFile'
  <2>1. /\ command' \in Command /\ command'.step = next
        /\ command'.kind = command.kind /\ command'.file = command.file
    BY <1>0, <1>3, StatementFollows
  <2>2. command.file > 0 /\ (command.kind \in {"seed", "seed_undo"} => command.file <= 4)
    BY <1>0
  <2> QED BY <1>0, <1>3, <2>1, <2>2 DEF CommandIsInAFile
<1>5. applied' = applied /\ reoffered' \in BOOLEAN /\ commandDeaths' = commandDeaths
  BY DEF Execute
<1> QED BY <1>2, <1>4, <1>5 DEF SchemaInv

LEMMA FileEndsInv == ASSUME SchemaInv, Record \/ NextSeeder PROVE SchemaInv'
<1>0. /\ command.kind \in CommandKinds /\ command.file \in 1..21
      /\ command.kind \in {"seed", "seed_undo"} => command.file \in 1..4
  BY DEF SchemaInv, CommandIsInAFile, Command, Record, NextSeeder, FileDone
<1>1. CASE Record
  <2>1. applied' \in 0..21
    BY <1>0, <1>1 DEF Record
  <2>2. \/ End
        \/ Run("migrate", applied' + 1) /\ applied' < 21
        \/ Run("undo_all", applied') /\ applied' > 0
    BY <1>1, FileCounts DEF Record
  <2>3. CommandIsInAFile'
    BY <2>1, <2>2, RunOrEnd DEF CommandKinds
  <2> QED BY <1>1, <2>1, <2>3 DEF Record, SchemaInv
<1>2. CASE NextSeeder
  <2>1. \/ End
        \/ Run("seed", command.file + 1) /\ command.file < 4
        \/ Run("seed_undo", command.file - 1) /\ command.file > 1
    BY <1>2, FileCounts DEF NextSeeder
  <2>2. command.file \in 1..4
    BY <1>0, <1>2 DEF NextSeeder
  <2>3. CommandIsInAFile'
    BY <2>1, <2>2, RunOrEnd DEF CommandKinds
  <2> QED BY <1>2, <2>3 DEF NextSeeder, SchemaInv
<1> QED BY <1>1, <1>2

LEMMA SchemaStepInv == SchemaInv /\ [SchemaNext]_schemaVars => SchemaInv'
<1> SUFFICES ASSUME SchemaInv, [SchemaNext]_schemaVars PROVE SchemaInv'
  OBVIOUS
<1>1. CASE UNCHANGED schemaVars
  BY <1>1 DEF schemaVars, SchemaInv, CommandIsInAFile, Idle
<1>2. CASE Clean \/ ReOffer
  BY <1>2 DEF Clean, ReOffer, SchemaInv, CommandIsInAFile, Idle
<1>3. CASE ExecuteFails
  BY <1>3, RunOrEnd DEF ExecuteFails, SchemaInv
<1>4. CASE CommandDies
  BY <1>4, RunOrEnd, SchemaAssumption DEF CommandDies, SchemaInv
<1> QED BY <1>1, <1>2, <1>3, <1>4, CommandsStartInv, ExecuteInv, FileEndsInv DEF SchemaNext

\* Commands stay within their files, and rows are inserted only into tables that the
\* migrations make, wherever commands die.
THEOREM SchemaTypes == SchemaSpec => []SchemaTypeOK
<1>1. SchemaInv => SchemaTypeOK
  BY SeededTablesAreMade, FileCounts DEF SchemaInv, CommandIsInAFile, Command, SchemaTypeOK
<1> QED BY <1>1, SchemaInitInv, SchemaStepInv, PTL DEF SchemaSpec

-----------------------------------------------------------------------------
(* Where objects are at home *)

OffersIndex == "idx_ride_offers_ride_driver_unique"

IndexNames == {"idx_rides_status_expires_at", "idx_rides_rider_status", "idx_rides_driver_status",
               "idx_rides_shared_status", "idx_rides_scheduled", "idx_ride_offers_ride_status",
               "idx_ride_offers_driver_status", "idx_wallet_txn_reference",
               "idx_wallet_txn_owner_created", "idx_driver_profiles_online_approved",
               "idx_otp_codes_phone_used_expires", "idx_refresh_tokens_user",
               "idx_device_tokens_user", "idx_ratings_driver_created"}

CheckNames == {"chk_wallets_balance_non_negative", "chk_wallet_transactions_amount_positive",
               "chk_ratings_score_range", "chk_rides_commission_rate_range"}

\* The migration that makes an object, but for the two enum values.
Home(name) ==
    CASE name \in {"user_role", "ride_status", "offer_status", "vehicle_type", "wallet_status",
                   "transaction_type", "transaction_status", "device_platform",
                   "shared_passenger_status"} -> 1
      [] name \in {"users", "idx_users_email", "idx_users_google_id"} -> 2
      [] name = "driver_profiles" -> 3
      [] name = "vehicles" -> 4
      [] name = "wallets" -> 5
      [] name = "rides" -> 6
      [] name \in {"ride_offers", "idx_ride_offers_ride_driver_unique"} -> 7
      [] name \in {"ride_stops", "idx_ride_stops_ride_order_unique"} -> 8
      [] name \in {"shared_ride_passengers", "idx_shared_passengers_ride_rider_unique"} -> 9
      [] name = "ratings" -> 10
      [] name = "wallet_transactions" -> 11
      [] name = "otp_codes" -> 12
      [] name = "refresh_tokens" -> 13
      [] name \in {"device_tokens", "idx_device_tokens_user_platform_unique"} -> 14
      [] name \in IndexNames -> 15
      [] name \in CheckNames -> 16
      [] name \in {"notification_type", "notifications", "idx_notifications_user_unread_created",
                   "idx_notifications_user_created"} -> 17
      [] name = "idx_driver_profiles_nearby" -> 18
      [] name = "service_type" -> 19
      [] name \in {"rides.service_type", "hide_estimate", "expires_at"} -> 20
      [] name \in {"driver_service_types", "idx_driver_service_types_driver_service_unique",
                   "idx_ride_offers_ride_driver_pending"} -> 21
      [] OTHER -> 22


LEMMA HomesAreFiles == \A name : Home(name) \in 1..22
BY DEF Home

\* Where the objects are at home that a statement names.
LEMMA TableHomes ==
    /\ Home("users") = 2 /\ Home("driver_profiles") = 3 /\ Home("vehicles") = 4
    /\ Home("wallets") = 5 /\ Home("rides") = 6 /\ Home("ride_offers") = 7
    /\ Home("ride_stops") = 8 /\ Home("shared_ride_passengers") = 9 /\ Home("ratings") = 10
    /\ Home("wallet_transactions") = 11 /\ Home("otp_codes") = 12
    /\ Home("refresh_tokens") = 13 /\ Home("device_tokens") = 14 /\ Home("notifications") = 17
    /\ Home("driver_service_types") = 21
BY DEF Home, IndexNames, CheckNames

LEMMA TypeHomes ==
    /\ \A k \in 1..9 : Home(EnumTypes[k]) = 1
    /\ Home("user_role") = 1 /\ Home("ride_status") = 1 /\ Home("offer_status") = 1
    /\ Home("vehicle_type") = 1 /\ Home("wallet_status") = 1 /\ Home("transaction_type") = 1
    /\ Home("transaction_status") = 1 /\ Home("device_platform") = 1
    /\ Home("shared_passenger_status") = 1
    /\ Home("notification_type") = 17 /\ Home("service_type") = 19
<1>2. /\ Home("user_role") = 1 /\ Home("ride_status") = 1 /\ Home("offer_status") = 1
    /\ Home("vehicle_type") = 1 /\ Home("wallet_status") = 1 /\ Home("transaction_type") = 1
    /\ Home("transaction_status") = 1 /\ Home("device_platform") = 1
    /\ Home("shared_passenger_status") = 1
    /\ Home("notification_type") = 17 /\ Home("service_type") = 19
  BY DEF Home, IndexNames, CheckNames
<1>3. \A k \in 1..9 : Home(EnumTypes[k]) = 1
  BY <1>2 DEF EnumTypes
<1> QED BY <1>2, <1>3

LEMMA IndexHomes ==
    /\ Home("idx_users_email") = 2 /\ Home("idx_users_google_id") = 2
    /\ Home("idx_ride_offers_ride_driver_unique") = 7
    /\ Home("idx_ride_stops_ride_order_unique") = 8
    /\ Home("idx_shared_passengers_ride_rider_unique") = 9
    /\ Home("idx_device_tokens_user_platform_unique") = 14
    /\ \A k \in 1..14 : Home(Indexes[k][2]) = 15
    /\ \A k \in 1..4 : Home(Checks[k][2]) = 16
    /\ Home("idx_notifications_user_unread_created") = 17
    /\ Home("idx_notifications_user_created") = 17
    /\ Home("idx_driver_profiles_nearby") = 18
    /\ Home("rides.service_type") = 20 /\ Home("hide_estimate") = 20 /\ Home("expires_at") = 20
    /\ Home("idx_driver_service_types_driver_service_unique") = 21
    /\ Home("idx_ride_offers_ride_driver_pending") = 21
<1>1. \A k \in 1..14 : Indexes[k][2] \in IndexNames
  BY DEF Indexes, IndexNames
<1>2. \A k \in 1..4 : Checks[k][2] \in CheckNames
  BY DEF Checks, CheckNames
<1>3. \A name \in IndexNames : Home(name) = 15
  <2>1. Home("idx_rides_status_expires_at") = 15
    BY DEF Home, IndexNames, CheckNames
  <2>2. Home("idx_rides_rider_status") = 15
    BY DEF Home, IndexNames, CheckNames
  <2>3. Home("idx_rides_driver_status") = 15
    BY DEF Home, IndexNames, CheckNames
  <2>4. Home("idx_rides_shared_status") = 15
    BY DEF Home, IndexNames, CheckNames
  <2>5. Home("idx_rides_scheduled") = 15
    BY DEF Home, IndexNames, CheckNames
  <2>6. Home("idx_ride_offers_ride_status") = 15
    BY DEF Home, IndexNames, CheckNames
  <2>7. Home("idx_ride_offers_driver_status") = 15
    BY DEF Home, IndexNames, CheckNames
  <2>8. Home("idx_wallet_txn_reference") = 15
    BY DEF Home, IndexNames, CheckNames
  <2>9. Home("idx_wallet_txn_owner_created") = 15
    BY DEF Home, IndexNames, CheckNames
  <2>10. Home("idx_driver_profiles_online_approved") = 15
    BY DEF Home, IndexNames, CheckNames
  <2>11. Home("idx_otp_codes_phone_used_expires") = 15
    BY DEF Home, IndexNames, CheckNames
  <2>12. Home("idx_refresh_tokens_user") = 15
    BY DEF Home, IndexNames, CheckNames
  <2>13. Home("idx_device_tokens_user") = 15
    BY DEF Home, IndexNames, CheckNames
  <2>14. Home("idx_ratings_driver_created") = 15
    BY DEF Home, IndexNames, CheckNames
  <2> QED BY <2>1, <2>2, <2>3, <2>4, <2>5, <2>6, <2>7, <2>8, <2>9, <2>10, <2>11, <2>12, <2>13, <2>14 DEF IndexNames
<1>4. \A name \in CheckNames : Home(name) = 16
  BY DEF Home, IndexNames, CheckNames
<1>5. /\ Home("idx_users_email") = 2 /\ Home("idx_users_google_id") = 2
    /\ Home("idx_ride_offers_ride_driver_unique") = 7
    /\ Home("idx_ride_stops_ride_order_unique") = 8
    /\ Home("idx_shared_passengers_ride_rider_unique") = 9
    /\ Home("idx_device_tokens_user_platform_unique") = 14
  BY DEF Home, IndexNames, CheckNames
<1>6. /\ Home("idx_notifications_user_unread_created") = 17
    /\ Home("idx_notifications_user_created") = 17
    /\ Home("idx_driver_profiles_nearby") = 18
    /\ Home("rides.service_type") = 20 /\ Home("hide_estimate") = 20 /\ Home("expires_at") = 20
    /\ Home("idx_driver_service_types_driver_service_unique") = 21
    /\ Home("idx_ride_offers_ride_driver_pending") = 21
  BY DEF Home, IndexNames, CheckNames
<1> QED BY <1>1, <1>2, <1>3, <1>4, <1>5, <1>6

\* The files that make the tables and types others refer to.
Tabled == 1..14 \cup {19}

\* The name of an object that is there when file f has come to a statement, after those
\* that made the names E.
Known(name, f, E) ==
    /\ name \notin EnumValues \cup {OffersIndex}
    /\ \/ Home(name) \in Tabled /\ Home(name) < f
       \/ name \in E

Needed(o) == o.needs \cup ({o.of} \ {""})

Adds(s) == s.op \in {"create", "create_unique", "ensure"}

\* A statement of file f that adds a new object where what it needs is there.
Fits(s, f, E) ==
    /\ Adds(s) /\ s.object.name \notin E
    /\ s.op = "create_unique" => s.object.name = OffersIndex
    /\ \/ s.op = "create" /\ s.object.name \in EnumValues /\ s.object.needs = {}
       \/ /\ Home(s.object.name) = f /\ s.object.name \notin EnumValues
          /\ \A name \in Needed(s.object) : Known(name, f, E)
          /\ \A name \in s.object.needs : Home(name) < f \/ f = 17

LEMMA EnumHomes == \A name \in EnumValues : Home(name) = 22
BY DEF Home, IndexNames, CheckNames, EnumValues

LEMMA TableFits ==
    \A f \in 1..21 : \A E, table, needs :
       /\ Home(table) = f /\ table \notin E
       /\ \A n \in needs : Known(n, f, E) /\ (Home(n) < f \/ f = 17)
       => Fits(CreateTable(table, needs), f, E)
<1> SUFFICES ASSUME NEW f \in 1..21, NEW E, NEW table, NEW needs, Home(table) = f,
                    table \notin E,
                    \A n \in needs : Known(n, f, E) /\ (Home(n) < f \/ f = 17)
             PROVE  Fits(CreateTable(table, needs), f, E)
  OBVIOUS
<1>1. table \notin EnumValues
  BY EnumHomes
<1> QED BY <1>1 DEF CreateTable, Fits, Adds, Needed, Statement, Object

LEMMA TypeFits ==
    \A f \in 1..21 : \A E, type : Home(type) = f /\ type \notin E => Fits(CreateType(type), f, E)
BY EnumHomes DEF CreateType, Fits, Adds, Needed, Statement, Object

LEMMA ColumnFits ==
    \A f \in 1..21 : \A E, table, column, needs :
       /\ Home(column) = f /\ column \notin E /\ Known(table, f, E)
       /\ \A n \in needs : Known(n, f, E) /\ (Home(n) < f \/ f = 17)
       => Fits(AddColumn(table, column, needs), f, E)
<1> SUFFICES ASSUME NEW f \in 1..21, NEW E, NEW table, NEW column, NEW needs, Home(column) = f,
                    column \notin E, Known(table, f, E),
                    \A n \in needs : Known(n, f, E) /\ (Home(n) < f \/ f = 17)
             PROVE  Fits(AddColumn(table, column, needs), f, E)
  OBVIOUS
<1>1. column \notin EnumValues
  BY EnumHomes
<1> QED BY <1>1 DEF AddColumn, Fits, Adds, Needed, Statement, Object

LEMMA IndexFits ==
    \A f \in 1..21 : \A E, table, index :
       Home(index) = f /\ index \notin E /\ Known(table, f, E)
       => /\ Fits(AddIndex(table, index), f, E)
          /\ index = OffersIndex => Fits(AddUnique(table, index), f, E)
<1> SUFFICES ASSUME NEW f \in 1..21, NEW E, NEW table, NEW index, Home(index) = f,
                    index \notin E, Known(table, f, E)
             PROVE  /\ Fits(AddIndex(table, index), f, E)
                    /\ index = OffersIndex => Fits(AddUnique(table, index), f, E)
  OBVIOUS
<1>1. index \notin EnumValues
  BY EnumHomes
<1> QED BY <1>1 DEF AddIndex, AddUnique, Fits, Adds, Needed, Statement, Object

LEMMA ValueFits ==
    \A f, E, type : \A value \in EnumValues : value \notin E => Fits(AddValue(type, value), f, E)
<1> SUFFICES ASSUME NEW f, NEW E, NEW type, NEW value \in EnumValues, value \notin E
             PROVE  Fits(AddValue(type, value), f, E)
  OBVIOUS
<1>1. PICK s : s = AddValue(type, value)
  OBVIOUS
<1>2. s.op = "create" /\ s.object.name = value /\ s.object.needs = {}
  BY <1>1 DEF AddValue, Statement, Object
<1>3. Fits(s, f, E)
  BY <1>2 DEF Fits, Adds
<1> QED BY <1>1, <1>3

\* What the statements before the k-th have named.
Earlier(script, k) == {script[j].object.name : j \in 1..(k - 1)}

DropsIndex(f, k) == f = 21 /\ k = 3

UpFits(script, f) ==
    \A k \in 1..Len(script) :
       IF DropsIndex(f, k) THEN script[k] = DropIfExists(OffersIndex)
       ELSE Fits(script[k], f, Earlier(script, k))

LEMMA OneFits == \A f \in 1..20 : \A a : Fits(a, f, {}) => UpFits(<<a>>, f)
<1>1. \A a : Earlier(<<a>>, 1) = {}
  BY DEF Earlier
<1> QED BY <1>1 DEF UpFits, DropsIndex

LEMMA TwoFit ==
    \A f \in 1..20 : \A a, b :
       Fits(a, f, {}) /\ Fits(b, f, {a.object.name}) => UpFits(<<a, b>>, f)
<1>1. \A a, b : Earlier(<<a, b>>, 1) = {} /\ Earlier(<<a, b>>, 2) = {a.object.name}
  BY DEF Earlier
<1> QED BY <1>1 DEF UpFits, DropsIndex

LEMMA ThreeFit ==
    \A f \in 1..20 : \A a, b, c :
       /\ Fits(a, f, {}) /\ Fits(b, f, {a.object.name})
       /\ Fits(c, f, {a.object.name, b.object.name})
       => UpFits(<<a, b, c>>, f)
<1>1. \A a, b, c : /\ Earlier(<<a, b, c>>, 1) = {}
                   /\ Earlier(<<a, b, c>>, 2) = {a.object.name}
                   /\ Earlier(<<a, b, c>>, 3) = {a.object.name, b.object.name}
  BY DEF Earlier
<1> QED BY <1>1 DEF UpFits, DropsIndex

LEMMA FourFit ==
    \A f \in 1..20 : \A a, b, c, d :
       /\ Fits(a, f, {}) /\ Fits(b, f, {a.object.name})
       /\ Fits(c, f, {a.object.name, b.object.name})
       /\ Fits(d, f, {a.object.name, b.object.name, c.object.name})
       => UpFits(<<a, b, c, d>>, f)
<1>1. \A a, b, c, d :
         /\ Earlier(<<a, b, c, d>>, 1) = {}
         /\ Earlier(<<a, b, c, d>>, 2) = {a.object.name}
         /\ Earlier(<<a, b, c, d>>, 3) = {a.object.name, b.object.name}
         /\ Earlier(<<a, b, c, d>>, 4) = {a.object.name, b.object.name, c.object.name}
  BY DEF Earlier
<1> QED BY <1>1 DEF UpFits, DropsIndex

LEMMA StatementNames ==
    /\ \A table, needs : CreateTable(table, needs).object.name = table
    /\ \A type : CreateType(type).object.name = type
    /\ \A type, value : AddValue(type, value).object.name = value
    /\ \A table, column, needs : AddColumn(table, column, needs).object.name = column
    /\ \A table, index : /\ AddIndex(table, index).object.name = index
                         /\ AddUnique(table, index).object.name = index
    /\ \A name : DropIfExists(name).object.name = name /\ RemoveColumn(name).object.name = name
BY DEF Statement, Object, CreateTable, CreateType, AddValue, AddColumn, AddIndex, AddUnique,
       DropIfExists, RemoveColumn

\* The tables and types that are there whenever a later file's statement needs them.
LEMMA TablesKnown ==
    \A f \in 1..21 : \A name, E : Home(name) \in Tabled /\ Home(name) < f /\ name # OffersIndex
                                  => Known(name, f, E)
BY EnumHomes DEF Known, Tabled

LEMMA NamesAreDistinct ==
    /\ \A i, j \in 1..9 : EnumTypes[i] = EnumTypes[j] => i = j
    /\ \A i, j \in 1..14 : Indexes[i][2] = Indexes[j][2] => i = j
    /\ \A i, j \in 1..4 : Checks[i][2] = Checks[j][2] => i = j
<1>1. \A i, j \in 1..9 : EnumTypes[i] = EnumTypes[j] => i = j
  BY DEF EnumTypes
<1>2. \A i, j \in 1..14 : Indexes[i][2] = Indexes[j][2] => i = j
  BY DEF Indexes
<1>3. \A i, j \in 1..4 : Checks[i][2] = Checks[j][2] => i = j
  BY DEF Checks
<1> QED BY <1>1, <1>2, <1>3

\* Tables and types of earlier files.
Plain(names, f) == \A n \in names : Home(n) \in Tabled /\ Home(n) < f /\ n # OffersIndex

LEMMA TableFile ==
    \A f \in 2..14 : \A table, needs :
       Home(table) = f /\ Plain(needs, f) => Fits(CreateTable(table, needs), f, {})
<1> SUFFICES ASSUME NEW f \in 2..14, NEW table, NEW needs, Home(table) = f, Plain(needs, f)
             PROVE  Fits(CreateTable(table, needs), f, {})
  OBVIOUS
<1>1. \A n \in needs : Known(n, f, {}) /\ Home(n) < f
  BY TablesKnown DEF Plain
<1> QED BY <1>1, TableFits

LEMMA IndexOfTable ==
    \A f \in 2..14 : \A table, index, E :
       Home(table) = f /\ table # OffersIndex /\ table \in E /\ Home(index) = f /\ index \notin E
       => /\ Fits(AddIndex(table, index), f, E)
          /\ index = OffersIndex => Fits(AddUnique(table, index), f, E)
<1> SUFFICES ASSUME NEW f \in 2..14, NEW table, NEW index, NEW E,
                    Home(table) = f, table # OffersIndex, table \in E, Home(index) = f, index \notin E
             PROVE  /\ Fits(AddIndex(table, index), f, E)
                    /\ index = OffersIndex => Fits(AddUnique(table, index), f, E)
  OBVIOUS
<1>1. Known(table, f, E)
  BY EnumHomes DEF Known
<1> QED BY <1>1, IndexFits

LEMMA TableAlone ==
    \A f \in 2..14 : \A table, needs :
       Home(table) = f /\ Plain(needs, f) => UpFits(<<CreateTable(table, needs)>>, f)
BY TableFile, OneFits

LEMMA TableWithIndex ==
    \A f \in 2..14 : \A table, needs, index :
       /\ Home(table) = f /\ table # OffersIndex /\ Plain(needs, f)
       /\ Home(index) = f /\ index # table
       => /\ UpFits(<<CreateTable(table, needs), AddIndex(table, index)>>, f)
          /\ index = OffersIndex =>
                UpFits(<<CreateTable(table, needs), AddUnique(table, index)>>, f)
<1> SUFFICES ASSUME NEW f \in 2..14, NEW table, NEW needs, NEW index,
                    Home(table) = f, table # OffersIndex, Plain(needs, f),
                    Home(index) = f, index # table
             PROVE  /\ UpFits(<<CreateTable(table, needs), AddIndex(table, index)>>, f)
                    /\ index = OffersIndex =>
                          UpFits(<<CreateTable(table, needs), AddUnique(table, index)>>, f)
  OBVIOUS
<1>1. Fits(CreateTable(table, needs), f, {}) /\ CreateTable(table, needs).object.name = table
  BY TableFile, StatementNames
<1>2. /\ Fits(AddIndex(table, index), f, {table})
      /\ index = OffersIndex => Fits(AddUnique(table, index), f, {table})
  BY IndexOfTable
<1> QED BY <1>1, <1>2, TwoFit

LEMMA TableWithIndexes ==
    \A f \in 2..14 : \A table, needs, one, two :
       /\ Home(table) = f /\ table # OffersIndex /\ Plain(needs, f)
       /\ Home(one) = f /\ Home(two) = f /\ one # table /\ two # table /\ one # two
       => UpFits(<<CreateTable(table, needs), AddIndex(table, one), AddIndex(table, two)>>, f)
<1> SUFFICES ASSUME NEW f \in 2..14, NEW table, NEW needs, NEW one, NEW two,
                    Home(table) = f, table # OffersIndex, Plain(needs, f),
                    Home(one) = f, Home(two) = f, one # table, two # table, one # two
             PROVE  UpFits(<<CreateTable(table, needs), AddIndex(table, one),
                             AddIndex(table, two)>>, f)
  OBVIOUS
<1>1. Fits(CreateTable(table, needs), f, {}) /\ CreateTable(table, needs).object.name = table
  BY TableFile, StatementNames
<1>2. Fits(AddIndex(table, one), f, {table}) /\ AddIndex(table, one).object.name = one
  BY IndexOfTable, StatementNames
<1>3. Fits(AddIndex(table, two), f, {table, one})
  BY IndexOfTable
<1> QED BY <1>1, <1>2, <1>3, ThreeFit

\* Files 2 to 14: a table each, and its indexes.
LEMMA CreateFilesFit ==
    /\ UpFits(CreateUsers.up, 2) /\ UpFits(CreateDriverProfiles.up, 3)
    /\ UpFits(CreateVehicles.up, 4) /\ UpFits(CreateWallets.up, 5) /\ UpFits(CreateRides.up, 6)
    /\ UpFits(CreateRideOffers.up, 7) /\ UpFits(CreateRideStops.up, 8)
    /\ UpFits(CreateSharedRidePassengers.up, 9) /\ UpFits(CreateRatings.up, 10)
    /\ UpFits(CreateWalletTransactions.up, 11) /\ UpFits(CreateOtpCodes.up, 12)
    /\ UpFits(CreateRefreshTokens.up, 13) /\ UpFits(CreateDeviceTokens.up, 14)
<1>t. /\ Plain({"user_role"}, 2) /\ Plain({"users"}, 3) /\ Plain({"driver_profiles", "vehicle_type"}, 4)
      /\ Plain({"users", "wallet_status"}, 5) /\ Plain({"users", "vehicle_type", "ride_status"}, 6)
      /\ Plain({"rides", "users", "offer_status"}, 7) /\ Plain({"rides"}, 8)
      /\ Plain({"rides", "users", "shared_passenger_status"}, 9) /\ Plain({"rides", "users"}, 10)
      /\ Plain({"users", "transaction_type", "transaction_status"}, 11) /\ Plain({}, 12)
      /\ Plain({"users"}, 13) /\ Plain({"users", "device_platform"}, 14)
  BY TableHomes, TypeHomes DEF Plain, Tabled, OffersIndex
<1>1. UpFits(CreateUsers.up, 2)
  BY <1>t, TableWithIndexes, TableHomes, IndexHomes DEF CreateUsers, OffersIndex
<1>2. /\ UpFits(CreateDriverProfiles.up, 3) /\ UpFits(CreateVehicles.up, 4)
      /\ UpFits(CreateWallets.up, 5) /\ UpFits(CreateRides.up, 6)
  BY <1>t, TableAlone, TableHomes DEF CreateDriverProfiles, CreateVehicles, CreateWallets, CreateRides
<1>3. UpFits(CreateRatings.up, 10)
  BY <1>t, TableAlone, TableHomes DEF CreateRatings
<1>4. UpFits(CreateWalletTransactions.up, 11)
  BY <1>t, TableAlone, TableHomes DEF CreateWalletTransactions
<1>5. UpFits(CreateOtpCodes.up, 12)
  BY <1>t, TableAlone, TableHomes DEF CreateOtpCodes
<1>6. UpFits(CreateRefreshTokens.up, 13)
  BY <1>t, TableAlone, TableHomes DEF CreateRefreshTokens
<1>7. UpFits(CreateRideOffers.up, 7)
  <2>0. PICK f \in 2..14 : f = 7
    OBVIOUS
  <2>1. /\ Home("ride_offers") = f /\ Home("idx_ride_offers_ride_driver_unique") = f
        /\ "ride_offers" # OffersIndex
        /\ "idx_ride_offers_ride_driver_unique" = OffersIndex
        /\ "idx_ride_offers_ride_driver_unique" # "ride_offers"
    BY <2>0, TableHomes, IndexHomes DEF OffersIndex
  <2>2. PICK needs : needs = {"rides", "users", "offer_status"}
    OBVIOUS
  <2>3. Plain(needs, f)
    BY <1>t, <2>0, <2>2
  <2>4. UpFits(<<CreateTable("ride_offers", needs), AddUnique("ride_offers", "idx_ride_offers_ride_driver_unique")>>, f)
    BY <2>1, <2>3, TableWithIndex
  <2> QED BY <2>0, <2>2, <2>4 DEF CreateRideOffers
<1>8. UpFits(CreateRideStops.up, 8)
  <2>0. PICK f \in 2..14 : f = 8
    OBVIOUS
  <2>1. /\ Home("ride_stops") = f /\ Home("idx_ride_stops_ride_order_unique") = f
        /\ "ride_stops" # OffersIndex
        /\ "idx_ride_stops_ride_order_unique" # "ride_stops"
    BY <2>0, TableHomes, IndexHomes DEF OffersIndex
  <2>2. PICK needs : needs = {"rides"}
    OBVIOUS
  <2>3. Plain(needs, f)
    BY <1>t, <2>0, <2>2
  <2>4. UpFits(<<CreateTable("ride_stops", needs), AddIndex("ride_stops", "idx_ride_stops_ride_order_unique")>>, f)
    BY <2>1, <2>3, TableWithIndex
  <2> QED BY <2>0, <2>2, <2>4 DEF CreateRideStops
<1>9. UpFits(CreateSharedRidePassengers.up, 9)
  <2>0. PICK f \in 2..14 : f = 9
    OBVIOUS
  <2>1. /\ Home("shared_ride_passengers") = f
        /\ Home("idx_shared_passengers_ride_rider_unique") = f
        /\ "shared_ride_passengers" # OffersIndex
        /\ "idx_shared_passengers_ride_rider_unique" # "shared_ride_passengers"
    BY <2>0, TableHomes, IndexHomes DEF OffersIndex
  <2>2. PICK needs : needs = {"rides", "users", "shared_passenger_status"}
    OBVIOUS
  <2>3. Plain(needs, f)
    BY <1>t, <2>0, <2>2
  <2>4. UpFits(<<CreateTable("shared_ride_passengers", needs), AddIndex("shared_ride_passengers", "idx_shared_passengers_ride_rider_unique")>>, f)
    BY <2>1, <2>3, TableWithIndex
  <2> QED BY <2>0, <2>2, <2>4 DEF CreateSharedRidePassengers
<1>10. UpFits(CreateDeviceTokens.up, 14)
  <2>0. PICK f \in 2..14 : f = 14
    OBVIOUS
  <2>1. /\ Home("device_tokens") = f /\ Home("idx_device_tokens_user_platform_unique") = f
        /\ "device_tokens" # OffersIndex
        /\ "idx_device_tokens_user_platform_unique" # "device_tokens"
    BY <2>0, TableHomes, IndexHomes DEF OffersIndex
  <2>2. PICK needs : needs = {"users", "device_platform"}
    OBVIOUS
  <2>3. Plain(needs, f)
    BY <1>t, <2>0, <2>2
  <2>4. UpFits(<<CreateTable("device_tokens", needs), AddIndex("device_tokens", "idx_device_tokens_user_platform_unique")>>, f)
    BY <2>1, <2>3, TableWithIndex
  <2> QED BY <2>0, <2>2, <2>4 DEF CreateDeviceTokens
<1> QED BY <1>1, <1>2, <1>3, <1>4, <1>5, <1>6, <1>7, <1>8, <1>9, <1>10

\* The scripts made with Each, statement by statement.
LEMMA EachScripts ==
    /\ Len(CreateEnumTypes.up) = 9 /\ Len(CreateEnumTypes.down) = 9
    /\ \A k \in 1..9 : /\ CreateEnumTypes.up[k] = CreateType(EnumTypes[k])
                       /\ CreateEnumTypes.down[k] = DropIfExists(EnumTypes[10 - k])
    /\ Len(AddIndexes.up) = 14 /\ Len(AddIndexes.down) = 14
    /\ \A k \in 1..14 : /\ AddIndexes.up[k] = AddIndex(Indexes[k][1], Indexes[k][2])
                        /\ AddIndexes.down[k] = DropIfExists(Indexes[15 - k][2])
    /\ Len(AddCheckConstraints.up) = 4 /\ Len(AddCheckConstraints.down) = 4
    /\ \A k \in 1..4 : /\ AddCheckConstraints.up[k] = AddIndex(Checks[k][1], Checks[k][2])
                       /\ AddCheckConstraints.down[k] = DropIfExists(Checks[5 - k][2])
<1>1. /\ Len(EnumTypes) = 9 /\ DOMAIN EnumTypes = 1..9
      /\ Len(Indexes) = 14 /\ DOMAIN Indexes = 1..14
      /\ Len(Checks) = 4 /\ DOMAIN Checks = 1..4
  BY DEF EnumTypes, Indexes, Checks
<1>2. /\ Len(CreateEnumTypes.up) = 9 /\ Len(CreateEnumTypes.down) = 9
      /\ \A k \in 1..9 : /\ CreateEnumTypes.up[k] = CreateType(EnumTypes[k])
                         /\ CreateEnumTypes.down[k] = DropIfExists(EnumTypes[10 - k])
  BY <1>1 DEF CreateEnumTypes, Each, Reverse
<1>3. /\ Len(AddIndexes.up) = 14 /\ Len(AddIndexes.down) = 14
      /\ \A k \in 1..14 : /\ AddIndexes.up[k] = AddIndex(Indexes[k][1], Indexes[k][2])
                          /\ AddIndexes.down[k] = DropIfExists(Indexes[15 - k][2])
  BY <1>1 DEF AddIndexes, Each, Reverse, AddNamed, DropNamed
<1>4. /\ Len(AddCheckConstraints.up) = 4 /\ Len(AddCheckConstraints.down) = 4
      /\ \A k \in 1..4 : /\ AddCheckConstraints.up[k] = AddIndex(Checks[k][1], Checks[k][2])
                         /\ AddCheckConstraints.down[k] = DropIfExists(Checks[5 - k][2])
  BY <1>1 DEF AddCheckConstraints, Each, Reverse, AddNamed, DropNamed
<1> QED BY <1>2, <1>3, <1>4

LEMMA EnumTypesFit == UpFits(CreateEnumTypes.up, 1)
<1> DEFINE up == CreateEnumTypes.up
<1> SUFFICES ASSUME NEW k \in 1..9 PROVE Fits(up[k], 1, Earlier(up, k))
  BY EachScripts DEF UpFits, DropsIndex
<1>1. \A j \in 1..9 : up[j] = CreateType(EnumTypes[j]) /\ up[j].object.name = EnumTypes[j]
  BY EachScripts, StatementNames
<1>2. EnumTypes[k] \notin Earlier(up, k)
  BY <1>1, NamesAreDistinct DEF Earlier
<1> QED BY <1>1, <1>2, TypeFits, TypeHomes

LEMMA AddIndexesFit == UpFits(AddIndexes.up, 15)
<1> DEFINE up == AddIndexes.up
<1> SUFFICES ASSUME NEW k \in 1..14 PROVE Fits(up[k], 15, Earlier(up, k))
  BY EachScripts DEF UpFits, DropsIndex
<1>1. \A j \in 1..14 : /\ up[j] = AddIndex(Indexes[j][1], Indexes[j][2])
                       /\ up[j].object.name = Indexes[j][2]
  <2> SUFFICES ASSUME NEW j \in 1..14
               PROVE  /\ up[j] = AddIndex(Indexes[j][1], Indexes[j][2])
                      /\ up[j].object.name = Indexes[j][2]
    OBVIOUS
  <2>1. up[j] = AddIndex(Indexes[j][1], Indexes[j][2])
    BY EachScripts
  <2> QED BY <2>1, StatementNames
<1>2. Indexes[k][2] \notin Earlier(up, k)
  <2> SUFFICES ASSUME NEW j \in 1..(k - 1), Indexes[k][2] = up[j].object.name PROVE FALSE
    BY DEF Earlier
  <2>1. j \in 1..14 /\ j # k
    OBVIOUS
  <2>2. up[j].object.name = Indexes[j][2]
    BY <1>1, <2>1
  <2> QED BY <2>1, <2>2, NamesAreDistinct
<1>3. /\ Home(Indexes[k][1]) \in 1..14 /\ Indexes[k][1] # OffersIndex
  BY TableHomes DEF Indexes, OffersIndex
<1>4. Known(Indexes[k][1], 15, Earlier(up, k))
  BY <1>3, EnumHomes DEF Known, Tabled
<1>5. Home(Indexes[k][2]) = 15
  BY IndexHomes
<1> QED BY <1>1, <1>2, <1>4, <1>5, IndexFits

LEMMA AddChecksFit == UpFits(AddCheckConstraints.up, 16)
<1> DEFINE up == AddCheckConstraints.up
<1> SUFFICES ASSUME NEW k \in 1..4 PROVE Fits(up[k], 16, Earlier(up, k))
  BY EachScripts DEF UpFits, DropsIndex
<1>1. \A j \in 1..4 : /\ up[j] = AddIndex(Checks[j][1], Checks[j][2])
                      /\ up[j].object.name = Checks[j][2]
  BY EachScripts, StatementNames
<1>2. Checks[k][2] \notin Earlier(up, k)
  BY <1>1, NamesAreDistinct DEF Earlier
<1>3. /\ Home(Checks[k][1]) \in 1..14 /\ Checks[k][1] # OffersIndex
  BY TableHomes DEF Checks, OffersIndex
<1>4. Known(Checks[k][1], 16, Earlier(up, k))
  BY <1>3, EnumHomes DEF Known, Tabled
<1>5. Home(Checks[k][2]) = 16
  BY IndexHomes
<1> QED BY <1>1, <1>2, <1>4, <1>5, IndexFits

LEMMA LateFilesFit ==
    /\ UpFits(CreateNotifications.up, 17) /\ UpFits(AddDriverLocationIndex.up, 18)
    /\ UpFits(AddServiceTypeAndMotorcycle.up, 19)
    /\ UpFits(AddRideColumnsAndOfferExpires.up, 20)
<1>1. UpFits(CreateNotifications.up, 17)
  <2>0. PICK f \in 1..20 : f = 17
    OBVIOUS
  <2>1. /\ Home("notification_type") = f /\ Home("notifications") = f
        /\ Home("idx_notifications_user_unread_created") = f
        /\ Home("idx_notifications_user_created") = f
    BY <2>0, TypeHomes, TableHomes, IndexHomes
  <2>2. Fits(CreateType("notification_type"), f, {})
    BY <2>1, TypeFits
  <2>3. \A n \in {"users", "notification_type"} : Known(n, f, {"notification_type"})
    BY <2>0, TableHomes DEF Known, Tabled, EnumValues, OffersIndex
  <2>4. Fits(CreateTable("notifications", {"users", "notification_type"}), f, {"notification_type"})
    BY <2>0, <2>1, <2>3, TableFits
  <2>5. \A E : "notifications" \in E => Known("notifications", f, E)
    BY DEF Known, EnumValues, OffersIndex
  <2>6. \A E, i : /\ "notifications" \in E /\ i \notin E /\ Home(i) = f
                  => Fits(AddIndex("notifications", i), f, E)
    BY <2>5, IndexFits
  <2>7. Fits(AddIndex("notifications", "idx_notifications_user_unread_created"), f,
             {"notification_type", "notifications"})
    BY <2>1, <2>6
  <2>8. Fits(AddIndex("notifications", "idx_notifications_user_created"), f,
             {"notification_type", "notifications", "idx_notifications_user_unread_created"})
    BY <2>1, <2>6
  <2>9. UpFits(<<CreateType("notification_type"),
                 CreateTable("notifications", {"users", "notification_type"}),
                 AddIndex("notifications", "idx_notifications_user_unread_created"),
                 AddIndex("notifications", "idx_notifications_user_created")>>, f)
    <3>1. PICK a, b, c, d :
             /\ a = CreateType("notification_type")
             /\ b = CreateTable("notifications", {"users", "notification_type"})
             /\ c = AddIndex("notifications", "idx_notifications_user_unread_created")
             /\ d = AddIndex("notifications", "idx_notifications_user_created")
      OBVIOUS
    <3>2. /\ a.object.name = "notification_type" /\ b.object.name = "notifications"
          /\ c.object.name = "idx_notifications_user_unread_created"
      BY <3>1, StatementNames
    <3>3. UpFits(<<a, b, c, d>>, f)
      BY <2>2, <2>4, <2>7, <2>8, <3>1, <3>2, FourFit
    <3> QED BY <3>1, <3>3
  <2> QED BY <2>0, <2>9 DEF CreateNotifications
<1>2. UpFits(AddDriverLocationIndex.up, 18)
  <2>0. PICK f \in 1..20 : f = 18
    OBVIOUS
  <2>1. Known("driver_profiles", f, {})
    BY <2>0, TableHomes DEF Known, Tabled, EnumValues, OffersIndex
  <2>2. Home("idx_driver_profiles_nearby") = f
    BY <2>0, IndexHomes
  <2>3. Fits(AddIndex("driver_profiles", "idx_driver_profiles_nearby"), f, {})
    BY <2>1, <2>2, IndexFits
  <2> QED BY <2>0, <2>3, OneFits DEF AddDriverLocationIndex
<1>3. UpFits(AddServiceTypeAndMotorcycle.up, 19)
  <2>0. PICK f \in 1..20 : f = 19
    OBVIOUS
  <2>1. Fits(CreateType("service_type"), f, {})
    BY <2>0, TypeFits, TypeHomes
  <2>2. Fits(AddValue("vehicle_type", "motorcycle"), f, {"service_type"})
    BY ValueFits DEF EnumValues
  <2>3. Fits(AddValue("notification_type", "offer_expired"), f, {"service_type", "motorcycle"})
    <3>1. PICK value, E : value = "offer_expired" /\ E = {"service_type", "motorcycle"}
      OBVIOUS
    <3>2. value \in EnumValues /\ value \notin E
      BY <3>1 DEF EnumValues
    <3>3. Fits(AddValue("notification_type", value), f, E)
      BY <3>2, ValueFits
    <3> QED BY <3>1, <3>3
  <2>4. PICK a, b, c : /\ a = CreateType("service_type")
                        /\ b = AddValue("vehicle_type", "motorcycle")
                        /\ c = AddValue("notification_type", "offer_expired")
    OBVIOUS
  <2>5. a.object.name = "service_type" /\ b.object.name = "motorcycle"
    BY <2>4, StatementNames
  <2>6. UpFits(<<a, b, c>>, f)
    BY <2>1, <2>2, <2>3, <2>4, <2>5, ThreeFit
  <2>7. AddServiceTypeAndMotorcycle.up = <<a, b, c>>
    BY <2>4 DEF AddServiceTypeAndMotorcycle
  <2> QED BY <2>0, <2>6, <2>7
<1>4. UpFits(AddRideColumnsAndOfferExpires.up, 20)
  <2>0. PICK f \in 1..20 : f = 20
    OBVIOUS
  <2>1. /\ Home("rides.service_type") = f /\ Home("hide_estimate") = f /\ Home("expires_at") = f
    BY <2>0, IndexHomes
  <2>2. \A E : Known("rides", f, E) /\ Known("ride_offers", f, E) /\ Known("service_type", f, E)
    BY <2>0, TableHomes, TypeHomes DEF Known, Tabled, EnumValues, OffersIndex
  <2>6. Home("service_type") < f
    BY <2>0, TypeHomes
  <2>3. Fits(AddColumn("rides", "rides.service_type", {"service_type"}), f, {})
    BY <2>1, <2>2, <2>6, ColumnFits
  <2>4. Fits(AddColumn("rides", "hide_estimate", {}), f, {"rides.service_type"})
    BY <2>1, <2>2, ColumnFits
  <2>5. Fits(AddColumn("ride_offers", "expires_at", {}), f, {"rides.service_type", "hide_estimate"})
    BY <2>1, <2>2, ColumnFits
  <2> QED BY <2>0, <2>3, <2>4, <2>5, StatementNames, ThreeFit DEF AddRideColumnsAndOfferExpires
<1> QED BY <1>1, <1>2, <1>3, <1>4

LEMMA LastFileFits == UpFits(CreateDriverServiceTypesAndPartialIndex.up, 21)
<1> DEFINE up == CreateDriverServiceTypesAndPartialIndex.up
<1>0. PICK f \in 1..21 : f = 21
  OBVIOUS
<1>1. /\ Len(up) = 4
      /\ up[1] = CreateTable("driver_service_types", {"users", "service_type"})
      /\ up[2] = AddIndex("driver_service_types", "idx_driver_service_types_driver_service_unique")
      /\ up[3] = DropIfExists(OffersIndex)
      /\ up[4] = AddIndex("ride_offers", "idx_ride_offers_ride_driver_pending")
  BY DEF CreateDriverServiceTypesAndPartialIndex, OffersIndex
<1>2. /\ Earlier(up, 1) = {} /\ Earlier(up, 2) = {"driver_service_types"}
      /\ Earlier(up, 4) = {"driver_service_types", "idx_driver_service_types_driver_service_unique", OffersIndex}
  <2>1. /\ up[1].object.name = "driver_service_types"
        /\ up[2].object.name = "idx_driver_service_types_driver_service_unique"
        /\ up[3].object.name = OffersIndex
    BY <1>1, StatementNames
  <2> HIDE DEF up
  <2> QED BY <2>1 DEF Earlier
<1>3. /\ Home("driver_service_types") = f
      /\ Home("idx_driver_service_types_driver_service_unique") = f
      /\ Home("idx_ride_offers_ride_driver_pending") = f
  BY <1>0, TableHomes, IndexHomes
<1>4. /\ \A n \in {"users", "service_type"} : Known(n, f, {}) /\ Home(n) < f
      /\ Known("driver_service_types", f, {"driver_service_types"})
      /\ \A E : Known("ride_offers", f, E)
  BY <1>0, TableHomes, TypeHomes DEF Known, Tabled, EnumValues, OffersIndex
<1>5. Fits(up[1], f, Earlier(up, 1))
  BY <1>1, <1>2, <1>3, <1>4, TableFits
<1>6. Fits(up[2], f, Earlier(up, 2))
  BY <1>1, <1>2, <1>3, <1>4, IndexFits
<1>7. Fits(up[4], f, Earlier(up, 4))
  BY <1>1, <1>2, <1>3, <1>4, IndexFits DEF OffersIndex
<1>8. \A k \in 1..4 : k = 1 \/ k = 2 \/ k = 3 \/ k = 4
  OBVIOUS
<1> QED BY <1>0, <1>1, <1>5, <1>6, <1>7, <1>8 DEF UpFits, DropsIndex

LEMMA FilesFit == \A f \in 1..21 : UpFits(Migrations[f].up, f)
<1>1. \A f \in 1..21 : f \in 1..7 \/ f \in 8..14 \/ f \in 15..21
  OBVIOUS
<1>2. \A f \in 1..7 : UpFits(Migrations[f].up, f)
  BY EnumTypesFit, CreateFilesFit DEF Migrations
<1>3. \A f \in 8..14 : UpFits(Migrations[f].up, f)
  BY CreateFilesFit DEF Migrations
<1>4. \A f \in 15..21 : UpFits(Migrations[f].up, f)
  BY AddIndexesFit, AddChecksFit, LateFilesFit, LastFileFits DEF Migrations
<1> QED BY <1>1, <1>2, <1>3, <1>4

\* The objects of a migration, without the values of types.
Core(objects) == {o \in objects : o.name \notin EnumValues}

LEMMA MadeIs ==
    \A f \in 1..21 : \A o :
       o \in Made(f) <=> \E k \in 1..Len(Migrations[f].up) :
                            ~DropsIndex(f, k) /\ o = Migrations[f].up[k].object
<1> SUFFICES ASSUME NEW f \in 1..21, NEW o
             PROVE  o \in Made(f) <=> \E k \in 1..Len(Migrations[f].up) :
                                         ~DropsIndex(f, k) /\ o = Migrations[f].up[k].object
  OBVIOUS
<1> DEFINE up == Migrations[f].up
<1>1. DOMAIN up = 1..Len(up)
  BY MigrationScripts DEF IsMigration, AllUp
<1>2. \A k \in 1..Len(up) : DropsIndex(f, k) <=> up[k].op = "drop_if_exists"
  <2> SUFFICES ASSUME NEW k \in 1..Len(up) PROVE DropsIndex(f, k) <=> up[k].op = "drop_if_exists"
    OBVIOUS
  <2>1. CASE DropsIndex(f, k)
    <3>1. up[k] = DropIfExists(OffersIndex)
      BY <2>1, FilesFit DEF UpFits
    <3>2. DropIfExists(OffersIndex).op = "drop_if_exists"
      BY DEF DropIfExists, Statement
    <3> QED BY <2>1, <3>1, <3>2
  <2>2. CASE ~DropsIndex(f, k)
    BY <2>2, FilesFit DEF UpFits, Fits, Adds
  <2> QED BY <2>1, <2>2
<1> HIDE DEF up
<1>3. o \in {s.object : s \in {t \in Range(up) : t.op # "drop_if_exists"}}
      <=> \E k \in 1..Len(up) : ~DropsIndex(f, k) /\ o = up[k].object
  BY <1>1, <1>2 DEF Range
<1> QED BY <1>3 DEF Made, up

\* An object of file f is at home there, what it needs there or in earlier files.
LEMMA MadeAtHome ==
    \A f \in 1..21 : \A o \in Core(Made(f)) :
       /\ Home(o.name) = f
       /\ \A name \in Needed(o) : Home(name) <= f /\ name # OffersIndex
       /\ \A name \in o.needs : Home(name) < f \/ f = 17
<1> SUFFICES ASSUME NEW f \in 1..21, NEW o \in Core(Made(f))
             PROVE  /\ Home(o.name) = f
                    /\ \A name \in Needed(o) : Home(name) <= f /\ name # OffersIndex
                    /\ \A name \in o.needs : Home(name) < f \/ f = 17
  OBVIOUS
<1> DEFINE up == Migrations[f].up
<1>1. PICK k \in 1..Len(up) : ~DropsIndex(f, k) /\ o = up[k].object
  BY MadeIs DEF Core
<1>2. Fits(up[k], f, Earlier(up, k))
  BY <1>1, FilesFit DEF UpFits
<1>3. o.name \notin EnumValues
  BY DEF Core
<1>4. /\ Home(o.name) = f
      /\ \A name \in Needed(o) : Known(name, f, Earlier(up, k))
      /\ \A name \in o.needs : Home(name) < f \/ f = 17
  BY <1>1, <1>2, <1>3 DEF Fits
<1>5. ASSUME NEW name \in Earlier(up, k), name \notin EnumValues \cup {OffersIndex}
      PROVE  Home(name) = f
  <2>1. PICK j \in 1..(k - 1) : name = up[j].object.name
    BY <1>5 DEF Earlier
  <2>2. j \in 1..Len(up)
    OBVIOUS
  <2>3. CASE DropsIndex(f, j)
    <3>1. up[j] = DropIfExists(OffersIndex)
      BY <2>2, <2>3, FilesFit DEF UpFits
    <3> QED BY <1>5, <2>1, <3>1, StatementNames
  <2>4. CASE ~DropsIndex(f, j)
    <3>1. Fits(up[j], f, Earlier(up, j))
      BY <2>2, <2>4, FilesFit DEF UpFits
    <3> QED BY <1>5, <2>1, <3>1 DEF Fits
  <2> QED BY <2>3, <2>4
<1>6. ASSUME NEW name \in Needed(o) PROVE Home(name) <= f /\ name # OffersIndex
  <2>1. Known(name, f, Earlier(up, k))
    BY <1>4, <1>6
  <2>2. CASE name \in Earlier(up, k)
    <3>1. name \notin EnumValues \cup {OffersIndex}
      BY <2>1 DEF Known
    <3>2. Home(name) = f
      BY <1>5, <2>2, <3>1
    <3> QED BY <3>1, <3>2
  <2>3. CASE Home(name) < f
    <3>1. name \notin EnumValues \cup {OffersIndex}
      BY <2>1 DEF Known
    <3>2. Home(name) <= f
      BY <2>3, HomesAreFiles
    <3> QED BY <3>1, <3>2
  <2> QED BY <2>1, <2>2, <2>3 DEF Known
<1> QED BY <1>4, <1>6

\* The statement of file f that makes each name at home there.
MakesNames(f) ==
    \A name : Home(name) = f => \E k \in 1..Len(Migrations[f].up) :
                                   Migrations[f].up[k].object.name = name

LEMMA TablesAreMade == \A f \in Tabled : MakesNames(f)
<1>1. MakesNames(1)
  <2>1. \A name : Home(name) = 1 => \E k \in 1..9 : EnumTypes[k] = name
    BY DEF Home, IndexNames, CheckNames, EnumTypes
  <2>2. Migrations[1] = CreateEnumTypes
    BY DEF Migrations
  <2> QED BY <2>1, <2>2, EachScripts, StatementNames DEF MakesNames
<1>2. MakesNames(2)
  <2>1. \A name : Home(name) = 2 => name \in {"users", "idx_users_email", "idx_users_google_id"}
    BY DEF Home, IndexNames, CheckNames
  <2>2. /\ Len(CreateUsers.up) = 3
        /\ CreateUsers.up[1].object.name = "users"
        /\ CreateUsers.up[2].object.name = "idx_users_email"
        /\ CreateUsers.up[3].object.name = "idx_users_google_id"
    BY StatementNames DEF CreateUsers
  <2>3. Migrations[2] = CreateUsers
    BY DEF Migrations
  <2> QED BY <2>1, <2>2, <2>3 DEF MakesNames
<1>3. MakesNames(3)
  <2>1. \A name : Home(name) = 3 => name \in {"driver_profiles"}
    BY DEF Home, IndexNames, CheckNames
  <2>2. /\ Len(CreateDriverProfiles.up) = 1
        /\ CreateDriverProfiles.up[1].object.name = "driver_profiles"
    BY StatementNames DEF CreateDriverProfiles
  <2>3. Migrations[3] = CreateDriverProfiles
    BY DEF Migrations
  <2> QED BY <2>1, <2>2, <2>3 DEF MakesNames
<1>4. MakesNames(4)
  <2>1. \A name : Home(name) = 4 => name \in {"vehicles"}
    BY DEF Home, IndexNames, CheckNames
  <2>2. /\ Len(CreateVehicles.up) = 1
        /\ CreateVehicles.up[1].object.name = "vehicles"
    BY StatementNames DEF CreateVehicles
  <2>3. Migrations[4] = CreateVehicles
    BY DEF Migrations
  <2> QED BY <2>1, <2>2, <2>3 DEF MakesNames
<1>5. MakesNames(5)
  <2>1. \A name : Home(name) = 5 => name \in {"wallets"}
    BY DEF Home, IndexNames, CheckNames
  <2>2. /\ Len(CreateWallets.up) = 1
        /\ CreateWallets.up[1].object.name = "wallets"
    BY StatementNames DEF CreateWallets
  <2>3. Migrations[5] = CreateWallets
    BY DEF Migrations
  <2> QED BY <2>1, <2>2, <2>3 DEF MakesNames
<1>6. MakesNames(6)
  <2>1. \A name : Home(name) = 6 => name \in {"rides"}
    BY DEF Home, IndexNames, CheckNames
  <2>2. /\ Len(CreateRides.up) = 1
        /\ CreateRides.up[1].object.name = "rides"
    BY StatementNames DEF CreateRides
  <2>3. Migrations[6] = CreateRides
    BY DEF Migrations
  <2> QED BY <2>1, <2>2, <2>3 DEF MakesNames
<1>7. MakesNames(7)
  <2>1. \A name : Home(name) = 7 => name \in {"ride_offers", "idx_ride_offers_ride_driver_unique"}
    BY DEF Home, IndexNames, CheckNames
  <2>2. /\ Len(CreateRideOffers.up) = 2
        /\ CreateRideOffers.up[1].object.name = "ride_offers"
        /\ CreateRideOffers.up[2].object.name = "idx_ride_offers_ride_driver_unique"
    BY StatementNames DEF CreateRideOffers
  <2>3. Migrations[7] = CreateRideOffers
    BY DEF Migrations
  <2> QED BY <2>1, <2>2, <2>3 DEF MakesNames
<1>8. MakesNames(8)
  <2>1. \A name : Home(name) = 8 => name \in {"ride_stops", "idx_ride_stops_ride_order_unique"}
    BY DEF Home, IndexNames, CheckNames
  <2>2. /\ Len(CreateRideStops.up) = 2
        /\ CreateRideStops.up[1].object.name = "ride_stops"
        /\ CreateRideStops.up[2].object.name = "idx_ride_stops_ride_order_unique"
    BY StatementNames DEF CreateRideStops
  <2>3. Migrations[8] = CreateRideStops
    BY DEF Migrations
  <2> QED BY <2>1, <2>2, <2>3 DEF MakesNames
<1>9. MakesNames(9)
  <2>1. \A name : Home(name) = 9 => name \in {"shared_ride_passengers", "idx_shared_passengers_ride_rider_unique"}
    BY DEF Home, IndexNames, CheckNames
  <2>2. /\ Len(CreateSharedRidePassengers.up) = 2
        /\ CreateSharedRidePassengers.up[1].object.name = "shared_ride_passengers"
        /\ CreateSharedRidePassengers.up[2].object.name = "idx_shared_passengers_ride_rider_unique"
    BY StatementNames DEF CreateSharedRidePassengers
  <2>3. Migrations[9] = CreateSharedRidePassengers
    BY DEF Migrations
  <2> QED BY <2>1, <2>2, <2>3 DEF MakesNames
<1>10. MakesNames(10)
  <2>1. \A name : Home(name) = 10 => name \in {"ratings"}
    BY DEF Home, IndexNames, CheckNames
  <2>2. /\ Len(CreateRatings.up) = 1
        /\ CreateRatings.up[1].object.name = "ratings"
    BY StatementNames DEF CreateRatings
  <2>3. Migrations[10] = CreateRatings
    BY DEF Migrations
  <2> QED BY <2>1, <2>2, <2>3 DEF MakesNames
<1>11. MakesNames(11)
  <2>1. \A name : Home(name) = 11 => name \in {"wallet_transactions"}
    BY DEF Home, IndexNames, CheckNames
  <2>2. /\ Len(CreateWalletTransactions.up) = 1
        /\ CreateWalletTransactions.up[1].object.name = "wallet_transactions"
    BY StatementNames DEF CreateWalletTransactions
  <2>3. Migrations[11] = CreateWalletTransactions
    BY DEF Migrations
  <2> QED BY <2>1, <2>2, <2>3 DEF MakesNames
<1>12. MakesNames(12)
  <2>1. \A name : Home(name) = 12 => name \in {"otp_codes"}
    BY DEF Home, IndexNames, CheckNames
  <2>2. /\ Len(CreateOtpCodes.up) = 1
        /\ CreateOtpCodes.up[1].object.name = "otp_codes"
    BY StatementNames DEF CreateOtpCodes
  <2>3. Migrations[12] = CreateOtpCodes
    BY DEF Migrations
  <2> QED BY <2>1, <2>2, <2>3 DEF MakesNames
<1>13. MakesNames(13)
  <2>1. \A name : Home(name) = 13 => name \in {"refresh_tokens"}
    BY DEF Home, IndexNames, CheckNames
  <2>2. /\ Len(CreateRefreshTokens.up) = 1
        /\ CreateRefreshTokens.up[1].object.name = "refresh_tokens"
    BY StatementNames DEF CreateRefreshTokens
  <2>3. Migrations[13] = CreateRefreshTokens
    BY DEF Migrations
  <2> QED BY <2>1, <2>2, <2>3 DEF MakesNames
<1>14. MakesNames(14)
  <2>1. \A name : Home(name) = 14 => name \in {"device_tokens", "idx_device_tokens_user_platform_unique"}
    BY DEF Home, IndexNames, CheckNames
  <2>2. /\ Len(CreateDeviceTokens.up) = 2
        /\ CreateDeviceTokens.up[1].object.name = "device_tokens"
        /\ CreateDeviceTokens.up[2].object.name = "idx_device_tokens_user_platform_unique"
    BY StatementNames DEF CreateDeviceTokens
  <2>3. Migrations[14] = CreateDeviceTokens
    BY DEF Migrations
  <2> QED BY <2>1, <2>2, <2>3 DEF MakesNames
<1>19. MakesNames(19)
  <2>1. \A name : Home(name) = 19 => name \in {"service_type"}
    BY DEF Home, IndexNames, CheckNames
  <2>2. /\ Len(AddServiceTypeAndMotorcycle.up) = 3
        /\ AddServiceTypeAndMotorcycle.up[1].object.name = "service_type"
    BY StatementNames DEF AddServiceTypeAndMotorcycle
  <2>3. Migrations[19] = AddServiceTypeAndMotorcycle
    BY DEF Migrations
  <2> QED BY <2>1, <2>2, <2>3 DEF MakesNames
<1> QED BY <1>1, <1>2, <1>3, <1>4, <1>5, <1>6, <1>7, <1>8, <1>9, <1>10, <1>11, <1>12, <1>13, <1>14, <1>19 DEF Tabled

LEMMA TableOf ==
    \A name : Home(name) \in Tabled => \E o \in Core(Made(Home(name))) : o.name = name
<1> SUFFICES ASSUME NEW name, Home(name) \in Tabled
             PROVE  \E o \in Core(Made(Home(name))) : o.name = name
  OBVIOUS
<1>1. PICK f \in Tabled : f = Home(name)
  OBVIOUS
<1>2. f \in 1..21 /\ f # 21
  BY DEF Tabled
<1>3. PICK k \in 1..Len(Migrations[f].up) : Migrations[f].up[k].object.name = name
  BY <1>1, TablesAreMade DEF MakesNames
<1>4. PICK o : o = Migrations[f].up[k].object
  OBVIOUS
<1>5. o \in Made(f)
  BY <1>2, <1>4, MadeIs DEF DropsIndex
<1>6. o.name = name
  BY <1>3, <1>4
<1>7. name \notin EnumValues
  BY <1>2, <1>1, EnumHomes
<1> QED BY <1>1, <1>5, <1>6, <1>7 DEF Core

LEMMA MigrationLengths ==
    \A f \in 1..21 : Len(Migrations[f].up) \in Nat /\ Len(Migrations[f].down) \in Nat
BY MigrationScripts DEF IsMigration, AllUp, AllDown

-----------------------------------------------------------------------------
(* The way back *)

Drops(s) == s.op \in {"drop", "drop_if_exists"}

\* What a drop of name takes with it.
Goes(o, name) == name \in {o.name, o.of}

\* The index that file 21 takes away it puts back before the end of its way back.
RestoresIndex(f, k) == f = 21 /\ k = 2

\* A file's way back drops what the file makes, and nothing else, and what needs another of
\* its objects before that one.  A drop that is not IF EXISTS finds its object there.
DownFits(down, f) ==
    /\ \A k \in 1..Len(down) :
          IF RestoresIndex(f, k) THEN down[k] = AddUnique("ride_offers", OffersIndex)
          ELSE Drops(down[k]) /\ Home(down[k].object.name) = f
    /\ \A o \in Core(Made(f)) : \E k \in 1..Len(down) : Goes(o, down[k].object.name)
    /\ f = 17 => \A o \in Core(Made(f)) : \A k \in 1..Len(down) :
          down[k].object.name \in o.needs => \E j \in 1..(k - 1) : Goes(o, down[j].object.name)
    /\ \A k \in 1..Len(down) : down[k].op = "drop" =>
          \E o \in Core(Made(f)) :
             /\ o.name = down[k].object.name
             /\ \A j \in 1..(k - 1) : ~Goes(o, down[j].object.name)

LEMMA DropStatements ==
    /\ \A name : Drops(DropIfExists(name)) /\ DropIfExists(name).op = "drop_if_exists"
    /\ \A name : Drops(RemoveColumn(name)) /\ RemoveColumn(name).op = "drop"
BY DEF Drops, DropIfExists, RemoveColumn, Statement

\* The table that each statement makes or adds to.
LEMMA StatementTables ==
    \A table :
       /\ \A needs : Goes(CreateTable(table, needs).object, table)
       /\ \A index : /\ Goes(AddIndex(table, index).object, table)
                     /\ Goes(AddUnique(table, index).object, table)
BY DEF Goes, CreateTable, AddIndex, AddUnique, Statement, Object

AllOf(script, table) == \A k \in 1..Len(script) : Goes(script[k].object, table)

LEMMA TableGoes ==
    \A f \in 2..14 : \A table :
       Home(table) = f /\ AllOf(Migrations[f].up, table) => DownFits(<<DropIfExists(table)>>, f)
<1> SUFFICES ASSUME NEW f \in 2..14, NEW table, Home(table) = f, AllOf(Migrations[f].up, table)
             PROVE  DownFits(<<DropIfExists(table)>>, f)
  OBVIOUS
<1>1. ASSUME NEW o \in Core(Made(f)) PROVE Goes(o, table)
  <2>1. f \in 1..21 /\ o \in Made(f)
    BY DEF Core
  <2>2. PICK k \in 1..Len(Migrations[f].up) : o = Migrations[f].up[k].object
    BY <2>1, MadeIs
  <2> QED BY <2>2 DEF AllOf
<1>2. PICK s : s = DropIfExists(table)
  OBVIOUS
<1>3. s.object.name = table /\ Drops(s) /\ s.op = "drop_if_exists"
  BY <1>2, StatementNames, DropStatements
<1>4. DownFits(<<s>>, f)
  BY <1>1, <1>3 DEF DownFits, RestoresIndex
<1> QED BY <1>2, <1>4

LEMMA TableScripts ==
    \A t, n, i, j :
       /\ AllOf(<<CreateTable(t, n)>>, t)
       /\ AllOf(<<CreateTable(t, n), AddIndex(t, i)>>, t)
       /\ AllOf(<<CreateTable(t, n), AddUnique(t, i)>>, t)
       /\ AllOf(<<CreateTable(t, n), AddIndex(t, i), AddIndex(t, j)>>, t)
<1>1. \A t, a : Goes(a.object, t) => AllOf(<<a>>, t)
  BY DEF AllOf
<1>2. \A t, a, b : Goes(a.object, t) /\ Goes(b.object, t) => AllOf(<<a, b>>, t)
  BY DEF AllOf
<1>3. \A t, a, b, c :
         Goes(a.object, t) /\ Goes(b.object, t) /\ Goes(c.object, t) => AllOf(<<a, b, c>>, t)
  BY DEF AllOf
<1> QED BY <1>1, <1>2, <1>3, StatementTables

LEMMA CreateFilesGo == \A f \in 2..14 : DownFits(Migrations[f].down, f)
<1>2. ASSUME NEW f \in 2..14, f = 2 PROVE DownFits(Migrations[f].down, f)
  <2>1. Migrations[f] = CreateUsers
    BY <1>2 DEF Migrations
  <2>2. AllOf(CreateUsers.up, "users") /\ CreateUsers.down = <<DropIfExists("users")>>
    BY TableScripts DEF CreateUsers
  <2> QED BY <1>2, <2>1, <2>2, TableGoes, TableHomes
<1>3. ASSUME NEW f \in 2..14, f = 3 PROVE DownFits(Migrations[f].down, f)
  <2>1. Migrations[f] = CreateDriverProfiles
    BY <1>3 DEF Migrations
  <2>2. AllOf(CreateDriverProfiles.up, "driver_profiles") /\ CreateDriverProfiles.down = <<DropIfExists("driver_profiles")>>
    BY TableScripts DEF CreateDriverProfiles
  <2> QED BY <1>3, <2>1, <2>2, TableGoes, TableHomes
<1>4. ASSUME NEW f \in 2..14, f = 4 PROVE DownFits(Migrations[f].down, f)
  <2>1. Migrations[f] = CreateVehicles
    BY <1>4 DEF Migrations
  <2>2. AllOf(CreateVehicles.up, "vehicles") /\ CreateVehicles.down = <<DropIfExists("vehicles")>>
    BY TableScripts DEF CreateVehicles
  <2> QED BY <1>4, <2>1, <2>2, TableGoes, TableHomes
<1>5. ASSUME NEW f \in 2..14, f = 5 PROVE DownFits(Migrations[f].down, f)
  <2>1. Migrations[f] = CreateWallets
    BY <1>5 DEF Migrations
  <2>2. AllOf(CreateWallets.up, "wallets") /\ CreateWallets.down = <<DropIfExists("wallets")>>
    BY TableScripts DEF CreateWallets
  <2> QED BY <1>5, <2>1, <2>2, TableGoes, TableHomes
<1>6. ASSUME NEW f \in 2..14, f = 6 PROVE DownFits(Migrations[f].down, f)
  <2>1. Migrations[f] = CreateRides
    BY <1>6 DEF Migrations
  <2>2. AllOf(CreateRides.up, "rides") /\ CreateRides.down = <<DropIfExists("rides")>>
    BY TableScripts DEF CreateRides
  <2> QED BY <1>6, <2>1, <2>2, TableGoes, TableHomes
<1>7. ASSUME NEW f \in 2..14, f = 7 PROVE DownFits(Migrations[f].down, f)
  <2>1. Migrations[f] = CreateRideOffers
    BY <1>7 DEF Migrations
  <2>2. AllOf(CreateRideOffers.up, "ride_offers") /\ CreateRideOffers.down = <<DropIfExists("ride_offers")>>
    BY TableScripts DEF CreateRideOffers
  <2> QED BY <1>7, <2>1, <2>2, TableGoes, TableHomes
<1>8. ASSUME NEW f \in 2..14, f = 8 PROVE DownFits(Migrations[f].down, f)
  <2>1. Migrations[f] = CreateRideStops
    BY <1>8 DEF Migrations
  <2>2. AllOf(CreateRideStops.up, "ride_stops") /\ CreateRideStops.down = <<DropIfExists("ride_stops")>>
    BY TableScripts DEF CreateRideStops
  <2> QED BY <1>8, <2>1, <2>2, TableGoes, TableHomes
<1>9. ASSUME NEW f \in 2..14, f = 9 PROVE DownFits(Migrations[f].down, f)
  <2>1. Migrations[f] = CreateSharedRidePassengers
    BY <1>9 DEF Migrations
  <2>2. AllOf(CreateSharedRidePassengers.up, "shared_ride_passengers") /\ CreateSharedRidePassengers.down = <<DropIfExists("shared_ride_passengers")>>
    BY TableScripts DEF CreateSharedRidePassengers
  <2> QED BY <1>9, <2>1, <2>2, TableGoes, TableHomes
<1>10. ASSUME NEW f \in 2..14, f = 10 PROVE DownFits(Migrations[f].down, f)
  <2>1. Migrations[f] = CreateRatings
    BY <1>10 DEF Migrations
  <2>2. AllOf(CreateRatings.up, "ratings") /\ CreateRatings.down = <<DropIfExists("ratings")>>
    BY TableScripts DEF CreateRatings
  <2> QED BY <1>10, <2>1, <2>2, TableGoes, TableHomes
<1>11. ASSUME NEW f \in 2..14, f = 11 PROVE DownFits(Migrations[f].down, f)
  <2>1. Migrations[f] = CreateWalletTransactions
    BY <1>11 DEF Migrations
  <2>2. AllOf(CreateWalletTransactions.up, "wallet_transactions") /\ CreateWalletTransactions.down = <<DropIfExists("wallet_transactions")>>
    BY TableScripts DEF CreateWalletTransactions
  <2> QED BY <1>11, <2>1, <2>2, TableGoes, TableHomes
<1>12. ASSUME NEW f \in 2..14, f = 12 PROVE DownFits(Migrations[f].down, f)
  <2>1. Migrations[f] = CreateOtpCodes
    BY <1>12 DEF Migrations
  <2>2. AllOf(CreateOtpCodes.up, "otp_codes") /\ CreateOtpCodes.down = <<DropIfExists("otp_codes")>>
    BY TableScripts DEF CreateOtpCodes
  <2> QED BY <1>12, <2>1, <2>2, TableGoes, TableHomes
<1>13. ASSUME NEW f \in 2..14, f = 13 PROVE DownFits(Migrations[f].down, f)
  <2>1. Migrations[f] = CreateRefreshTokens
    BY <1>13 DEF Migrations
  <2>2. AllOf(CreateRefreshTokens.up, "refresh_tokens") /\ CreateRefreshTokens.down = <<DropIfExists("refresh_tokens")>>
    BY TableScripts DEF CreateRefreshTokens
  <2> QED BY <1>13, <2>1, <2>2, TableGoes, TableHomes
<1>14. ASSUME NEW f \in 2..14, f = 14 PROVE DownFits(Migrations[f].down, f)
  <2>1. Migrations[f] = CreateDeviceTokens
    BY <1>14 DEF Migrations
  <2>2. AllOf(CreateDeviceTokens.up, "device_tokens") /\ CreateDeviceTokens.down = <<DropIfExists("device_tokens")>>
    BY TableScripts DEF CreateDeviceTokens
  <2> QED BY <1>14, <2>1, <2>2, TableGoes, TableHomes
<1> QED BY <1>2, <1>3, <1>4, <1>5, <1>6, <1>7, <1>8, <1>9, <1>10, <1>11, <1>12, <1>13, <1>14

\* The way back drops one by one, from the end, what the way up made.
Mirrors(down, up, f) ==
    /\ Len(up) \in Nat /\ Len(down) = Len(up)
    /\ \A k \in 1..Len(up) : /\ Drops(down[k]) /\ down[k].op # "drop"
                             /\ down[k].object.name = up[Len(up) + 1 - k].object.name
                             /\ Home(up[k].object.name) = f

LEMMA MirrorsGo ==
    \A f \in {1, 15, 16} : \A down : Mirrors(down, Migrations[f].up, f) => DownFits(down, f)
<1> SUFFICES ASSUME NEW f \in {1, 15, 16}, NEW down, NEW up, up = Migrations[f].up,
                    Mirrors(down, up, f)
             PROVE  DownFits(down, f)
  OBVIOUS
<1>0. PICK n \in Nat : n = Len(up) /\ n = Len(down)
  BY DEF Mirrors
<1>m. \A k \in 1..n : /\ Drops(down[k]) /\ down[k].op # "drop"
                     /\ down[k].object.name = up[n + 1 - k].object.name
                     /\ Home(up[k].object.name) = f
  BY <1>0 DEF Mirrors
<1>f. f \in 1..21
  OBVIOUS
<1>1. ASSUME NEW o \in Core(Made(f)) PROVE \E k \in 1..n : Goes(o, down[k].object.name)
  <2>1. PICK k \in 1..n : o = up[k].object
    <3>1. \E k \in 1..Len(up) : o = up[k].object
      BY <1>f, MadeIs DEF Core
    <3> QED BY <1>0, <3>1
  <2>2. n + 1 - k \in 1..n /\ n + 1 - (n + 1 - k) = k
    OBVIOUS
  <2>3. down[n + 1 - k].object.name = o.name
    BY <1>m, <2>1, <2>2
  <2> QED BY <2>2, <2>3 DEF Goes
<1>2. ASSUME NEW k \in 1..n
      PROVE  Drops(down[k]) /\ down[k].op # "drop" /\ Home(down[k].object.name) = f
  <2>1. n + 1 - k \in 1..n
    OBVIOUS
  <2>2. /\ Drops(down[k]) /\ down[k].op # "drop"
        /\ down[k].object.name = up[n + 1 - k].object.name
    BY <1>m
  <2>3. Home(up[n + 1 - k].object.name) = f
    BY <1>m, <2>1
  <2> QED BY <2>2, <2>3
<1>3. f # 17 /\ f # 21
  OBVIOUS
<1> QED BY <1>0, <1>1, <1>2, <1>3 DEF DownFits, RestoresIndex

LEMMA MirroredFilesGo == \A f \in {1, 15, 16} : DownFits(Migrations[f].down, f)
<1>1. Mirrors(CreateEnumTypes.down, CreateEnumTypes.up, 1)
  <2>0. PICK up, down : up = CreateEnumTypes.up /\ down = CreateEnumTypes.down
    OBVIOUS
  <2>1. Len(up) = 9 /\ Len(down) = 9
    BY <2>0, EachScripts
  <2>2. \A k \in 1..9 : /\ up[k].object.name = EnumTypes[k]
                        /\ down[k].object.name = EnumTypes[10 - k]
                        /\ Drops(down[k]) /\ down[k].op = "drop_if_exists"
                        /\ Home(EnumTypes[k]) = 1
    BY <2>0, EachScripts, StatementNames, DropStatements, TypeHomes
  <2>3. \A k \in 1..9 : /\ down[k].object.name = up[9 + 1 - k].object.name
                        /\ Home(up[k].object.name) = 1
                        /\ Drops(down[k]) /\ down[k].op # "drop"
    BY <2>2
  <2>4. Mirrors(down, up, 1)
    BY <2>1, <2>3 DEF Mirrors
  <2> QED BY <2>0, <2>4
<1>2. Mirrors(AddIndexes.down, AddIndexes.up, 15)
  <2>0. PICK up, down : up = AddIndexes.up /\ down = AddIndexes.down
    OBVIOUS
  <2>1. Len(up) = 14 /\ Len(down) = 14
    BY <2>0, EachScripts
  <2>2. ASSUME NEW k \in 1..14
        PROVE  /\ up[k].object.name = Indexes[k][2]
               /\ down[k].object.name = Indexes[15 - k][2]
               /\ Drops(down[k]) /\ down[k].op = "drop_if_exists"
               /\ Home(Indexes[k][2]) = 15
    <3>1. up[k] = AddIndex(Indexes[k][1], Indexes[k][2])
      BY <2>0, EachScripts
    <3>2. down[k] = DropIfExists(Indexes[15 - k][2])
      BY <2>0, EachScripts
    <3> QED BY <3>1, <3>2, StatementNames, DropStatements, IndexHomes
  <2>3. \A k \in 1..14 : /\ down[k].object.name = up[14 + 1 - k].object.name
                        /\ Home(up[k].object.name) = 15
                        /\ Drops(down[k]) /\ down[k].op # "drop"
    BY <2>2
  <2>4. Mirrors(down, up, 15)
    BY <2>1, <2>3 DEF Mirrors
  <2> QED BY <2>0, <2>4
<1>3. Mirrors(AddCheckConstraints.down, AddCheckConstraints.up, 16)
  <2>0. PICK up, down : up = AddCheckConstraints.up /\ down = AddCheckConstraints.down
    OBVIOUS
  <2>1. Len(up) = 4 /\ Len(down) = 4
    BY <2>0, EachScripts
  <2>2. \A k \in 1..4 : /\ up[k].object.name = Checks[k][2]
                        /\ down[k].object.name = Checks[5 - k][2]
                        /\ Drops(down[k]) /\ down[k].op = "drop_if_exists"
                        /\ Home(Checks[k][2]) = 16
    BY <2>0, EachScripts, StatementNames, DropStatements, IndexHomes
  <2>3. \A k \in 1..4 : /\ down[k].object.name = up[4 + 1 - k].object.name
                        /\ Home(up[k].object.name) = 16
                        /\ Drops(down[k]) /\ down[k].op # "drop"
    BY <2>2
  <2>4. Mirrors(down, up, 16)
    BY <2>1, <2>3 DEF Mirrors
  <2> QED BY <2>0, <2>4
<1>4. /\ Migrations[1] = CreateEnumTypes /\ Migrations[15] = AddIndexes
      /\ Migrations[16] = AddCheckConstraints
  BY DEF Migrations
<1> QED BY <1>1, <1>2, <1>3, <1>4, MirrorsGo

LEMMA NotificationsGo == DownFits(CreateNotifications.down, 17)
<1>0. PICK down : down = CreateNotifications.down
  OBVIOUS
<1>1. /\ Len(down) = 2 /\ down[1] = DropIfExists("notifications")
      /\ down[2] = DropIfExists("notification_type")
  BY <1>0 DEF CreateNotifications
<1>2. /\ down[1].object.name = "notifications" /\ down[2].object.name = "notification_type"
      /\ Drops(down[1]) /\ Drops(down[2]) /\ down[1].op # "drop" /\ down[2].op # "drop"
  BY <1>1, StatementNames, DropStatements
<1>3. ASSUME NEW o \in Core(Made(17))
      PROVE  /\ \/ Goes(o, "notifications")
                \/ Goes(o, "notification_type") /\ o.needs = {}
             /\ "notifications" \notin o.needs
  <2>0. PICK up : up = CreateNotifications.up
    OBVIOUS
  <2>1. /\ Len(up) = 4
        /\ up[1] = CreateType("notification_type")
        /\ up[2] = CreateTable("notifications", {"users", "notification_type"})
        /\ \E i, j : up[3] = AddIndex("notifications", i) /\ up[4] = AddIndex("notifications", j)
    BY <2>0 DEF CreateNotifications
  <2>2. PICK k \in 1..4 : o = up[k].object
    <3>1. Migrations[17] = CreateNotifications
      BY DEF Migrations
    <3> QED BY <2>0, <2>1, <3>1, MadeIs DEF Core
  <2>3. /\ CreateType("notification_type").object.name = "notification_type"
        /\ CreateType("notification_type").object.needs = {}
    BY DEF CreateType, Statement, Object
  <2>4. CreateTable("notifications", {"users", "notification_type"}).object.needs = {"users", "notification_type"}
    BY DEF CreateTable, Statement, Object
  <2>5. \A i : AddIndex("notifications", i).object.needs = {}
    BY DEF AddIndex, Statement, Object
  <2>6. CASE k = 1
    BY <2>1, <2>2, <2>3, <2>6 DEF Goes
  <2>7. CASE k = 2
    <3>1. o = CreateTable("notifications", {"users", "notification_type"}).object
      BY <2>1, <2>2, <2>7
    <3>2. "notifications" \notin o.needs
      BY <2>4, <3>1
    <3>3. Goes(o, "notifications")
      BY <3>1, StatementTables
    <3> QED BY <3>2, <3>3
  <2>8. CASE k = 3 \/ k = 4
    <3>1. PICK i : o = AddIndex("notifications", i).object
      BY <2>1, <2>2, <2>8
    <3> QED BY <2>5, <3>1, StatementTables
  <2>9. k = 1 \/ k = 2 \/ k = 3 \/ k = 4
    OBVIOUS
  <2> QED BY <2>6, <2>7, <2>8, <2>9
<1>4. Home("notifications") = 17 /\ Home("notification_type") = 17
  BY TableHomes, TypeHomes
<1>5. \A k \in 1..2 : k = 1 \/ k = 2
  OBVIOUS
<1>6. "notifications" # "notification_type"
  OBVIOUS
<1>7. \A k \in 1..2 : /\ Drops(down[k]) /\ down[k].op # "drop" /\ Home(down[k].object.name) = 17
                      /\ ~RestoresIndex(17, k)
  BY <1>2, <1>4, <1>5 DEF RestoresIndex
<1>8. \A o \in Core(Made(17)) : \E k \in 1..2 : Goes(o, down[k].object.name)
  BY <1>2, <1>3
<1>9. ASSUME NEW o \in Core(Made(17)), NEW k \in 1..2, down[k].object.name \in o.needs
      PROVE  \E j \in 1..(k - 1) : Goes(o, down[j].object.name)
  <2>1. Goes(o, "notifications")
    BY <1>3, <1>9
  <2>2. k = 2
    <3> SUFFICES ASSUME k = 1 PROVE FALSE
      BY <1>5
    <3>1. "notifications" \in o.needs
      BY <1>2, <1>9
    <3> QED BY <1>3, <3>1
  <2> QED BY <1>2, <2>1, <2>2
<1>10. DownFits(down, 17)
  BY <1>1, <1>7, <1>8, <1>9 DEF DownFits
<1> QED BY <1>0, <1>10

LEMMA NearbyIndexGoes == DownFits(AddDriverLocationIndex.down, 18)
<1>0. PICK down : down = AddDriverLocationIndex.down
  OBVIOUS
<1>1. Len(down) = 1 /\ down[1] = DropIfExists("idx_driver_profiles_nearby")
  BY <1>0 DEF AddDriverLocationIndex
<1>2. /\ down[1].object.name = "idx_driver_profiles_nearby"
      /\ Drops(down[1]) /\ down[1].op # "drop"
  BY <1>1, StatementNames, DropStatements
<1>3. ASSUME NEW o \in Core(Made(18)) PROVE o.name = "idx_driver_profiles_nearby"
  <2>1. Migrations[18] = AddDriverLocationIndex /\ Len(AddDriverLocationIndex.up) = 1
    BY DEF Migrations, AddDriverLocationIndex
  <2>2. o = AddDriverLocationIndex.up[1].object
    BY <2>1, MadeIs DEF Core
  <2> QED BY <2>2, StatementNames DEF AddDriverLocationIndex
<1>4. DownFits(down, 18)
  BY <1>1, <1>2, <1>3, IndexHomes DEF DownFits, RestoresIndex, Goes
<1> QED BY <1>0, <1>4

LEMMA ServiceTypeGoes == DownFits(AddServiceTypeAndMotorcycle.down, 19)
<1>0. PICK down : down = AddServiceTypeAndMotorcycle.down
  OBVIOUS
<1>1. Len(down) = 1 /\ down[1] = DropIfExists("service_type")
  BY <1>0 DEF AddServiceTypeAndMotorcycle
<1>2. down[1].object.name = "service_type" /\ Drops(down[1]) /\ down[1].op # "drop"
  BY <1>1, StatementNames, DropStatements
<1>3. ASSUME NEW o \in Core(Made(19)) PROVE o.name = "service_type"
  <2>0. PICK up : up = AddServiceTypeAndMotorcycle.up
    OBVIOUS
  <2>1. /\ Len(up) = 3 /\ up[1].object.name = "service_type"
        /\ up[2].object.name = "motorcycle" /\ up[3].object.name = "offer_expired"
    BY <2>0, StatementNames DEF AddServiceTypeAndMotorcycle
  <2>2. Migrations[19] = AddServiceTypeAndMotorcycle
    BY DEF Migrations
  <2>3. PICK k \in 1..3 : o = up[k].object
    BY <2>0, <2>1, <2>2, MadeIs DEF Core
  <2>4. o.name \notin {"motorcycle", "offer_expired"}
    BY DEF Core, EnumValues
  <2>5. k = 1 \/ k = 2 \/ k = 3
    OBVIOUS
  <2> QED BY <2>1, <2>3, <2>4, <2>5
<1>4. DownFits(down, 19)
  BY <1>1, <1>2, <1>3, TypeHomes DEF DownFits, RestoresIndex, Goes
<1> QED BY <1>0, <1>4

\* The columns go one by one, and each is still there then.
LEMMA ColumnsGo == DownFits(AddRideColumnsAndOfferExpires.down, 20)
<1>0. PICK up, down : /\ up = AddRideColumnsAndOfferExpires.up
                      /\ down = AddRideColumnsAndOfferExpires.down
  OBVIOUS
<1>1. /\ Len(down) = 3 /\ down[1].object.name = "expires_at"
      /\ down[2].object.name = "hide_estimate" /\ down[3].object.name = "rides.service_type"
      /\ Drops(down[1]) /\ Drops(down[2]) /\ Drops(down[3])
  BY <1>0, StatementNames, DropStatements DEF AddRideColumnsAndOfferExpires
<1>2. /\ Len(up) = 3 /\ up[1].object.name = "rides.service_type" /\ up[1].object.of = "rides"
      /\ up[2].object.name = "hide_estimate" /\ up[2].object.of = "rides"
      /\ up[3].object.name = "expires_at" /\ up[3].object.of = "ride_offers"
  BY <1>0 DEF AddRideColumnsAndOfferExpires, AddColumn, Statement, Object
<1>3. Migrations[20] = AddRideColumnsAndOfferExpires
  BY DEF Migrations
<1>4. \A k \in 1..3 : k = 1 \/ k = 2 \/ k = 3
  OBVIOUS
<1>5. \A o \in Core(Made(20)) : \E k \in 1..3 : o = up[k].object
  BY <1>0, <1>2, <1>3, MadeIs DEF Core
<1>6. \A k \in 1..3 : up[k].object \in Core(Made(20))
  <2>1. \A k \in 1..3 : up[k].object \in Made(20)
    BY <1>0, <1>2, <1>3, MadeIs DEF DropsIndex
  <2>2. \A k \in 1..3 : up[k].object.name \notin EnumValues
    BY <1>2, <1>4 DEF EnumValues
  <2> QED BY <2>1, <2>2 DEF Core
<1>7. \A k \in 1..3 : Drops(down[k]) /\ Home(down[k].object.name) = 20 /\ ~RestoresIndex(20, k)
  BY <1>1, <1>4, IndexHomes DEF RestoresIndex
<1>8. \A o \in Core(Made(20)) : \E k \in 1..3 : Goes(o, down[k].object.name)
  <2> SUFFICES ASSUME NEW i \in 1..3 PROVE \E k \in 1..3 : Goes(up[i].object, down[k].object.name)
    BY <1>5
  <2> QED BY <1>1, <1>2, <1>4 DEF Goes
<1>9. ASSUME NEW k \in 1..3
      PROVE  \E o \in Core(Made(20)) :
                /\ o.name = down[k].object.name
                /\ \A j \in 1..(k - 1) : ~Goes(o, down[j].object.name)
  <2>1. 4 - k \in 1..3 /\ up[4 - k].object.name = down[k].object.name
    BY <1>1, <1>2, <1>4
  <2>2. ASSUME NEW j \in 1..(k - 1) PROVE ~Goes(up[4 - k].object, down[j].object.name)
    <3>1. (k = 2 /\ j = 1) \/ (k = 3 /\ j = 1) \/ (k = 3 /\ j = 2)
      BY <1>4
    <3> QED BY <1>1, <1>2, <3>1 DEF Goes
  <2> QED BY <1>6, <2>1, <2>2
<1>10. DownFits(down, 20)
  BY <1>1, <1>7, <1>8, <1>9 DEF DownFits
<1> QED BY <1>0, <1>10

LEMMA LastFileGoes == DownFits(CreateDriverServiceTypesAndPartialIndex.down, 21)
<1>0. PICK up, down : /\ up = CreateDriverServiceTypesAndPartialIndex.up
                      /\ down = CreateDriverServiceTypesAndPartialIndex.down
  OBVIOUS
<1>1. /\ Len(down) = 3
      /\ down[1] = DropIfExists("idx_ride_offers_ride_driver_pending")
      /\ down[2] = AddUnique("ride_offers", OffersIndex)
      /\ down[3] = DropIfExists("driver_service_types")
  BY <1>0 DEF CreateDriverServiceTypesAndPartialIndex, OffersIndex
<1>2. /\ down[1].object.name = "idx_ride_offers_ride_driver_pending"
      /\ down[3].object.name = "driver_service_types"
      /\ Drops(down[1]) /\ down[1].op # "drop" /\ Drops(down[3]) /\ down[3].op # "drop"
  BY <1>1, StatementNames, DropStatements
<1>3. down[2].op # "drop"
  BY <1>1 DEF AddUnique, Statement
<1>4. ASSUME NEW o \in Core(Made(21))
      PROVE  Goes(o, "driver_service_types") \/ Goes(o, "idx_ride_offers_ride_driver_pending")
  <2>1. /\ Len(up) = 4
        /\ \E needs, i : /\ up[1] = CreateTable("driver_service_types", needs)
                         /\ up[2] = AddIndex("driver_service_types", i)
        /\ up[4].object.name = "idx_ride_offers_ride_driver_pending"
    BY <1>0, StatementNames DEF CreateDriverServiceTypesAndPartialIndex
  <2>2. Migrations[21] = CreateDriverServiceTypesAndPartialIndex
    BY DEF Migrations
  <2>3. PICK k \in 1..4 : k # 3 /\ o = up[k].object
    BY <1>0, <2>1, <2>2, MadeIs DEF Core, DropsIndex
  <2>4. k = 1 \/ k = 2 \/ k = 4
    BY <2>3
  <2>5. Goes(up[1].object, "driver_service_types") /\ Goes(up[2].object, "driver_service_types")
    BY <2>1, StatementTables
  <2> QED BY <2>1, <2>3, <2>4, <2>5 DEF Goes
<1>5. \A k \in 1..3 : k = 1 \/ k = 2 \/ k = 3
  OBVIOUS
<1>6. \A k \in 1..3 : /\ IF RestoresIndex(21, k) THEN down[k] = AddUnique("ride_offers", OffersIndex)
                         ELSE Drops(down[k]) /\ Home(down[k].object.name) = 21
                      /\ down[k].op # "drop"
  BY <1>1, <1>2, <1>3, <1>5, TableHomes, IndexHomes DEF RestoresIndex
<1>7. \A o \in Core(Made(21)) : \E k \in 1..3 : Goes(o, down[k].object.name)
  BY <1>2, <1>4
<1>8. DownFits(down, 21)
  BY <1>1, <1>6, <1>7 DEF DownFits
<1> QED BY <1>0, <1>8

LEMMA FilesGo == \A f \in 1..21 : DownFits(Migrations[f].down, f)
<1>1. \A f \in 1..21 : f \in {1, 15, 16} \/ f \in 2..14 \/ f \in {17, 18, 19, 20, 21}
  OBVIOUS
<1>2. /\ Migrations[17] = CreateNotifications /\ Migrations[18] = AddDriverLocationIndex
      /\ Migrations[19] = AddServiceTypeAndMotorcycle
      /\ Migrations[20] = AddRideColumnsAndOfferExpires
      /\ Migrations[21] = CreateDriverServiceTypesAndPartialIndex
  BY DEF Migrations
<1>3. \A f \in {17, 18, 19, 20, 21} : DownFits(Migrations[f].down, f)
  BY <1>2, NotificationsGo, NearbyIndexGoes, ServiceTypeGoes, ColumnsGo, LastFileGoes
<1> QED BY <1>1, <1>3, MirroredFilesGo, CreateFilesGo

-----------------------------------------------------------------------------
(* The schema in the middle of a file *)

Objects == UNION {Made(f) : f \in 1..21}

\* The objects, enum values aside, once migrations 1..n are applied.
Base(n) == {o \in Core(Objects) : Home(o.name) <= n /\ (n = 21 => o.name # OffersIndex)}

\* On the way up through file f, before its k-th statement.
UpState(f, k) ==
    {o \in Core(Objects) :
        /\ \/ Home(o.name) < f
           \/ \E j \in 1..Len(Migrations[f].up) : j < k /\ o = Migrations[f].up[j].object
        /\ ~(f = 21 /\ k > 3 /\ o.name = OffersIndex)}

\* On the way back, before the k-th statement of that.
DownState(f, k) ==
    {o \in Core(Objects) :
        \/ /\ o \in Base(f)
           /\ \A j \in 1..Len(Migrations[f].down) :
                 j < k => ~Goes(o, Migrations[f].down[j].object.name)
        \/ f = 21 /\ k > 2 /\ o.name = OffersIndex}

LEMMA Homes ==
    \A o \in Core(Objects) : Home(o.name) \in 1..21 /\ o \in Core(Made(Home(o.name)))
<1> SUFFICES ASSUME NEW o \in Core(Objects)
             PROVE  Home(o.name) \in 1..21 /\ o \in Core(Made(Home(o.name)))
  OBVIOUS
<1>1. PICK f \in 1..21 : o \in Core(Made(f))
  BY DEF Core, Objects
<1>2. Home(o.name) = f
  BY <1>1, MadeAtHome
<1> QED BY <1>1, <1>2

LEMMA HomesAreMade == \A f \in 1..21 : \A o \in Core(Made(f)) : o \in Core(Objects) /\ Home(o.name) = f
BY MadeAtHome DEF Core, Objects

LEMMA OffersIndexHome == Home(OffersIndex) = 7 /\ OffersIndex \notin EnumValues
BY IndexHomes DEF OffersIndex, EnumValues

LEMMA UpStarts == \A f \in 1..21 : UpState(f, 1) = Base(f - 1)
<1> SUFFICES ASSUME NEW f \in 1..21, NEW o \in Core(Objects)
             PROVE  o \in UpState(f, 1) <=> o \in Base(f - 1)
  BY DEF UpState, Base
<1>1. Home(o.name) \in 1..21
  BY Homes
<1>2. o \in UpState(f, 1) <=> Home(o.name) < f
  BY DEF UpState
<1>3. o \in Base(f - 1) <=> Home(o.name) <= f - 1
  BY DEF Base
<1> QED BY <1>1, <1>2, <1>3

LEMMA UpEnds == \A f \in 1..21 : UpState(f, Len(Migrations[f].up) + 1) = Base(f)
<1> SUFFICES ASSUME NEW f \in 1..21, NEW o \in Core(Objects), NEW n \in Nat,
                    n = Len(Migrations[f].up)
             PROVE  o \in UpState(f, n + 1) <=> o \in Base(f)
  <2>1. \A f \in 1..21 : Len(Migrations[f].up) \in Nat
    BY MigrationLengths
  <2> QED BY <2>1 DEF UpState, Base
<1>1. Home(o.name) \in 1..21 /\ o \in Core(Made(Home(o.name)))
  BY Homes
<1>2. ASSUME Home(o.name) = f PROVE \E j \in 1..n : o = Migrations[f].up[j].object
  <2>1. o \in Made(f)
    BY <1>1, <1>2 DEF Core
  <2>2. \E j \in 1..Len(Migrations[f].up) : o = Migrations[f].up[j].object
    BY <2>1, MadeIs
  <2> QED BY <2>2
<1>3. ASSUME NEW j \in 1..n, o = Migrations[f].up[j].object, o.name # OffersIndex \/ f # 21
      PROVE  Home(o.name) = f
  <2>1. CASE DropsIndex(f, j)
    <3>1. Migrations[f].up[j] = DropIfExists(OffersIndex)
      BY <1>3, <2>1, FilesFit DEF UpFits
    <3> QED BY <1>3, <2>1, <3>1, StatementNames DEF DropsIndex
  <2>2. CASE ~DropsIndex(f, j)
    <3>1. o \in Core(Made(f))
      BY <1>3, <2>2, MadeIs DEF Core
    <3> QED BY <3>1, MadeAtHome
  <2> QED BY <2>1, <2>2
<1>4. f = 21 => n = 4
  BY DEF Migrations, CreateDriverServiceTypesAndPartialIndex
<1>5. o \in UpState(f, n + 1)
      <=> /\ Home(o.name) < f \/ \E j \in 1..n : o = Migrations[f].up[j].object
          /\ ~(f = 21 /\ o.name = OffersIndex)
  <2>1. (\E j \in 1..Len(Migrations[f].up) : j < n + 1 /\ o = Migrations[f].up[j].object)
        <=> \E j \in 1..n : o = Migrations[f].up[j].object
    OBVIOUS
  <2>2. f = 21 => n + 1 > 3
    <3> SUFFICES ASSUME f = 21 PROVE n + 1 > 3
      OBVIOUS
    <3>1. n = 4 /\ \A m \in Nat : m = 4 => m + 1 > 3
      BY <1>4
    <3> QED BY <3>1
  <2> QED BY <2>1, <2>2 DEF UpState
<1>6. o \in Base(f) <=> Home(o.name) <= f /\ ~(f = 21 /\ o.name = OffersIndex)
  BY DEF Base
<1>7. (Home(o.name) <= f) <=> (Home(o.name) < f \/ Home(o.name) = f)
  BY <1>1
<1>8. CASE f = 21 /\ o.name = OffersIndex
  BY <1>5, <1>6, <1>8
<1>9. CASE ~(f = 21 /\ o.name = OffersIndex)
  BY <1>2, <1>3, <1>5, <1>6, <1>7, <1>9
<1> QED BY <1>8, <1>9

LEMMA DownStarts == \A f \in 1..21 : DownState(f, 1) = Base(f)
BY DEF DownState, Base

LEMMA DownEnds == \A f \in 1..21 : DownState(f, Len(Migrations[f].down) + 1) = Base(f - 1)
<1> SUFFICES ASSUME NEW f \in 1..21, NEW o \in Core(Objects), NEW n \in Nat,
                    n = Len(Migrations[f].down)
             PROVE  o \in DownState(f, n + 1) <=> o \in Base(f - 1)
  <2>1. \A f \in 1..21 : Len(Migrations[f].down) \in Nat
    BY MigrationLengths
  <2> QED BY <2>1 DEF DownState, Base
<1> DEFINE down == Migrations[f].down
<1>1. Home(o.name) \in 1..21 /\ o \in Core(Made(Home(o.name)))
  BY Homes
<1>2. Home(o.name) = f => \E j \in 1..n : Goes(o, down[j].object.name)
  BY <1>1, FilesGo DEF DownFits
<1>3. ASSUME Home(o.name) < f, o.name # OffersIndex \/ f # 21, NEW j \in 1..n
      PROVE  ~Goes(o, down[j].object.name)
  <2>1. CASE RestoresIndex(f, j)
    <3>1. down[j].object.name = OffersIndex
      <4>1. down[j] = AddUnique("ride_offers", OffersIndex)
        BY <2>1, FilesGo DEF DownFits
      <4> QED BY <4>1, StatementNames
    <3>2. o.of # OffersIndex
      BY <1>1, MadeAtHome DEF Needed, OffersIndex
    <3> QED BY <1>3, <2>1, <3>1, <3>2 DEF Goes, RestoresIndex
  <2>2. CASE ~RestoresIndex(f, j)
    <3>1. Home(down[j].object.name) = f
      BY <2>2, FilesGo DEF DownFits
    <3>2. o.of = "" \/ Home(o.of) < f
      <4>1. o.of # "" => o.of \in Needed(o)
        BY DEF Needed
      <4>2. PICK h \in 1..21 : h = Home(o.name)
        BY <1>1
      <4>3. \A name \in Needed(o) : Home(name) <= h
        BY <1>1, <4>2, MadeAtHome
      <4>4. PICK i \in 1..22 : i = Home(o.of)
        BY HomesAreFiles
      <4>5. o.of # "" => i <= h
        BY <4>1, <4>3, <4>4
      <4>6. h < f
        BY <1>3, <4>2
      <4>7. \A m \in 1..22 : m <= h /\ h < f => m < f
        OBVIOUS
      <4> QED BY <4>4, <4>5, <4>6, <4>7
    <3>3. Home("") = 22
      BY DEF Home, IndexNames, CheckNames
    <3>4. f # 22
      OBVIOUS
    <3>5. ASSUME Goes(o, down[j].object.name) PROVE FALSE
      <4> SUFFICES ASSUME NEW name, name = down[j].object.name, name = o.name \/ name = o.of
                   PROVE  FALSE
        BY <3>5 DEF Goes
      <4> HIDE DEF down
      <4>1. Home(name) = f
        BY <3>1
      <4>2. name # ""
        BY <3>3, <3>4, <4>1
      <4>3. name # o.name
        <5> SUFFICES ASSUME name = o.name PROVE FALSE
          OBVIOUS
        <5>1. Home(o.name) = f
          BY <4>1
        <5> QED BY <1>1, <1>3, <5>1
      <4>4. Home(o.of) = f
        BY <4>1, <4>3
      <4>5. o.of # ""
        BY <4>2, <4>3
      <4>6. Home(o.of) < f
        BY <3>2, <4>5
      <4>7. PICK i \in 1..22 : i = Home(o.of)
        BY HomesAreFiles
      <4>8. i < f /\ i = f
        BY <4>4, <4>6, <4>7
      <4> QED BY <4>8
    <3> QED BY <3>5
  <2> QED BY <2>1, <2>2
<1>4. f = 21 => n = 3
  BY DEF Migrations, CreateDriverServiceTypesAndPartialIndex
<1>5. o \in DownState(f, n + 1)
      <=> \/ o \in Base(f) /\ \A j \in 1..n : ~Goes(o, down[j].object.name)
          \/ f = 21 /\ o.name = OffersIndex
  <2>1. (\A j \in 1..Len(Migrations[f].down) : j < n + 1 => ~Goes(o, down[j].object.name))
        <=> \A j \in 1..n : ~Goes(o, down[j].object.name)
    OBVIOUS
  <2>2. f = 21 => n + 1 > 2
    <3> SUFFICES ASSUME f = 21 PROVE n + 1 > 2
      OBVIOUS
    <3>1. n = 3 /\ \A m \in Nat : m = 3 => m + 1 > 2
      BY <1>4
    <3> QED BY <3>1
  <2> QED BY <2>1, <2>2 DEF DownState
<1>6. o \in Base(f) <=> (Home(o.name) <= f /\ ~(f = 21 /\ o.name = OffersIndex))
  BY DEF Base
<1>7. o \in Base(f - 1) <=> (Home(o.name) < f)
  BY <1>1 DEF Base
<1>8. CASE Home(o.name) < f /\ (o.name # OffersIndex \/ f # 21)
  <2>1. \A j \in 1..n : ~Goes(o, down[j].object.name)
    BY <1>3, <1>8
  <2>2. (Home(o.name) <= f) /\ ~(f = 21 /\ o.name = OffersIndex)
    BY <1>1, <1>8
  <2>3. o \in Base(f) /\ o \in Base(f - 1)
    BY <1>6, <1>7, <1>8, <2>2
  <2> QED BY <1>5, <2>1, <2>3
<1>9. CASE Home(o.name) = f
  <2>1. ~(f = 21 /\ o.name = OffersIndex)
    BY <1>9, OffersIndexHome
  <2>2. ~\A j \in 1..n : ~Goes(o, down[j].object.name)
    BY <1>2, <1>9
  <2> QED BY <1>1, <1>5, <1>7, <1>9, <2>1, <2>2
<1>10. CASE Home(o.name) > f
  <2>1. ~(Home(o.name) <= f) /\ ~(Home(o.name) < f)
    BY <1>1, <1>10
  <2>2. ~(f = 21 /\ o.name = OffersIndex)
    BY <1>10, OffersIndexHome
  <2> QED BY <1>5, <1>6, <1>7, <2>1, <2>2
<1>11. CASE f = 21 /\ o.name = OffersIndex
  BY <1>5, <1>7, <1>11, OffersIndexHome
<1> QED BY <1>1, <1>8, <1>9, <1>10, <1>11

-----------------------------------------------------------------------------
(* The inductive invariant *)

\* The rows there are before a seeder.
SeedRows(f) ==
    CASE f = 1 -> {}
      [] f = 2 -> {"users"}
      [] f = 3 -> {"users", "driver_profiles", "vehicles"}
      [] OTHER -> {"users", "driver_profiles", "vehicles", "wallets"}

\* Where in its files a command c is after a migrations recorded, and what the schema has of
\* the objects by then.
InPlace(c, a, r, objects) ==
    /\ c.kind = "none" => objects = Base(a)
    /\ c.kind = "migrate" =>
          /\ c.file = a + 1
          /\ c.step <= Len(Migrations[c.file].up) + 1
          /\ objects = UpState(c.file, c.step)
    /\ c.kind \in {"undo", "undo_all"} =>
          /\ c.file = a
          /\ c.step <= Len(Migrations[c.file].down) + 1
          /\ objects = DownState(c.file, c.step)
    /\ c.kind \in {"seed", "seed_undo"} => a = 21 /\ objects = Base(21)
    /\ c.kind = "seed" =>
          /\ c.step <= Len(Seeders[c.file].up) + 1
          /\ r = SeedRows(c.file) \cup Earlier(Seeders[c.file].up, c.step)

EnumsPlain(objects) == \A o \in objects : o.name \in EnumValues => o.needs = {}

Failures == EnumValues \cup {OffersIndex}

Placed == InPlace(command, applied, rows, Core(schema)) /\ EnumsPlain(schema)

RevInv ==
    commandDeaths = 0 =>
        /\ failedAt \in Failures \cup {"none"}
        /\ failedAt = "none" => Placed

-----------------------------------------------------------------------------
(* A statement on the way up *)

LEMMA Adding ==
    \A s : Adds(s) /\ s.object.name \notin Names(schema) => After(s) = schema \cup {s.object}
BY DEF Adds, After

LEMMA Dropping ==
    \A s : Drops(s) => After(s) = {o \in schema : ~Goes(o, s.object.name)}
BY DEF Drops, After, Goes

\* A file's statement that adds an object of its own.
LEMMA UpAdds ==
    \A f \in 1..21 : \A k \in 1..Len(Migrations[f].up) :
       ~DropsIndex(f, k) =>
          /\ Adds(Migrations[f].up[k])
          /\ Fits(Migrations[f].up[k], f, Earlier(Migrations[f].up, k))
          /\ Migrations[f].up[k].object.name \notin EnumValues
             => /\ Migrations[f].up[k].object \in Core(Made(f))
                /\ Migrations[f].up[k].object \in Core(Objects)
                /\ Home(Migrations[f].up[k].object.name) = f
<1> SUFFICES ASSUME NEW f \in 1..21, NEW k \in 1..Len(Migrations[f].up), ~DropsIndex(f, k),
                    NEW s, s = Migrations[f].up[k]
             PROVE  /\ Adds(s) /\ Fits(s, f, Earlier(Migrations[f].up, k))
                    /\ s.object.name \notin EnumValues
                       => /\ s.object \in Core(Made(f)) /\ s.object \in Core(Objects)
                          /\ Home(s.object.name) = f
  OBVIOUS
<1>1. Fits(s, f, Earlier(Migrations[f].up, k))
  BY FilesFit DEF UpFits
<1>2. s.object \in Made(f)
  BY MadeIs
<1>3. s.object.name \notin EnumValues => s.object \in Core(Made(f))
  BY <1>2 DEF Core
<1> QED BY <1>1, <1>3, HomesAreMade DEF Fits

\* Its name is not there yet.
LEMMA UpFresh ==
    \A f \in 1..21 : \A k \in 1..Len(Migrations[f].up) : \A o \in UpState(f, k) :
       ~DropsIndex(f, k) /\ Migrations[f].up[k].object.name \notin EnumValues
       => o.name # Migrations[f].up[k].object.name
<1> SUFFICES ASSUME NEW f \in 1..21, NEW k \in 1..Len(Migrations[f].up), NEW o \in UpState(f, k),
                    ~DropsIndex(f, k), NEW s, s = Migrations[f].up[k],
                    s.object.name \notin EnumValues, o.name = s.object.name
             PROVE  FALSE
  OBVIOUS
<1>1. Home(s.object.name) = f /\ s.object.name \notin Earlier(Migrations[f].up, k)
  BY UpAdds DEF Fits
<1>2. ~(Home(o.name) < f)
  BY <1>1
<1>3. PICK j \in 1..Len(Migrations[f].up) : j < k /\ o = Migrations[f].up[j].object
  BY <1>2 DEF UpState
<1>4. j \in 1..(k - 1)
  BY <1>3
<1>5. o.name \in Earlier(Migrations[f].up, k)
  BY <1>3, <1>4 DEF Earlier
<1> QED BY <1>1, <1>5

LEMMA UpStateAdds ==
    \A f \in 1..21 : \A k \in 1..Len(Migrations[f].up) :
       ~DropsIndex(f, k) =>
          UpState(f, k + 1) =
             IF Migrations[f].up[k].object.name \in EnumValues THEN UpState(f, k)
             ELSE UpState(f, k) \cup {Migrations[f].up[k].object}
<1> SUFFICES ASSUME NEW f \in 1..21, NEW k \in 1..Len(Migrations[f].up), ~DropsIndex(f, k)
             PROVE  UpState(f, k + 1) =
                       IF Migrations[f].up[k].object.name \in EnumValues THEN UpState(f, k)
                       ELSE UpState(f, k) \cup {Migrations[f].up[k].object}
  OBVIOUS
<1>n. PICK n \in Nat : n = Len(Migrations[f].up)
  BY MigrationLengths
<1>x. PICK x : x = Migrations[f].up[k].object
  OBVIOUS
<1>k. k \in 1..n
  BY <1>n
<1>1. ASSUME NEW o \in Core(Objects)
      PROVE  o \in UpState(f, k + 1) <=> (o \in UpState(f, k) \/ o = x)
  <2>1. (\E j \in 1..n : j < k + 1 /\ o = Migrations[f].up[j].object)
        <=> ((\E j \in 1..n : j < k /\ o = Migrations[f].up[j].object) \/ o = x)
    BY <1>k, <1>x
  <2>2. (f = 21 /\ k + 1 > 3) <=> (f = 21 /\ k > 3)
    BY <1>k DEF DropsIndex
  <2>3. o = x => ~(f = 21 /\ o.name = OffersIndex)
    <3> SUFFICES ASSUME o = x, f = 21, o.name = OffersIndex PROVE FALSE
      OBVIOUS
    <3>1. o.name \notin EnumValues
      BY DEF Core
    <3>2. Home(o.name) = f
      BY <1>x, <3>1, UpAdds
    <3> QED BY <3>2, OffersIndexHome
  <2>4. o \in UpState(f, k + 1)
        <=> /\ Home(o.name) < f \/ \E j \in 1..n : j < k + 1 /\ o = Migrations[f].up[j].object
            /\ ~((f = 21 /\ k + 1 > 3) /\ o.name = OffersIndex)
    BY <1>n DEF UpState
  <2>5. o \in UpState(f, k)
        <=> /\ Home(o.name) < f \/ \E j \in 1..n : j < k /\ o = Migrations[f].up[j].object
            /\ ~((f = 21 /\ k > 3) /\ o.name = OffersIndex)
    BY <1>n DEF UpState
  <2> QED BY <2>1, <2>2, <2>3, <2>4, <2>5
<1>2. UpState(f, k) \subseteq Core(Objects) /\ UpState(f, k + 1) \subseteq Core(Objects)
  BY DEF UpState
<1>3. x.name \in EnumValues => x \notin Core(Objects)
  BY DEF Core
<1>4. x.name \notin EnumValues => x \in Core(Objects)
  BY <1>x, UpAdds
<1> QED BY <1>x, <1>1, <1>2, <1>3, <1>4

LEMMA UpDropsIndex ==
    /\ Len(Migrations[21].up) = 4
    /\ Migrations[21].up[3] = DropIfExists(OffersIndex)
<1>1. Migrations[21] = CreateDriverServiceTypesAndPartialIndex
  BY DEF Migrations
<1> QED BY <1>1 DEF CreateDriverServiceTypesAndPartialIndex, OffersIndex

LEMMA IndexGoes == UpState(21, 4) = {o \in UpState(21, 3) : ~Goes(o, OffersIndex)}
<1> SUFFICES ASSUME NEW o \in Core(Objects)
             PROVE  o \in UpState(21, 4) <=> (o \in UpState(21, 3) /\ ~Goes(o, OffersIndex))
  BY DEF UpState
<1>1. PICK up : up = Migrations[21].up
  OBVIOUS
<1>2. Len(up) = 4 /\ up[3] = DropIfExists(OffersIndex)
  BY <1>1, UpDropsIndex
<1>3. o.of # OffersIndex
  <2>1. o.of # "" => o.of \in Needed(o)
    BY DEF Needed
  <2>2. Home(o.name) \in 1..21 /\ o \in Core(Made(Home(o.name)))
    BY Homes
  <2> QED BY <2>1, <2>2, MadeAtHome DEF OffersIndex
<1>4. up[3].object.name = OffersIndex
  BY <1>2, StatementNames
<1>5. (\E j \in 1..4 : j < 4 /\ o = up[j].object)
      <=> ((\E j \in 1..4 : j < 3 /\ o = up[j].object) \/ o = up[3].object)
  OBVIOUS
<1>6. o \in UpState(21, 4) <=> /\ Home(o.name) < 21 \/ \E j \in 1..4 : j < 4 /\ o = up[j].object
                               /\ o.name # OffersIndex
  BY <1>1, <1>2 DEF UpState
<1>7. o \in UpState(21, 3) <=> Home(o.name) < 21 \/ \E j \in 1..4 : j < 3 /\ o = up[j].object
  BY <1>1, <1>2 DEF UpState
<1>8. Goes(o, OffersIndex) <=> o.name = OffersIndex
  BY <1>3 DEF Goes
<1> QED BY <1>4, <1>5, <1>6, <1>7, <1>8

\* After a statement of the way up the schema is as before the next one.
LEMMA UpStep ==
    \A f \in 1..21 : \A k \in 1..Len(Migrations[f].up) :
       Core(schema) = UpState(f, k) /\ EnumsPlain(schema) /\ Possible(Migrations[f].up[k])
       => /\ Core(After(Migrations[f].up[k])) = UpState(f, k + 1)
          /\ EnumsPlain(After(Migrations[f].up[k]))
<1> SUFFICES ASSUME NEW f \in 1..21, NEW k \in 1..Len(Migrations[f].up),
                    Core(schema) = UpState(f, k), EnumsPlain(schema),
                    Possible(Migrations[f].up[k])
             PROVE  /\ Core(After(Migrations[f].up[k])) = UpState(f, k + 1)
                    /\ EnumsPlain(After(Migrations[f].up[k]))
  OBVIOUS
<1>s. PICK s : s = Migrations[f].up[k]
  OBVIOUS
<1>1. CASE DropsIndex(f, k)
  <2>1. f = 21 /\ k = 3 /\ s = DropIfExists(OffersIndex)
    BY <1>s, <1>1, UpDropsIndex DEF DropsIndex
  <2>2. After(s) = {o \in schema : ~Goes(o, OffersIndex)}
    BY <2>1, Dropping, DropStatements, StatementNames
  <2>3. Core(After(s)) = {o \in Core(schema) : ~Goes(o, OffersIndex)}
    BY <2>2 DEF Core
  <2>5. EnumsPlain(After(s))
    BY <2>2 DEF EnumsPlain
  <2>4. UpState(f, k + 1) = {o \in UpState(f, k) : ~Goes(o, OffersIndex)}
    BY <2>1, IndexGoes
  <2> QED BY <1>s, <2>3, <2>4, <2>5
<1>2. CASE ~DropsIndex(f, k)
  <2>1. Adds(s) /\ Fits(s, f, Earlier(Migrations[f].up, k))
    BY <1>s, <1>2, UpAdds
  <2>2. CASE s.object.name \in EnumValues
    <3>1. s.op = "create" /\ s.object.needs = {}
      BY <2>1, <2>2, EnumHomes DEF Fits
    <3>2. s.object.name \notin Names(schema)
      BY <1>s, <3>1 DEF Possible
    <3>3. After(s) = schema \cup {s.object}
      BY <2>1, <3>2, Adding
    <3>4. Core(After(s)) = Core(schema)
      BY <2>2, <3>3 DEF Core
    <3>6. EnumsPlain(After(s))
      BY <3>1, <3>3 DEF EnumsPlain
    <3>5. UpState(f, k + 1) = UpState(f, k)
      BY <1>s, <1>2, <2>2, UpStateAdds
    <3> QED BY <1>s, <3>4, <3>5, <3>6
  <2>3. CASE s.object.name \notin EnumValues
    <3>1. s.object.name \notin Names(schema)
      <4> SUFFICES ASSUME s.object.name \in Names(schema) PROVE FALSE
        OBVIOUS
      <4>1. PICK o \in schema : o.name = s.object.name
        BY DEF Names
      <4>2. o \in UpState(f, k)
        BY <2>3, <4>1 DEF Core
      <4> QED BY <1>s, <1>2, <2>3, <4>1, <4>2, UpFresh
    <3>2. After(s) = schema \cup {s.object}
      BY <2>1, <3>1, Adding
    <3>3. Core(After(s)) = Core(schema) \cup {s.object}
      BY <2>3, <3>2 DEF Core
    <3>5. EnumsPlain(After(s))
      BY <2>3, <3>2 DEF EnumsPlain
    <3>4. UpState(f, k + 1) = UpState(f, k) \cup {s.object}
      BY <1>s, <1>2, <2>3, UpStateAdds
    <3> QED BY <1>s, <3>3, <3>4, <3>5
  <2> QED BY <2>2, <2>3
<1> QED BY <1>1, <1>2

\* What a statement of the way up needs is there.
LEMMA UpKnown ==
    \A f \in 1..21 : \A k \in 1..Len(Migrations[f].up) :
       \A name : Known(name, f, Earlier(Migrations[f].up, k))
                 => \E o \in UpState(f, k) : o.name = name
<1> SUFFICES ASSUME NEW f \in 1..21, NEW k \in 1..Len(Migrations[f].up), NEW name,
                    Known(name, f, Earlier(Migrations[f].up, k))
             PROVE  \E o \in UpState(f, k) : o.name = name
  OBVIOUS
<1>1. name \notin EnumValues /\ name # OffersIndex
  BY DEF Known
<1>2. CASE Home(name) \in Tabled /\ Home(name) < f
  <2>1. PICK o \in Core(Made(Home(name))) : o.name = name
    BY <1>2, TableOf
  <2>2. Home(name) \in 1..21
    BY <1>2 DEF Tabled
  <2>3. o \in Core(Objects)
    BY <2>2, HomesAreMade
  <2>4. o \in UpState(f, k)
    BY <1>1, <1>2, <2>1, <2>3 DEF UpState
  <2> QED BY <2>1, <2>4
<1>3. CASE name \in Earlier(Migrations[f].up, k)
  <2>1. PICK j \in 1..(k - 1) : name = Migrations[f].up[j].object.name
    BY <1>3 DEF Earlier
  <2>2. j \in 1..Len(Migrations[f].up) /\ j < k
    <3>1. PICK n \in Nat : n = Len(Migrations[f].up)
      BY MigrationLengths
    <3>2. k \in 1..n
      BY <3>1
    <3>3. j \in 1..n /\ j < k
      BY <3>2
    <3> QED BY <3>1, <3>3
  <2>3. ~DropsIndex(f, j)
    <3> SUFFICES ASSUME DropsIndex(f, j) PROVE FALSE
      OBVIOUS
    <3>1. Migrations[f].up[j] = DropIfExists(OffersIndex)
      BY UpDropsIndex DEF DropsIndex
    <3> QED BY <1>1, <2>1, <3>1, StatementNames
  <2>4. Migrations[f].up[j].object \in Core(Objects)
    BY <1>1, <2>1, <2>2, <2>3, UpAdds
  <2>5. Migrations[f].up[j].object \in UpState(f, k)
    BY <1>1, <2>1, <2>2, <2>4 DEF UpState
  <2> QED BY <2>1, <2>5
<1> QED BY <1>2, <1>3 DEF Known

\* Such a statement fails only for a value of a type or the offers' index.
LEMMA UpPossible ==
    \A f \in 1..21 : \A k \in 1..Len(Migrations[f].up) :
       Core(schema) = UpState(f, k) /\ EnumsPlain(schema)
       => \/ Possible(Migrations[f].up[k])
          \/ Migrations[f].up[k].object.name \in Failures
<1> SUFFICES ASSUME NEW f \in 1..21, NEW k \in 1..Len(Migrations[f].up),
                    Core(schema) = UpState(f, k), EnumsPlain(schema),
                    Migrations[f].up[k].object.name \notin Failures
             PROVE  Possible(Migrations[f].up[k])
  OBVIOUS
<1>s. PICK s : s = Migrations[f].up[k]
  OBVIOUS
<1>0. s.object.name \notin EnumValues /\ s.object.name # OffersIndex
  BY <1>s DEF Failures
<1>1. ~DropsIndex(f, k)
  <2> SUFFICES ASSUME DropsIndex(f, k) PROVE FALSE
    OBVIOUS
  <2>1. s = DropIfExists(OffersIndex)
    BY <1>s, UpDropsIndex DEF DropsIndex
  <2> QED BY <1>0, <2>1, StatementNames
<1>2. Adds(s) /\ Fits(s, f, Earlier(Migrations[f].up, k))
  BY <1>s, <1>1, UpAdds
<1>3. /\ s.op \in {"create", "ensure"}
      /\ \A name \in Needed(s.object) : Known(name, f, Earlier(Migrations[f].up, k))
  BY <1>0, <1>2 DEF Fits, Adds
<1>4. s.object.name \notin Names(schema)
  <2> SUFFICES ASSUME s.object.name \in Names(schema) PROVE FALSE
    OBVIOUS
  <2>1. PICK o \in schema : o.name = s.object.name
    BY DEF Names
  <2>2. o \in UpState(f, k)
    BY <1>0, <2>1 DEF Core
  <2> QED BY <1>s, <1>0, <1>1, <2>1, <2>2, UpFresh
<1>5. Needed(s.object) \subseteq Names(schema)
  <2> SUFFICES ASSUME NEW name \in Needed(s.object) PROVE name \in Names(schema)
    OBVIOUS
  <2>1. Known(name, f, Earlier(Migrations[f].up, k))
    BY <1>3
  <2>2. name \notin EnumValues
    BY <2>1 DEF Known
  <2>a. \A n : Known(n, f, Earlier(Migrations[f].up, k)) => \E o \in UpState(f, k) : o.name = n
    BY UpKnown
  <2>3. PICK o \in UpState(f, k) : o.name = name
    BY <2>1, <2>a
  <2>4. o \in schema
    BY <2>3 DEF Core
  <2> QED BY <2>3, <2>4 DEF Names
<1>6. Possible(s)
  BY <1>3, <1>4, <1>5 DEF Possible, Needed
<1> QED BY <1>s, <1>6

-----------------------------------------------------------------------------
(* A statement on the way back *)

LEMMA DownStatements ==
    \A f \in 1..21 : \A k \in 1..Len(Migrations[f].down) :
       IF RestoresIndex(f, k) THEN Migrations[f].down[k] = AddUnique("ride_offers", OffersIndex)
       ELSE /\ Drops(Migrations[f].down[k])
            /\ Home(Migrations[f].down[k].object.name) = f
BY FilesGo DEF DownFits

LEMMA TheOffersIndex ==
    \A o \in Core(Objects) :
       o.name = OffersIndex <=> o = AddUnique("ride_offers", OffersIndex).object
<1>0. PICK index : index = AddUnique("ride_offers", OffersIndex).object
  OBVIOUS
<1>1. index.name = OffersIndex
  BY <1>0, StatementNames
<1>2. ASSUME NEW o \in Core(Objects), o.name = OffersIndex PROVE o = index
  <2>1. PICK f \in 1..21 : f = Home(o.name)
    BY Homes
  <2>2. f = 7 /\ o \in Core(Made(7))
    BY <1>2, <2>1, Homes, OffersIndexHome
  <2>3. PICK up : up = Migrations[7].up
    OBVIOUS
  <2>4. PICK k \in 1..Len(up) : o = up[k].object
    BY <2>2, <2>3, MadeIs DEF Core
  <2>5. /\ Len(up) = 2 /\ up[1].object.name = "ride_offers"
        /\ up[2] = AddUnique("ride_offers", OffersIndex)
    <3>1. Migrations[7] = CreateRideOffers
      BY DEF Migrations
    <3> QED BY <2>3, <3>1, StatementNames DEF CreateRideOffers, OffersIndex
  <2>6. k = 1 \/ k = 2
    BY <2>5
  <2> QED BY <1>0, <1>2, <2>4, <2>5, <2>6 DEF OffersIndex
<1> QED BY <1>0, <1>1, <1>2

LEMMA IndexObject ==
    \A o : o = AddUnique("ride_offers", OffersIndex).object =>
       o.name = OffersIndex /\ o.of = "ride_offers" /\ o.needs = {} /\ o \in Core(Objects)
<1>1. PICK o : o = AddUnique("ride_offers", OffersIndex).object
  OBVIOUS
<1>2. o.name = OffersIndex /\ o.of = "ride_offers" /\ o.needs = {}
  BY <1>1 DEF AddUnique, Statement, Object
<1>3. PICK up : up = Migrations[7].up
  OBVIOUS
<1>4. Len(up) = 2 /\ o = up[2].object
  <2>1. Migrations[7] = CreateRideOffers
    BY DEF Migrations
  <2> QED BY <1>1, <1>3, <2>1 DEF CreateRideOffers, OffersIndex
<1>5. o \in Core(Made(7))
  <2>1. o \in Made(7)
    BY <1>3, <1>4, MadeIs DEF DropsIndex
  <2> QED BY <1>2, <2>1, OffersIndexHome DEF Core
<1>6. o \in Core(Objects)
  BY <1>5, HomesAreMade
<1> QED BY <1>1, <1>2, <1>6

\* The offers' index is not of another object, and goes with ride_offers alone.
LEMMA IndexStays ==
    /\ \A o \in Core(Objects) : o.of # OffersIndex
    /\ \A o \in Core(Objects) : \A name :
          o.name = OffersIndex /\ Home(name) = 21 => ~Goes(o, name)
<1>1. ASSUME NEW o \in Core(Objects) PROVE o.of # OffersIndex
  <2>1. o.of # "" => o.of \in Needed(o)
    BY DEF Needed
  <2>2. Home(o.name) \in 1..21 /\ o \in Core(Made(Home(o.name)))
    BY Homes
  <2> QED BY <2>1, <2>2, MadeAtHome DEF OffersIndex
<1>2. ASSUME NEW o \in Core(Objects), NEW name, o.name = OffersIndex, Home(name) = 21,
             Goes(o, name)
      PROVE  FALSE
  <2>1. o.of = "ride_offers"
    BY <1>2, TheOffersIndex, IndexObject
  <2>2. name = OffersIndex \/ name = "ride_offers"
    BY <1>2, <2>1 DEF Goes
  <2> QED BY <1>2, <2>2, OffersIndexHome, TableHomes
<1> QED BY <1>1, <1>2

LEMMA DownDrops ==
    \A f \in 1..21 : \A k \in 1..Len(Migrations[f].down) :
       ~RestoresIndex(f, k) =>
          DownState(f, k + 1) =
             {o \in DownState(f, k) : ~Goes(o, Migrations[f].down[k].object.name)}
<1> SUFFICES ASSUME NEW f \in 1..21, NEW k \in 1..Len(Migrations[f].down), ~RestoresIndex(f, k),
                    NEW o \in Core(Objects)
             PROVE  o \in DownState(f, k + 1)
                    <=> (o \in DownState(f, k) /\ ~Goes(o, Migrations[f].down[k].object.name))
  BY DEF DownState
<1>n. PICK n \in Nat : n = Len(Migrations[f].down)
  BY MigrationLengths
<1>x. PICK name : name = Migrations[f].down[k].object.name
  OBVIOUS
<1>k. k \in 1..n
  BY <1>n
<1>1. (\A j \in 1..n : j < k + 1 => ~Goes(o, Migrations[f].down[j].object.name))
      <=> ((\A j \in 1..n : j < k => ~Goes(o, Migrations[f].down[j].object.name)) /\ ~Goes(o, name))
  BY <1>k, <1>x
<1>2. (f = 21 /\ k + 1 > 2) <=> (f = 21 /\ k > 2)
  BY <1>k DEF RestoresIndex
<1>3. f = 21 /\ o.name = OffersIndex => ~Goes(o, name)
  BY <1>x, DownStatements, IndexStays
<1>4. o \in DownState(f, k + 1)
      <=> \/ /\ o \in Base(f)
             /\ \A j \in 1..n : j < k + 1 => ~Goes(o, Migrations[f].down[j].object.name)
          \/ (f = 21 /\ k + 1 > 2) /\ o.name = OffersIndex
  BY <1>n DEF DownState
<1>5. o \in DownState(f, k)
      <=> \/ /\ o \in Base(f)
             /\ \A j \in 1..n : j < k => ~Goes(o, Migrations[f].down[j].object.name)
          \/ (f = 21 /\ k > 2) /\ o.name = OffersIndex
  BY <1>n DEF DownState
<1> QED BY <1>x, <1>1, <1>2, <1>3, <1>4, <1>5

LEMMA IndexComesBack ==
    DownState(21, 3) = DownState(21, 2) \cup {AddUnique("ride_offers", OffersIndex).object}
<1>0. PICK index : index = AddUnique("ride_offers", OffersIndex).object
  OBVIOUS
<1>1. DownState(21, 3) \subseteq Core(Objects) /\ DownState(21, 2) \subseteq Core(Objects)
  BY DEF DownState
<1>2. index \in Core(Objects)
  BY <1>0, IndexObject
<1>3. PICK down : down = Migrations[21].down
  OBVIOUS
<1>4. Len(down) = 3 /\ down[2].object.name = OffersIndex
  <2>1. Migrations[21] = CreateDriverServiceTypesAndPartialIndex
    BY DEF Migrations
  <2> QED BY <1>3, <2>1, StatementNames DEF CreateDriverServiceTypesAndPartialIndex, OffersIndex
<1>5. ASSUME NEW o \in Core(Objects)
      PROVE  o \in DownState(21, 3) <=> (o \in DownState(21, 2) \/ o = index)
  <2>1. o \in Base(21) => ~Goes(o, OffersIndex)
    BY IndexStays DEF Base, Goes
  <2>2. (\A j \in 1..3 : j < 3 => ~Goes(o, down[j].object.name))
        <=> ((\A j \in 1..3 : j < 2 => ~Goes(o, down[j].object.name))
             /\ ~Goes(o, down[2].object.name))
    OBVIOUS
  <2>3. o \in DownState(21, 3)
        <=> \/ o \in Base(21) /\ \A j \in 1..3 : j < 3 => ~Goes(o, down[j].object.name)
            \/ o.name = OffersIndex
    BY <1>3, <1>4 DEF DownState
  <2>4. o \in DownState(21, 2)
        <=> o \in Base(21) /\ \A j \in 1..3 : j < 2 => ~Goes(o, down[j].object.name)
    BY <1>3, <1>4 DEF DownState
  <2>5. o.name = OffersIndex <=> o = index
    BY <1>0, TheOffersIndex
  <2> QED BY <1>4, <2>1, <2>2, <2>3, <2>4, <2>5
<1> QED BY <1>0, <1>1, <1>2, <1>5

\* After a statement of the way back the schema is as before the next one.
LEMMA DownStep ==
    \A f \in 1..21 : \A k \in 1..Len(Migrations[f].down) :
       Core(schema) = DownState(f, k) /\ EnumsPlain(schema) /\ Possible(Migrations[f].down[k])
       => /\ Core(After(Migrations[f].down[k])) = DownState(f, k + 1)
          /\ EnumsPlain(After(Migrations[f].down[k]))
<1> SUFFICES ASSUME NEW f \in 1..21, NEW k \in 1..Len(Migrations[f].down),
                    Core(schema) = DownState(f, k), EnumsPlain(schema),
                    Possible(Migrations[f].down[k])
             PROVE  /\ Core(After(Migrations[f].down[k])) = DownState(f, k + 1)
                    /\ EnumsPlain(After(Migrations[f].down[k]))
  OBVIOUS
<1>s. PICK s : s = Migrations[f].down[k]
  OBVIOUS
<1>1. CASE RestoresIndex(f, k)
  <2>1. f = 21 /\ k = 2 /\ s = AddUnique("ride_offers", OffersIndex)
    BY <1>s, <1>1, DownStatements DEF RestoresIndex
  <2>2. s.op = "create_unique"
    BY <2>1 DEF AddUnique, Statement
  <2>3. s.object.name \notin Names(schema)
    BY <1>s, <2>2 DEF Possible
  <2>4. After(s) = schema \cup {s.object}
    BY <2>2, <2>3, Adding DEF Adds
  <2>5. s.object.name = OffersIndex
    BY <2>1, StatementNames
  <2>6. Core(After(s)) = Core(schema) \cup {s.object}
    BY <2>4, <2>5, OffersIndexHome DEF Core
  <2>7. EnumsPlain(After(s))
    BY <2>4, <2>5, OffersIndexHome DEF EnumsPlain
  <2>8. DownState(f, k + 1) = DownState(f, k) \cup {s.object}
    BY <2>1, IndexComesBack
  <2> QED BY <1>s, <2>6, <2>7, <2>8
<1>2. CASE ~RestoresIndex(f, k)
  <2>1. Drops(s)
    BY <1>s, <1>2, DownStatements
  <2>2. After(s) = {o \in schema : ~Goes(o, s.object.name)}
    BY <2>1, Dropping
  <2>3. Core(After(s)) = {o \in Core(schema) : ~Goes(o, s.object.name)}
    BY <2>2 DEF Core
  <2>4. EnumsPlain(After(s))
    BY <2>2 DEF EnumsPlain
  <2>5. DownState(f, k + 1) = {o \in DownState(f, k) : ~Goes(o, s.object.name)}
    BY <1>s, <1>2, DownDrops
  <2> QED BY <1>s, <2>3, <2>4, <2>5
<1> QED BY <1>1, <1>2

\* What a statement of the way back drops is there if it must be.
LEMMA DownFinds ==
    \A f \in 1..21 : \A k \in 1..Len(Migrations[f].down) :
       Migrations[f].down[k].op = "drop"
       => \E o \in DownState(f, k) : o.name = Migrations[f].down[k].object.name
<1> SUFFICES ASSUME NEW f \in 1..21, NEW k \in 1..Len(Migrations[f].down),
                    Migrations[f].down[k].op = "drop"
             PROVE  \E o \in DownState(f, k) : o.name = Migrations[f].down[k].object.name
  OBVIOUS
<1>n. PICK n \in Nat : n = Len(Migrations[f].down)
  BY MigrationLengths
<1>1. PICK o \in Core(Made(f)) :
         /\ o.name = Migrations[f].down[k].object.name
         /\ \A j \in 1..(k - 1) : ~Goes(o, Migrations[f].down[j].object.name)
  BY FilesGo DEF DownFits
<1>2. o \in Core(Objects) /\ Home(o.name) = f
  BY HomesAreMade
<1>3. Home(o.name) <= f /\ (f = 21 => o.name # OffersIndex)
  BY <1>2, OffersIndexHome
<1>4. o \in Base(f)
  BY <1>2, <1>3 DEF Base
<1>5. \A j \in 1..n : j < k => j \in 1..(k - 1)
  BY <1>n
<1>6. \A j \in 1..Len(Migrations[f].down) : j < k => ~Goes(o, Migrations[f].down[j].object.name)
  BY <1>n, <1>1, <1>5
<1>7. o \in DownState(f, k)
  BY <1>2, <1>4, <1>6 DEF DownState
<1> QED BY <1>1, <1>7

\* Nothing else there needs what a statement of the way back drops.
LEMMA DownUnneeded ==
    \A f \in 1..21 : \A k \in 1..Len(Migrations[f].down) :
       ~RestoresIndex(f, k) =>
          \A o \in DownState(f, k) : Migrations[f].down[k].object.name \notin o.needs
<1> SUFFICES ASSUME NEW f \in 1..21, NEW k \in 1..Len(Migrations[f].down), ~RestoresIndex(f, k),
                    NEW o \in DownState(f, k), NEW name,
                    name = Migrations[f].down[k].object.name, name \in o.needs
             PROVE  FALSE
  OBVIOUS
<1>1. Home(name) = f
  BY DownStatements
<1>2. o \in Core(Objects)
  BY DEF DownState
<1>3. PICK h \in 1..21 : h = Home(o.name) /\ o \in Core(Made(h))
  BY <1>2, Homes
<1>4. f < h \/ h = 17
  <2>1. \A m \in o.needs : Home(m) < h \/ h = 17
    BY <1>3, MadeAtHome
  <2>2. Home(name) < h \/ h = 17
    BY <2>1
  <2> QED BY <1>1, <2>2
<1>5. f <= h
  <2>1. \A m \in Needed(o) : Home(m) <= h
    BY <1>3, MadeAtHome
  <2>2. name \in Needed(o)
    BY DEF Needed
  <2>3. Home(name) <= h
    BY <2>1, <2>2
  <2> QED BY <1>1, <2>3
<1>6. CASE o \in Base(f) /\ \A j \in 1..Len(Migrations[f].down) :
                               j < k => ~Goes(o, Migrations[f].down[j].object.name)
  <2>1. h <= f
    BY <1>3, <1>6 DEF Base
  <2>2. f = 17 /\ h = 17
    BY <1>4, <1>5, <2>1
  <2>3. PICK j \in 1..(k - 1) : Goes(o, Migrations[f].down[j].object.name)
    BY <1>3, <2>2, FilesGo DEF DownFits
  <2>4. j \in 1..Len(Migrations[f].down) /\ j < k
    <3>1. PICK n \in Nat : n = Len(Migrations[f].down)
      BY MigrationLengths
    <3>2. k \in 1..n
      BY <3>1
    <3>3. j \in 1..n /\ j < k
      BY <3>2
    <3> QED BY <3>1, <3>3
  <2> QED BY <1>6, <2>3, <2>4
<1>7. CASE f = 21 /\ o.name = OffersIndex
  BY <1>2, <1>7, TheOffersIndex, IndexObject
<1> QED BY <1>6, <1>7 DEF DownState

\* A statement of the way back fails only where it makes the offers' index again.
LEMMA DownPossible ==
    \A f \in 1..21 : \A k \in 1..Len(Migrations[f].down) :
       Core(schema) = DownState(f, k) /\ EnumsPlain(schema)
       => \/ Possible(Migrations[f].down[k])
          \/ Migrations[f].down[k].object.name \in Failures
<1> SUFFICES ASSUME NEW f \in 1..21, NEW k \in 1..Len(Migrations[f].down),
                    Core(schema) = DownState(f, k), EnumsPlain(schema),
                    Migrations[f].down[k].object.name \notin Failures
             PROVE  Possible(Migrations[f].down[k])
  OBVIOUS
<1>s. PICK s : s = Migrations[f].down[k]
  OBVIOUS
<1>1. ~RestoresIndex(f, k)
  <2> SUFFICES ASSUME RestoresIndex(f, k) PROVE FALSE
    OBVIOUS
  <2>1. s = AddUnique("ride_offers", OffersIndex)
    BY <1>s, DownStatements
  <2> QED BY <1>s, <2>1, StatementNames DEF Failures
<1>2. Drops(s)
  BY <1>s, <1>1, DownStatements
<1>3. s.op = "drop" => s.object.name \in Names(schema)
  <2> SUFFICES ASSUME s.op = "drop" PROVE s.object.name \in Names(schema)
    OBVIOUS
  <2>1. PICK o \in DownState(f, k) : o.name = s.object.name
    BY <1>s, DownFinds
  <2>2. o \in schema
    BY <2>1 DEF Core
  <2> QED BY <2>1, <2>2 DEF Names
<1>4. \A o \in schema : s.object.name \notin o.needs
  <2> SUFFICES ASSUME NEW o \in schema PROVE s.object.name \notin o.needs
    OBVIOUS
  <2>1. CASE o.name \in EnumValues
    BY <2>1 DEF EnumsPlain
  <2>2. CASE o.name \notin EnumValues
    <3>1. o \in DownState(f, k)
      BY <2>2 DEF Core
    <3> QED BY <1>s, <1>1, <3>1, DownUnneeded
  <2> QED BY <2>1, <2>2
<1>5. Possible(s)
  BY <1>2, <1>3, <1>4 DEF Possible, Drops
<1> QED BY <1>s, <1>5

-----------------------------------------------------------------------------
(* The seeders' statements *)

\* The seeded tables are there once all migrations are applied.
LEMMA SeededTablesAreThere ==
    \A name \in SeededTables : name \notin EnumValues /\ \E o \in Base(21) : o.name = name
<1> SUFFICES ASSUME NEW name \in SeededTables
             PROVE  name \notin EnumValues /\ \E o \in Base(21) : o.name = name
  OBVIOUS
<1>1. name # OffersIndex /\ name \notin EnumValues
  BY DEF SeededTables, EnumValues, OffersIndex
<1>2. PICK h \in 2..11 : h = Home(name)
  BY TableHomes DEF SeededTables
<1>3. PICK o \in Core(Made(h)) : o.name = name
  BY <1>2, TableOf DEF Tabled
<1>4. o \in Core(Objects) /\ Home(o.name) <= 21
  BY <1>2, <1>3, HomesAreMade
<1>5. o \in Base(21)
  BY <1>1, <1>3, <1>4 DEF Base
<1> QED BY <1>1, <1>3, <1>5

\* Each seeder inserts new rows that refer to rows inserted before.
SeedFits(script, f) ==
    \A k \in 1..Len(script) :
       /\ script[k].op = "insert" /\ script[k].object.name \in SeededTables
       /\ script[k].object.name \notin SeedRows(f) \cup Earlier(script, k)
       /\ script[k].object.needs \subseteq SeedRows(f) \cup Earlier(script, k)

LEMMA Inserts ==
    \A table, needs : /\ BulkInsert(table, needs).op = "insert"
                      /\ BulkInsert(table, needs).object.name = table
                      /\ BulkInsert(table, needs).object.needs = needs
BY DEF BulkInsert, Statement, Object

LEMMA EarlierOfFive ==
    \A a, b, c, d, e :
       /\ Earlier(<<a, b, c, d, e>>, 1) = {}
       /\ Earlier(<<a, b, c, d, e>>, 2) = {a.object.name}
       /\ Earlier(<<a, b, c, d, e>>, 3) = {a.object.name, b.object.name}
       /\ Earlier(<<a, b, c, d, e>>, 4) = {a.object.name, b.object.name, c.object.name}
       /\ Earlier(<<a, b, c, d, e>>, 5) =
             {a.object.name, b.object.name, c.object.name, d.object.name}
BY DEF Earlier

LEMMA EarlierOfFew ==
    /\ \A a : Earlier(<<a>>, 1) = {} /\ Earlier(<<a>>, 2) = {a.object.name}
    /\ \A a, b : /\ Earlier(<<a, b>>, 1) = {} /\ Earlier(<<a, b>>, 2) = {a.object.name}
                 /\ Earlier(<<a, b>>, 3) = {a.object.name, b.object.name}
BY DEF Earlier

LEMMA SeedersFit == \A f \in 1..4 : SeedFits(Seeders[f].up, f)
<1>1. SeedFits(SeedUsers.up, 1)
  <2>1. PICK a : a = InsertUsers
    OBVIOUS
  <2>2. a.op = "insert" /\ a.object.name = "users" /\ a.object.needs = {}
    BY <2>1, Inserts DEF InsertUsers
  <2>3. SeedFits(<<a>>, 1)
    BY <2>2, EarlierOfFew DEF SeedFits, SeedRows, SeededTables
  <2> QED BY <2>1, <2>3 DEF SeedUsers
<1>2. SeedFits(SeedDriverProfilesVehicles.up, 2)
  <2>1. PICK a, b : a = InsertProfiles /\ b = InsertVehicles
    OBVIOUS
  <2>2. /\ a.op = "insert" /\ a.object.name = "driver_profiles" /\ a.object.needs = {"users"}
        /\ b.op = "insert" /\ b.object.name = "vehicles" /\ b.object.needs = {"driver_profiles"}
    BY <2>1, Inserts DEF InsertProfiles, InsertVehicles
  <2>3. PICK up : up = <<a, b>>
    OBVIOUS
  <2>4. /\ Len(up) = 2 /\ up[1] = a /\ up[2] = b
        /\ Earlier(up, 1) = {} /\ Earlier(up, 2) = {"driver_profiles"}
    BY <2>2, <2>3, EarlierOfFew
  <2>5. \A k \in 1..2 : k = 1 \/ k = 2
    OBVIOUS
  <2>6. SeedRows(2) = {"users"}
    BY DEF SeedRows
  <2>7. SeedFits(up, 2)
    BY <2>2, <2>4, <2>5, <2>6 DEF SeedFits, SeededTables
  <2> QED BY <2>1, <2>3, <2>7 DEF SeedDriverProfilesVehicles
<1>3. SeedFits(SeedWallets.up, 3)
  <2>1. PICK a : a = InsertWallets
    OBVIOUS
  <2>2. a.op = "insert" /\ a.object.name = "wallets" /\ a.object.needs = {"users"}
    BY <2>1, Inserts DEF InsertWallets
  <2>3. SeedFits(<<a>>, 3)
    BY <2>2, EarlierOfFew DEF SeedFits, SeedRows, SeededTables
  <2> QED BY <2>1, <2>3 DEF SeedWallets
<1>4. SeedFits(SeedRidesOffersRatingsTransactions.up, 4)
  <2>1. PICK a, b, c, d, e : /\ a = InsertRides /\ b = InsertOffers /\ c = InsertStops
                             /\ d = InsertRatings /\ e = InsertTransactions
    OBVIOUS
  <2>2. /\ a.op = "insert" /\ a.object.name = "rides" /\ a.object.needs = {"users"}
        /\ b.op = "insert" /\ b.object.name = "ride_offers" /\ b.object.needs = {"rides", "users"}
        /\ c.op = "insert" /\ c.object.name = "ride_stops" /\ c.object.needs = {"rides"}
        /\ d.op = "insert" /\ d.object.name = "ratings" /\ d.object.needs = {"rides", "users"}
        /\ e.op = "insert" /\ e.object.name = "wallet_transactions" /\ e.object.needs = {"users"}
    BY <2>1, Inserts DEF InsertRides, InsertOffers, InsertStops, InsertRatings, InsertTransactions
  <2>3. PICK up : up = <<a, b, c, d, e>>
    OBVIOUS
  <2>4. /\ Len(up) = 5 /\ up[1] = a /\ up[2] = b /\ up[3] = c /\ up[4] = d /\ up[5] = e
        /\ Earlier(up, 1) = {} /\ Earlier(up, 2) = {"rides"}
        /\ Earlier(up, 3) = {"rides", "ride_offers"}
        /\ Earlier(up, 4) = {"rides", "ride_offers", "ride_stops"}
        /\ Earlier(up, 5) = {"rides", "ride_offers", "ride_stops", "ratings"}
    BY <2>2, <2>3, EarlierOfFive
  <2>5. \A k \in 1..5 : k = 1 \/ k = 2 \/ k = 3 \/ k = 4 \/ k = 5
    OBVIOUS
  <2>6. SeedRows(4) = {"users", "driver_profiles", "vehicles", "wallets"}
    BY DEF SeedRows
  <2>7. SeedFits(up, 4)
    BY <2>2, <2>4, <2>5, <2>6 DEF SeedFits, SeededTables
  <2> QED BY <2>1, <2>3, <2>7 DEF SeedRidesOffersRatingsTransactions
<1> QED BY <1>1, <1>2, <1>3, <1>4 DEF Seeders

\* The rows of a seeder and those before it are the rows before the next.
LEMMA SeederEnds ==
    \A f \in 1..3 : SeedRows(f) \cup Earlier(Seeders[f].up, Len(Seeders[f].up) + 1) = SeedRows(f + 1)
<1>1. \A table, needs : BulkInsert(table, needs).object.name = table
  BY Inserts
<1>2. PICK up1, up2, up3 : up1 = Seeders[1].up /\ up2 = Seeders[2].up /\ up3 = Seeders[3].up
  OBVIOUS
<1>3. /\ Len(up1) = 1 /\ Earlier(up1, 2) = {"users"}
      /\ Len(up2) = 2 /\ Earlier(up2, 3) = {"driver_profiles", "vehicles"}
      /\ Len(up3) = 1 /\ Earlier(up3, 2) = {"wallets"}
  BY <1>1, <1>2, EarlierOfFew DEF Seeders, SeedUsers, SeedDriverProfilesVehicles, SeedWallets,
     InsertUsers, InsertProfiles, InsertVehicles, InsertWallets
<1>4. /\ SeedRows(1) = {} /\ SeedRows(2) = {"users"}
      /\ SeedRows(3) = {"users", "driver_profiles", "vehicles"}
      /\ SeedRows(4) = {"users", "driver_profiles", "vehicles", "wallets"}
  BY DEF SeedRows
<1>5. /\ SeedRows(1) \cup Earlier(up1, Len(up1) + 1) = SeedRows(2)
      /\ SeedRows(2) \cup Earlier(up2, Len(up2) + 1) = SeedRows(3)
      /\ SeedRows(3) \cup Earlier(up3, Len(up3) + 1) = SeedRows(4)
  BY <1>3, <1>4
<1>6. \A f \in 1..3 : (f = 1 /\ f + 1 = 2) \/ (f = 2 /\ f + 1 = 3) \/ (f = 3 /\ f + 1 = 4)
  OBVIOUS
<1> QED BY <1>2, <1>5, <1>6

-----------------------------------------------------------------------------
(* The steps of a command *)

LEMMA SeederLengths ==
    \A f \in 1..4 : Len(Seeders[f].up) \in Nat /\ Len(Seeders[f].down) \in Nat
<1> USE DEF Seeders
<1>1. Len(SeedUsers.up) \in Nat /\ Len(SeedUsers.down) \in Nat
  BY DEF SeedUsers
<1>2. Len(SeedDriverProfilesVehicles.up) \in Nat /\ Len(SeedDriverProfilesVehicles.down) \in Nat
  BY DEF SeedDriverProfilesVehicles
<1>3. Len(SeedWallets.up) \in Nat /\ Len(SeedWallets.down) \in Nat
  BY DEF SeedWallets
<1>4. /\ Len(SeedRidesOffersRatingsTransactions.up) \in Nat
      /\ Len(SeedRidesOffersRatingsTransactions.down) \in Nat
  BY DEF SeedRidesOffersRatingsTransactions, Each
<1> QED BY <1>1, <1>2, <1>3, <1>4

LEMMA PlaceIdle == \A a, r : InPlace(NoCommand, a, r, Base(a))
BY DEF InPlace, NoCommand

LEMMA PlaceUp ==
    \A a \in 0..20 : \A k \in Nat : \A c, r :
       /\ c.kind = "migrate" /\ c.file = a + 1 /\ c.step = k
       /\ k <= Len(Migrations[a + 1].up) + 1
       => InPlace(c, a, r, UpState(a + 1, k))
BY DEF InPlace

LEMMA PlaceDown ==
    \A a \in 1..21 : \A k \in Nat : \A c, r :
       /\ c.kind \in {"undo", "undo_all"} /\ c.file = a /\ c.step = k
       /\ k <= Len(Migrations[a].down) + 1
       => InPlace(c, a, r, DownState(a, k))
BY DEF InPlace

LEMMA PlaceSeed ==
    \A f \in 1..4 : \A k \in Nat : \A c, r :
       /\ c.kind = "seed" /\ c.file = f /\ c.step = k /\ k <= Len(Seeders[f].up) + 1
       /\ r = SeedRows(f) \cup Earlier(Seeders[f].up, k)
       => InPlace(c, 21, r, Base(21))
BY DEF InPlace

LEMMA PlaceSeedUndo == \A c, r : c.kind = "seed_undo" => InPlace(c, 21, r, Base(21))
BY DEF InPlace

LEMMA AtAStatement ==
    SchemaInv /\ InFile =>
       /\ command \in Command /\ command.kind \in CommandKinds \ {"none"}
       /\ command.file \in 1..21 /\ command.step \in Nat \ {0}
       /\ command.step <= Len(Script)
       /\ command.kind \in {"seed", "seed_undo"} => command.file \in 1..4
<1> SUFFICES ASSUME SchemaInv, InFile
             PROVE  /\ command \in Command /\ command.kind \in CommandKinds \ {"none"}
                    /\ command.file \in 1..21 /\ command.step \in Nat \ {0}
                    /\ command.step <= Len(Script)
                    /\ command.kind \in {"seed", "seed_undo"} => command.file \in 1..4
  OBVIOUS
<1>1. command \in Command /\ ~Idle /\ command.step <= Len(Script)
  BY DEF SchemaInv, CommandIsInAFile, InFile
<1>2. command.file \in 0..21 /\ command.step \in Nat /\ command.kind \in CommandKinds
  BY <1>1 DEF Command
<1>3. command.kind # "none" /\ command.file > 0 /\ command.step > 0
  BY <1>1 DEF SchemaInv, CommandIsInAFile
<1>4. command.kind \in {"seed", "seed_undo"} => command.file <= 4
  BY DEF SchemaInv, CommandIsInAFile
<1>5. command.file \in 1..21 /\ command.step \in Nat \ {0}
  BY <1>2, <1>3
<1>6. command.kind \in {"seed", "seed_undo"} => command.file \in 1..4
  BY <1>4, <1>5
<1> QED BY <1>1, <1>2, <1>3, <1>5, <1>6

\* The statements of the seeders can all be carried out.
LEMMA SeedPossible ==
    \A f \in 1..4 : \A k \in 1..Len(Seeders[f].up) :
       Core(schema) = Base(21) /\ rows = SeedRows(f) \cup Earlier(Seeders[f].up, k)
       => Possible(Seeders[f].up[k]) /\ Seeders[f].up[k].op = "insert"
<1> SUFFICES ASSUME NEW f \in 1..4, NEW k \in 1..Len(Seeders[f].up), Core(schema) = Base(21),
                    rows = SeedRows(f) \cup Earlier(Seeders[f].up, k)
             PROVE  Possible(Seeders[f].up[k]) /\ Seeders[f].up[k].op = "insert"
  OBVIOUS
<1>s. PICK s : s = Seeders[f].up[k]
  OBVIOUS
<1>1. /\ s.op = "insert" /\ s.object.name \in SeededTables
      /\ s.object.name \notin rows /\ s.object.needs \subseteq rows
  BY <1>s, SeedersFit DEF SeedFits
<1>2. s.object.name \in Names(schema)
  <2>1. PICK o \in Base(21) : o.name = s.object.name
    BY <1>1, SeededTablesAreThere
  <2> QED BY <2>1 DEF Core, Names
<1>3. Possible(s)
  BY <1>1, <1>2 DEF Possible
<1> QED BY <1>s, <1>1, <1>3

LEMMA DeletesSeeded ==
    \A f \in 1..4 : \A k \in 1..Len(Seeders[f].down) :
       Seeders[f].down[k].op = "delete" /\ Seeders[f].down[k].object.name \in SeededTables
<1> DEFINE Deletes(script) == \A k \in 1..Len(script) : script[k].object.name \in SeededTables
<1>0. \A name : BulkDelete(name).object.name = name
  BY DEF BulkDelete, Statement, Object
<1>1. Deletes(SeedUsers.down)
  BY <1>0 DEF SeedUsers, SeededTables
<1>2. Deletes(SeedDriverProfilesVehicles.down)
  <2>1. \A a, b : a.object.name \in SeededTables /\ b.object.name \in SeededTables => Deletes(<<a, b>>)
    OBVIOUS
  <2>2. "vehicles" \in SeededTables /\ "driver_profiles" \in SeededTables
    BY DEF SeededTables
  <2> QED BY <1>0, <2>1, <2>2 DEF SeedDriverProfilesVehicles
<1>3. Deletes(SeedWallets.down)
  BY <1>0 DEF SeedWallets, SeededTables
<1>4. Deletes(SeedRidesOffersRatingsTransactions.down)
  BY <1>0 DEF SeedRidesOffersRatingsTransactions, SeededTables, Each
<1> QED BY <1>1, <1>2, <1>3, <1>4, SeederScripts DEF Seeders, AllDelete

\* The next statement of the same file.
LEMMA StepOn ==
    SchemaInv /\ Execute =>
       /\ command'.kind = command.kind /\ command'.file = command.file
       /\ command'.step = command.step + 1 /\ applied' = applied
       /\ InFile /\ Possible(Current) /\ schema' = After(Current)
<1> SUFFICES ASSUME SchemaInv, Execute
             PROVE  /\ command'.kind = command.kind /\ command'.file = command.file
                    /\ command'.step = command.step + 1 /\ applied' = applied
                    /\ InFile /\ Possible(Current) /\ schema' = After(Current)
  OBVIOUS
<1>1. InFile /\ Possible(Current) /\ schema' = After(Current) /\ applied' = applied
  BY DEF Execute
<1>2. command \in Command /\ command.step + 1 \in Nat
  BY <1>1, AtAStatement
<1>3. PICK n \in Nat : n = command.step + 1 /\ command' = [command EXCEPT !.step = n]
  BY <1>2 DEF Execute
<1> QED BY <1>1, <1>2, <1>3, StatementFollows

LEMMA MigrateExecutes ==
    ASSUME SchemaInv, Placed, Execute, command.kind = "migrate"
    PROVE  Placed'
<1>0. /\ command'.kind = "migrate" /\ command'.file = command.file
      /\ command'.step = command.step + 1 /\ applied' = applied
      /\ InFile /\ Possible(Current) /\ schema' = After(Current)
  BY StepOn
<1>1. PICK f \in 1..21, k \in Nat \ {0} : f = command.file /\ k = command.step
  BY <1>0, AtAStatement
<1>2. PICK n \in Nat : n = Len(Migrations[f].up)
  BY MigrationLengths
<1>3. Script = Migrations[f].up /\ Current = Migrations[f].up[k]
  BY <1>1 DEF Script, Current
<1>4. k <= n
  BY <1>0, <1>1, <1>2, <1>3 DEF InFile
<1>5. f = applied + 1 /\ Core(schema) = UpState(f, k) /\ EnumsPlain(schema)
  BY <1>1 DEF Placed, InPlace
<1>6. k \in 1..Len(Migrations[f].up)
  BY <1>2, <1>4
<1>7. Core(schema') = UpState(f, k + 1) /\ EnumsPlain(schema')
  BY <1>0, <1>3, <1>5, <1>6, UpStep
<1>8. k + 1 <= n + 1 /\ k + 1 \in Nat
  BY <1>4
<1>9. InPlace(command', applied', rows', UpState(f, k + 1))
  BY <1>0, <1>1, <1>2, <1>5, <1>8 DEF InPlace
<1> QED BY <1>7, <1>9 DEF Placed

LEMMA UndoExecutes ==
    ASSUME SchemaInv, Placed, Execute, command.kind \in {"undo", "undo_all"}
    PROVE  Placed'
<1>0. /\ command'.kind \in {"undo", "undo_all"} /\ command'.file = command.file
      /\ command'.step = command.step + 1 /\ applied' = applied
      /\ InFile /\ Possible(Current) /\ schema' = After(Current)
  BY StepOn
<1>1. PICK f \in 1..21, k \in Nat \ {0} : f = command.file /\ k = command.step
  BY <1>0, AtAStatement
<1>2. PICK n \in Nat : n = Len(Migrations[f].down)
  BY MigrationLengths
<1>3. Script = Migrations[f].down /\ Current = Migrations[f].down[k]
  BY <1>1 DEF Script, Current
<1>4. k <= n
  BY <1>0, <1>1, <1>2, <1>3 DEF InFile
<1>5. f = applied /\ Core(schema) = DownState(f, k) /\ EnumsPlain(schema)
  BY <1>1 DEF Placed, InPlace
<1>6. k \in 1..Len(Migrations[f].down)
  BY <1>2, <1>4
<1>7. Core(schema') = DownState(f, k + 1) /\ EnumsPlain(schema')
  BY <1>0, <1>3, <1>5, <1>6, DownStep
<1>8. k + 1 <= n + 1 /\ k + 1 \in Nat
  BY <1>4
<1>9. InPlace(command', applied', rows', DownState(f, k + 1))
  BY <1>0, <1>1, <1>2, <1>5, <1>8 DEF InPlace
<1> QED BY <1>7, <1>9 DEF Placed

LEMMA EarlierGrows ==
    \A script : \A k \in Nat \ {0} :
       Earlier(script, k + 1) = Earlier(script, k) \cup {script[k].object.name}
<1> SUFFICES ASSUME NEW script, NEW k \in Nat \ {0}
             PROVE  Earlier(script, k + 1) = Earlier(script, k) \cup {script[k].object.name}
  OBVIOUS
<1>1. 1..(k + 1 - 1) = 1..(k - 1) \cup {k}
  OBVIOUS
<1> QED BY <1>1 DEF Earlier

LEMMA SeedExecutes ==
    ASSUME SchemaInv, Placed, Execute, command.kind = "seed"
    PROVE  Placed'
<1>0. /\ command'.kind = "seed" /\ command'.file = command.file
      /\ command'.step = command.step + 1 /\ applied' = applied
      /\ InFile /\ Possible(Current) /\ schema' = After(Current)
  BY StepOn
<1>1. PICK f \in 1..4, k \in Nat \ {0} : f = command.file /\ k = command.step
  BY <1>0, AtAStatement
<1>2. PICK n \in Nat : n = Len(Seeders[f].up)
  BY SeederLengths
<1>3. Script = Seeders[f].up /\ Current = Seeders[f].up[k]
  BY <1>1 DEF Script, Current
<1>4. k <= n
  BY <1>0, <1>1, <1>2, <1>3 DEF InFile
<1>5. /\ applied = 21 /\ Core(schema) = Base(21) /\ EnumsPlain(schema)
      /\ rows = SeedRows(f) \cup Earlier(Seeders[f].up, k)
  BY <1>1 DEF Placed, InPlace
<1>6. k \in 1..Len(Seeders[f].up)
  BY <1>2, <1>4
<1>7. Current.op = "insert"
  BY <1>3, <1>5, <1>6, SeedPossible
<1>8. schema' = schema
  BY <1>0, <1>7 DEF After
<1>9. rows' = rows \cup {Current.object.name}
  BY <1>7 DEF Execute
<1>10. rows' = SeedRows(f) \cup Earlier(Seeders[f].up, k + 1)
  BY <1>3, <1>5, <1>9, EarlierGrows
<1>11. k + 1 <= n + 1 /\ k + 1 \in Nat
  BY <1>4
<1>12. InPlace(command', applied', rows', Base(21))
  BY <1>0, <1>1, <1>2, <1>5, <1>10, <1>11 DEF InPlace
<1> QED BY <1>5, <1>8, <1>12 DEF Placed

LEMMA SeedUndoExecutes ==
    ASSUME SchemaInv, Placed, Execute, command.kind = "seed_undo"
    PROVE  Placed'
<1>0. /\ command'.kind = "seed_undo" /\ command'.file = command.file
      /\ command'.step = command.step + 1 /\ applied' = applied
      /\ InFile /\ Possible(Current) /\ schema' = After(Current)
  BY StepOn
<1>1. PICK f \in 1..4, k \in Nat \ {0} : f = command.file /\ k = command.step
  BY <1>0, AtAStatement
<1>2. PICK n \in Nat : n = Len(Seeders[f].down)
  BY SeederLengths
<1>3. Script = Seeders[f].down /\ Current = Seeders[f].down[k]
  BY <1>1 DEF Script, Current
<1>4. k <= n
  BY <1>0, <1>1, <1>2, <1>3 DEF InFile
<1>5. applied = 21 /\ Core(schema) = Base(21) /\ EnumsPlain(schema)
  BY DEF Placed, InPlace
<1>6. k \in 1..Len(Seeders[f].down)
  BY <1>2, <1>4
<1>7. Current.op = "delete"
  BY <1>3, <1>6, DeletesSeeded
<1>8. schema' = schema
  BY <1>0, <1>7 DEF After
<1>9. InPlace(command', applied', rows', Base(21))
  BY <1>0, <1>5, PlaceSeedUndo
<1> QED BY <1>5, <1>8, <1>9 DEF Placed

LEMMA ExecutePlaced == ASSUME SchemaInv, Placed, Execute PROVE Placed'
<1>1. command.kind \in {"migrate", "undo", "undo_all", "seed", "seed_undo"}
  BY StepOn, AtAStatement DEF CommandKinds
<1> QED BY <1>1, MigrateExecutes, UndoExecutes, SeedExecutes, SeedUndoExecutes

\* Of a command that starts where none has failed or died only three statements can fail.
LEMMA FailuresAreKnown ==
    ASSUME SchemaInv, Placed, InFile, ~Possible(Current)
    PROVE  Current.object.name \in Failures
<1>0. /\ command.kind \in CommandKinds \ {"none"} /\ command.step <= Len(Script)
      /\ command.kind \in {"seed", "seed_undo"} => command.file \in 1..4
  BY AtAStatement
<1>1. PICK f \in 1..21, k \in Nat \ {0} : f = command.file /\ k = command.step
  BY AtAStatement
<1>2. CASE command.kind = "migrate"
  <2>1. Script = Migrations[f].up /\ Current = Migrations[f].up[k]
    BY <1>1, <1>2 DEF Script, Current
  <2>2. Len(Migrations[f].up) \in Nat
    BY MigrationLengths
  <2>3. k \in 1..Len(Migrations[f].up)
    BY <1>0, <1>1, <2>1, <2>2
  <2>4. Core(schema) = UpState(f, k) /\ EnumsPlain(schema)
    BY <1>1, <1>2 DEF Placed, InPlace
  <2> QED BY <2>1, <2>3, <2>4, UpPossible
<1>3. CASE command.kind \in {"undo", "undo_all"}
  <2>1. Script = Migrations[f].down /\ Current = Migrations[f].down[k]
    BY <1>1, <1>3 DEF Script, Current
  <2>2. Len(Migrations[f].down) \in Nat
    BY MigrationLengths
  <2>3. k \in 1..Len(Migrations[f].down)
    BY <1>0, <1>1, <2>1, <2>2
  <2>4. Core(schema) = DownState(f, k) /\ EnumsPlain(schema)
    BY <1>1, <1>3 DEF Placed, InPlace
  <2> QED BY <2>1, <2>3, <2>4, DownPossible
<1>4. CASE command.kind = "seed"
  <2>0. f \in 1..4
    BY <1>0, <1>1, <1>4
  <2>1. Script = Seeders[f].up /\ Current = Seeders[f].up[k]
    BY <1>1, <1>4 DEF Script, Current
  <2>2. Len(Seeders[f].up) \in Nat
    BY <2>0, SeederLengths
  <2>3. k \in 1..Len(Seeders[f].up)
    BY <1>0, <1>1, <2>1, <2>2
  <2>4. Core(schema) = Base(21) /\ rows = SeedRows(f) \cup Earlier(Seeders[f].up, k)
    BY <1>1, <1>4 DEF Placed, InPlace
  <2> QED BY <2>0, <2>1, <2>3, <2>4, SeedPossible
<1>5. CASE command.kind = "seed_undo"
  <2>0. f \in 1..4
    BY <1>0, <1>1, <1>5
  <2>1. Script = Seeders[f].down /\ Current = Seeders[f].down[k]
    BY <1>1, <1>5 DEF Script, Current
  <2>2. Len(Seeders[f].down) \in Nat
    BY <2>0, SeederLengths
  <2>3. k \in 1..Len(Seeders[f].down)
    BY <1>0, <1>1, <2>1, <2>2
  <2>4. Core(schema) = Base(21)
    BY <1>5 DEF Placed, InPlace
  <2>5. Current.op = "delete" /\ Current.object.name \in SeededTables
    BY <2>0, <2>1, <2>3, DeletesSeeded
  <2>6. PICK o \in Base(21) : o.name = Current.object.name
    BY <2>5, SeededTablesAreThere
  <2>7. Current.object.name \in Names(schema)
    BY <2>4, <2>6 DEF Core, Names
  <2>8. Possible(Current)
    BY <2>5, <2>7 DEF Possible
  <2> QED BY <2>8
<1> QED BY <1>0, <1>2, <1>3, <1>4, <1>5 DEF CommandKinds

-----------------------------------------------------------------------------
(* Where a command starts and where a file ends *)

LEMMA RunFacts ==
    \A kind, file : Run(kind, file)
       => command'.kind = kind /\ command'.file = file /\ command'.step = 1
BY DEF Run

LEMMA StartPlaced ==
    ASSUME SchemaInv, Placed, Migrate \/ Undo \/ Seed \/ SeedUndo
    PROVE  Placed'
<1>1. Idle /\ UNCHANGED <<schema, applied, rows>>
  BY DEF Migrate, Undo, Seed, SeedUndo
<1>2. PICK a \in 0..21 : a = applied
  BY DEF SchemaInv
<1>3. Core(schema) = Base(a) /\ EnumsPlain(schema)
  BY <1>1, <1>2 DEF Idle, NoCommand, Placed, InPlace
<1>4. \A n \in Nat : 1 <= n + 1
  OBVIOUS
<1>5. CASE Migrate
  <2>1. a \in 0..20 /\ Run("migrate", a + 1)
    BY <1>2, <1>5, FileCounts DEF Migrate
  <2>2. UpState(a + 1, 1) = Base(a)
    <3>1. a + 1 \in 1..21 /\ (a + 1) - 1 = a
      BY <2>1
    <3> QED BY <3>1, UpStarts
  <2>3. 1 <= Len(Migrations[a + 1].up) + 1
    <3>1. a + 1 \in 1..21
      BY <2>1
    <3> QED BY <1>4, <3>1, MigrationLengths
  <2>4. InPlace(command', applied', rows', UpState(a + 1, 1))
    BY <1>1, <1>2, <2>1, <2>3, RunFacts, PlaceUp
  <2> QED BY <1>1, <1>3, <2>2, <2>4 DEF Placed
<1>6. CASE Undo
  <2>1. a \in 1..21 /\ (Run("undo", a) \/ Run("undo_all", a))
    BY <1>2, <1>6 DEF Undo
  <2>2. 1 <= Len(Migrations[a].down) + 1
    BY <1>4, <2>1, MigrationLengths
  <2>3. InPlace(command', applied', rows', DownState(a, 1))
    BY <1>1, <1>2, <2>1, <2>2, RunFacts, PlaceDown
  <2> QED BY <1>1, <1>3, <2>1, <2>3, DownStarts DEF Placed
<1>7. CASE Seed
  <2>1. applied = 21 /\ rows = {} /\ Run("seed", 1)
    BY <1>7, FileCounts DEF Seed
  <2>2. 1 <= Len(Seeders[1].up) + 1
    BY <1>4, SeederLengths
  <2>3. rows = SeedRows(1) \cup Earlier(Seeders[1].up, 1)
    BY <2>1 DEF SeedRows, Earlier
  <2>4. InPlace(command', 21, rows', Base(21))
    BY <1>1, <2>1, <2>2, <2>3, RunFacts, PlaceSeed
  <2> QED BY <1>1, <1>2, <1>3, <2>1, <2>4 DEF Placed
<1>8. CASE SeedUndo
  <2>1. applied = 21 /\ command'.kind = "seed_undo"
    BY <1>8, FileCounts, RunFacts DEF SeedUndo
  <2> QED BY <1>1, <1>2, <1>3, <2>1, PlaceSeedUndo DEF Placed
<1> QED BY <1>5, <1>6, <1>7, <1>8

LEMMA FileDoneFacts ==
    SchemaInv /\ FileDone =>
       /\ command.file \in 1..21 /\ command.step \in Nat /\ command.step > Len(Script)
       /\ command.kind \in {"seed", "seed_undo"} => command.file \in 1..4
BY DEF SchemaInv, CommandIsInAFile, Command, FileDone

LEMMA MigrationRecorded ==
    ASSUME SchemaInv, Placed, Record, command.kind = "migrate"
    PROVE  Placed'
<1>1. PICK f \in 1..21, k \in Nat : f = command.file /\ k = command.step
  BY FileDoneFacts DEF Record
<1>2. /\ applied' = f /\ UNCHANGED <<schema, rows>>
      /\ \/ f < 21 /\ Run("migrate", f + 1)
         \/ f = 21 /\ End
  BY <1>1, FileCounts DEF Record
<1>3. PICK n \in Nat : n = Len(Migrations[f].up)
  BY MigrationLengths
<1>4. k > n
  BY <1>1, <1>3, FileDoneFacts DEF Record, Script
<1>5. k <= n + 1 /\ Core(schema) = UpState(f, k) /\ EnumsPlain(schema)
  BY <1>1, <1>3 DEF Placed, InPlace
<1>6. Core(schema) = Base(f)
  <2>1. k = n + 1
    BY <1>4, <1>5
  <2>2. UpState(f, n + 1) = Base(f)
    BY <1>3, UpEnds
  <2> QED BY <1>5, <2>1, <2>2
<1>7. CASE f < 21 /\ Run("migrate", f + 1)
  <2>1. f \in 0..20 /\ f + 1 \in 1..21 /\ (f + 1) - 1 = f
    BY <1>7
  <2>2. UpState(f + 1, 1) = Base(f)
    BY <2>1, UpStarts
  <2>3. 1 <= Len(Migrations[f + 1].up) + 1
    <3>1. \A m \in Nat : 1 <= m + 1
      OBVIOUS
    <3> QED BY <2>1, <3>1, MigrationLengths
  <2>4. InPlace(command', f, rows', UpState(f + 1, 1))
    BY <1>7, <2>1, <2>3, RunFacts, PlaceUp
  <2> QED BY <1>2, <1>5, <1>6, <2>2, <2>4 DEF Placed
<1>8. CASE f = 21 /\ End
  BY <1>2, <1>5, <1>6, <1>8, PlaceIdle DEF Placed, End
<1> QED BY <1>2, <1>7, <1>8

LEMMA UndoRecorded ==
    ASSUME SchemaInv, Placed, Record, command.kind \in {"undo", "undo_all"}
    PROVE  Placed'
<1>1. PICK f \in 1..21, k \in Nat : f = command.file /\ k = command.step
  BY FileDoneFacts DEF Record
<1>2. /\ applied' = f - 1 /\ UNCHANGED <<schema, rows>>
      /\ \/ f - 1 > 0 /\ Run("undo_all", f - 1)
         \/ End
  BY <1>1 DEF Record
<1>3. PICK n \in Nat : n = Len(Migrations[f].down)
  BY MigrationLengths
<1>4. k > n
  BY <1>1, <1>3, FileDoneFacts DEF Record, Script
<1>5. k <= n + 1 /\ Core(schema) = DownState(f, k) /\ EnumsPlain(schema)
  BY <1>1, <1>3 DEF Placed, InPlace
<1>6. Core(schema) = Base(f - 1)
  <2>1. k = n + 1
    BY <1>4, <1>5
  <2>2. DownState(f, n + 1) = Base(f - 1)
    BY <1>3, DownEnds
  <2> QED BY <1>5, <2>1, <2>2
<1>7. CASE f - 1 > 0 /\ Run("undo_all", f - 1)
  <2>1. f - 1 \in 1..21
    BY <1>7
  <2>2. 1 <= Len(Migrations[f - 1].down) + 1
    <3>1. \A m \in Nat : 1 <= m + 1
      OBVIOUS
    <3> QED BY <2>1, <3>1, MigrationLengths
  <2>3. InPlace(command', f - 1, rows', DownState(f - 1, 1))
    BY <1>7, <2>1, <2>2, RunFacts, PlaceDown
  <2>4. DownState(f - 1, 1) = Base(f - 1)
    BY <2>1, DownStarts
  <2> QED BY <1>2, <1>5, <1>6, <2>3, <2>4 DEF Placed
<1>8. CASE End
  BY <1>2, <1>5, <1>6, <1>8, PlaceIdle DEF Placed, End
<1> QED BY <1>2, <1>7, <1>8

LEMMA SeederDone == ASSUME SchemaInv, Placed, NextSeeder PROVE Placed'
<1>1. PICK f \in 1..4, k \in Nat : f = command.file /\ k = command.step
  BY FileDoneFacts DEF NextSeeder
<1>2. /\ UNCHANGED <<schema, applied, rows>>
      /\ \/ command.kind = "seed" /\ f < 4 /\ Run("seed", f + 1)
         \/ f > 1 /\ Run("seed_undo", f - 1)
         \/ End
  BY <1>1, FileCounts DEF NextSeeder
<1>3. applied = 21 /\ Core(schema) = Base(21) /\ EnumsPlain(schema)
  BY DEF Placed, InPlace, NextSeeder
<1>4. CASE command.kind = "seed" /\ f < 4 /\ Run("seed", f + 1)
  <2>1. PICK n \in Nat : n = Len(Seeders[f].up)
    BY SeederLengths
  <2>2. k > n
    BY <1>1, <1>4, <2>1, FileDoneFacts DEF NextSeeder, Script
  <2>3. k <= n + 1 /\ rows = SeedRows(f) \cup Earlier(Seeders[f].up, k)
    BY <1>1, <1>4, <2>1 DEF Placed, InPlace
  <2>4. f \in 1..3 /\ f + 1 \in 1..4
    BY <1>4
  <2>5. rows = SeedRows(f + 1)
    <3>1. k = n + 1
      BY <2>2, <2>3
    <3> QED BY <2>1, <2>3, <2>4, <3>1, SeederEnds
  <2>6. rows = SeedRows(f + 1) \cup Earlier(Seeders[f + 1].up, 1)
    BY <2>5 DEF Earlier
  <2>7. 1 <= Len(Seeders[f + 1].up) + 1
    <3>1. \A m \in Nat : 1 <= m + 1
      OBVIOUS
    <3> QED BY <2>4, <3>1, SeederLengths
  <2>8. InPlace(command', 21, rows', Base(21))
    BY <1>2, <1>4, <2>4, <2>6, <2>7, RunFacts, PlaceSeed
  <2> QED BY <1>2, <1>3, <2>8 DEF Placed
<1>5. CASE f > 1 /\ Run("seed_undo", f - 1)
  BY <1>2, <1>3, <1>5, RunFacts, PlaceSeedUndo DEF Placed
<1>6. CASE End
  BY <1>2, <1>3, <1>6, PlaceIdle DEF Placed, End
<1> QED BY <1>2, <1>4, <1>5, <1>6

-----------------------------------------------------------------------------
(* Migrating and undoing *)

LEMMA RevInit == SchemaInit => RevInv
<1> SUFFICES ASSUME SchemaInit PROVE RevInv
  OBVIOUS
<1>1. schema = {} /\ applied = 0 /\ command = NoCommand /\ failedAt = "none"
  BY DEF SchemaInit
<1>2. Base(0) = {}
  BY Homes DEF Base
<1>3. Core(schema) = Base(0) /\ EnumsPlain(schema)
  BY <1>1, <1>2 DEF Core, EnumsPlain
<1>4. Placed
  BY <1>1, <1>3, PlaceIdle DEF Placed
<1> QED BY <1>1, <1>4 DEF RevInv

LEMMA RevStep == SchemaInv /\ RevInv /\ [SchemaNext]_schemaVars => RevInv'
<1> SUFFICES ASSUME SchemaInv, RevInv, [SchemaNext]_schemaVars PROVE RevInv'
  OBVIOUS
<1>1. CASE CommandDies
  <2>1. commandDeaths' # 0
    BY <1>1 DEF CommandDies, SchemaInv
  <2> QED BY <2>1 DEF RevInv
<1>2. CASE UNCHANGED schemaVars
  BY <1>2 DEF schemaVars, RevInv, Placed
<1>3. ASSUME commandDeaths' = commandDeaths, failedAt' = failedAt,
             failedAt = "none" /\ Placed => Placed'
      PROVE  RevInv'
  BY <1>3 DEF RevInv
<1>4. CASE Clean \/ ReOffer
  <2>1. Idle /\ UNCHANGED <<schema, applied, command, commandDeaths, failedAt>>
    BY <1>4 DEF Clean, ReOffer
  <2>2. Placed => Placed'
    BY <2>1 DEF Placed, InPlace, Idle, NoCommand
  <2> QED BY <1>3, <2>1, <2>2
<1>5. CASE Migrate \/ Undo \/ Seed \/ SeedUndo
  <2>1. UNCHANGED <<commandDeaths, failedAt>>
    BY <1>5 DEF Migrate, Undo, Seed, SeedUndo
  <2> QED BY <1>3, <1>5, <2>1, StartPlaced
<1>6. CASE Execute
  <2>1. UNCHANGED <<commandDeaths, failedAt>>
    BY <1>6 DEF Execute
  <2> QED BY <1>3, <1>6, <2>1, ExecutePlaced
<1>7. CASE ExecuteFails
  <2>1. commandDeaths' = commandDeaths /\ InFile /\ ~Possible(Current)
    BY <1>7 DEF ExecuteFails
  <2>2. CASE failedAt = "none"
    <3>1. failedAt' = Current.object.name
      BY <1>7, <2>2 DEF ExecuteFails
    <3>2. commandDeaths = 0 => failedAt' \in Failures
      BY <2>1, <2>2, <3>1, FailuresAreKnown DEF RevInv
    <3>3. "none" \notin Failures
      BY DEF Failures, EnumValues, OffersIndex
    <3> QED BY <2>1, <3>2, <3>3 DEF RevInv
  <2>3. CASE failedAt # "none"
    <3>1. failedAt' = failedAt
      BY <1>7, <2>3 DEF ExecuteFails
    <3> QED BY <1>3, <2>1, <2>3, <3>1
  <2> QED BY <2>2, <2>3
<1>8. CASE Record
  <2>1. UNCHANGED <<commandDeaths, failedAt>>
    BY <1>8 DEF Record
  <2>2. command.kind = "migrate" \/ command.kind \in {"undo", "undo_all"}
    BY <1>8 DEF Record
  <2> QED BY <1>3, <1>8, <2>1, <2>2, MigrationRecorded, UndoRecorded
<1>9. CASE NextSeeder
  <2>1. UNCHANGED <<commandDeaths, failedAt>>
    BY <1>9 DEF NextSeeder
  <2> QED BY <1>3, <1>9, <2>1, SeederDone
<1> QED BY <1>1, <1>2, <1>4, <1>5, <1>6, <1>7, <1>8, <1>9 DEF SchemaNext

\* What migrations 1..n make by their statements is what is at home in them.
LEMMA UnmadeIs ==
    \A n \in 0..21 : UNION {Unmade(i) : i \in 1..n} = IF n = 21 THEN {OffersIndex} ELSE {}
<1>1. ASSUME NEW i \in 1..21, NEW name
      PROVE  name \in Unmade(i) <=> (i = 21 /\ name = OffersIndex)
  <2> DEFINE up == Migrations[i].up
  <2>1. DOMAIN up = 1..Len(up)
    BY MigrationScripts DEF IsMigration, AllUp
  <2>2. ASSUME NEW k \in 1..Len(up)
        PROVE  up[k].op = "drop_if_exists" <=> DropsIndex(i, k)
    <3>1. CASE DropsIndex(i, k)
      <4>1. up[k] = DropIfExists(OffersIndex)
        BY <3>1, FilesFit DEF UpFits
      <4>2. DropIfExists(OffersIndex).op = "drop_if_exists"
        BY DEF DropIfExists, Statement
      <4> QED BY <3>1, <4>1, <4>2
    <3>2. CASE ~DropsIndex(i, k)
      BY <3>2, FilesFit DEF UpFits, Fits, Adds
    <3> QED BY <3>1, <3>2
  <2>3. i = 21 => Len(up) = 4 /\ up[3].object.name = OffersIndex
    BY UpDropsIndex, StatementNames
  <2> HIDE DEF up
  <2>4. name \in {s.object.name : s \in {t \in Range(up) : t.op = "drop_if_exists"}}
        <=> \E k \in 1..Len(up) : DropsIndex(i, k) /\ name = up[k].object.name
    BY <2>1, <2>2 DEF Range
  <2>5. (\E k \in 1..Len(up) : DropsIndex(i, k) /\ name = up[k].object.name)
        <=> (i = 21 /\ name = OffersIndex)
    BY <2>3 DEF DropsIndex
  <2> QED BY <2>4, <2>5 DEF Unmade, up
<1>2. ASSUME NEW n \in 0..21, NEW name
      PROVE  (\E i \in 1..n : name \in Unmade(i)) <=> (n = 21 /\ name = OffersIndex)
  <2>1. \A i \in 1..n : i \in 1..21
    OBVIOUS
  <2>2. n = 21 => 21 \in 1..n
    OBVIOUS
  <2>3. \A i \in 1..n : i = 21 => n = 21
    OBVIOUS
  <2> QED BY <1>1, <2>1, <2>2, <2>3
<1>3. \A n \in 0..21 : \A name : name \in UNION {Unmade(i) : i \in 1..n}
                                 <=> (n = 21 /\ name = OffersIndex)
  BY <1>2
<1> QED BY <1>3

LEMMA BaseIsMade == \A n \in 0..21 : Names(Base(n)) = MadeBy[n] \ EnumValues
<1> SUFFICES ASSUME NEW n \in 0..21 PROVE Names(Base(n)) = MadeBy[n] \ EnumValues
  OBVIOUS
<1>1. MadeBy[n] = Names(UNION {Made(i) : i \in 1..n}) \ (IF n = 21 THEN {OffersIndex} ELSE {})
  BY FileCounts, UnmadeIs DEF MadeBy
<1>2. ASSUME NEW o
      PROVE  (o.name \notin EnumValues /\ o \in UNION {Made(i) : i \in 1..n})
             <=> (o \in Core(Objects) /\ Home(o.name) <= n)
  <2>1. ASSUME NEW i \in 1..n, o \in Made(i), o.name \notin EnumValues
        PROVE  o \in Core(Objects) /\ Home(o.name) <= n
    <3>1. i \in 1..21 /\ o \in Core(Made(i))
      BY <2>1 DEF Core
    <3>2. o \in Core(Objects) /\ Home(o.name) = i
      BY <3>1, HomesAreMade
    <3> QED BY <3>2
  <2>2. ASSUME o \in Core(Objects), Home(o.name) <= n
        PROVE  o.name \notin EnumValues /\ \E i \in 1..n : o \in Made(i)
    <3>1. PICK h \in 1..21 : h = Home(o.name) /\ o \in Core(Made(h))
      BY <2>2, Homes
    <3>2. h \in 1..n
      BY <2>2, <3>1
    <3> QED BY <3>1, <3>2 DEF Core
  <2> QED BY <2>1, <2>2
<1>3. ASSUME NEW name
      PROVE  name \in Names(Base(n))
             <=> /\ name \notin EnumValues
                 /\ \E o \in UNION {Made(i) : i \in 1..n} : o.name = name
                 /\ ~(n = 21 /\ name = OffersIndex)
  BY <1>2 DEF Names, Base
<1>4. ASSUME NEW name
      PROVE  name \in MadeBy[n] \ EnumValues
             <=> /\ name \notin EnumValues
                 /\ \E o \in UNION {Made(i) : i \in 1..n} : o.name = name
                 /\ ~(n = 21 /\ name = OffersIndex)
  BY <1>1 DEF Names
<1> QED BY <1>3, <1>4

\* Migrating and undoing in any order, and seeding in between, leaves the schema of the
\* migrations recorded; and the statements that can fail of a command, when none died before,
\* are the two enum values' and the one that makes the offers unique again.
THEOREM MigrationsReverse == SchemaSpec => []MigrationsAreReversible
<1>1. SchemaInv /\ RevInv => MigrationsAreReversible
  <2> SUFFICES ASSUME SchemaInv, RevInv, commandDeaths = 0
               PROVE  /\ failedAt \in EnumValues
                            \cup {"none", "idx_ride_offers_ride_driver_unique"}
                      /\ Idle /\ failedAt = "none" =>
                            Names(schema) \ EnumValues = MadeBy[applied] \ EnumValues
    BY DEF MigrationsAreReversible
  <2>1. failedAt \in EnumValues \cup {"none", "idx_ride_offers_ride_driver_unique"}
    BY DEF RevInv, Failures, OffersIndex
  <2>2. ASSUME Idle, failedAt = "none"
        PROVE  Names(schema) \ EnumValues = MadeBy[applied] \ EnumValues
    <3>1. Core(schema) = Base(applied)
      BY <2>2 DEF RevInv, Placed, InPlace, Idle, NoCommand
    <3>2. Names(schema) \ EnumValues = Names(Core(schema))
      BY DEF Names, Core
    <3>3. applied \in 0..21
      BY DEF SchemaInv
    <3> QED BY <3>1, <3>2, <3>3, BaseIsMade
  <2> QED BY <2>1, <2>2
<1> QED BY <1>1, SchemaInitInv, SchemaStepInv, RevInit, RevStep, PTL DEF SchemaSpec
=============================================================================
