----------------------------- MODULE Deployment -----------------------------
(***************************************************************************)
(* Where Seed runs: the containers of deploy/compose.yml, the image whose  *)
(* command applies the migrations before it starts the API, the first boot *)
(* of Postgres and the role it makes, and the nightly script that wipes    *)
(* the demo and seeds it anew.  Containers stop and restart at any point,  *)
(* another image is deployed or rolled back to beside anything else, and   *)
(* the script may be stopped between any two of its commands.              *)
(***************************************************************************)
EXTENDS Seed

CONSTANT Images  \* the number of images that were released; image i carries
                 \* the migrations up to i, the first one those of drizzle/

ASSUME ImagesAssumption == Images \in Nat \ {0}

VARIABLES
  db,      \* what the volume holds, and is Postgres up?
  api,     \* the API container: where its command is, and its image
  script   \* demo-reset.sh: the command it is at, and the seed it started

deployVars == <<accounts, journal, reversed, runs, db, api, script>>

EmptyVolume == [init |-> "none", role |-> "none", schema |-> 0, up |-> FALSE]

NoContainer == [at |-> "absent", image |-> 0]

At(stage, run) == [at |-> stage, run |-> run]

DeployInit ==
  /\ Init
  /\ db = EmptyVolume
  /\ api = NoContainer
  /\ script = At("idle", None)

ApiUp == api.at \in {"migrate", "serve"}

-----------------------------------------------------------------------------
(* Postgres and the API                                                     *)

\* The entrypoint runs initdb, creates the database and runs 10-app-role.sh,
\* only on an empty volume: a stop on the way leaves the rest undone for good.
FirstBoots ==
  {[EmptyVolume EXCEPT !.init = i] : i \in {"cluster", "database"}} \cup
  {[EmptyVolume EXCEPT !.init = "database", !.role = "login", !.up = TRUE]}

PostgresStart ==
  /\ ~db.up
  /\ api.at # "absent"
  /\ IF db.init = "none" THEN db' \in FirstBoots ELSE db' = [db EXCEPT !.up = TRUE]
  /\ UNCHANGED <<vars, api, script>>

PostgresStop ==
  /\ db.up
  /\ db' = [db EXCEPT !.up = FALSE]
  /\ UNCHANGED <<vars, api, script>>

\* docker compose up: another tag recreates the container, and what ran in it
\* is killed.
Up(image) == api' = [at |-> "down", image |-> image]

Deploy(image) ==
  /\ api.image # image
  /\ Up(image)
  /\ UNCHANGED <<vars, db, script>>

\* restart: unless-stopped, whether Postgres is up or not, once the processes
\* of the container's last life are gone.
ApiStart ==
  /\ api.at = "down"
  /\ \A r \in Runs : runs[r].at \notin Running
  /\ api' = [api EXCEPT !.at = "migrate"]
  /\ UNCHANGED <<vars, db, script>>

\* All pending migrations in one transaction; those of an older image are no
\* longer pending.  The role that is not there is made without LOGIN.
Migrated(d) ==
  [d EXCEPT !.schema = IF api.image > @ THEN api.image ELSE @,
            !.role = IF @ = "none" THEN "nologin" ELSE @]

CanMigrate == db.up /\ db.init = "database"

\* Faulty variant: `node dist/migrate.js ; node dist/main.js`.
MigrateIfPossible ==
  /\ api.at = "migrate"
  /\ db' = IF CanMigrate THEN Migrated(db) ELSE db
  /\ api' = [api EXCEPT !.at = "serve"]
  /\ UNCHANGED <<vars, script>>

\* migrate.js as the owner of the tables and, if it succeeds, main.js.
MigrateAndServe ==
  /\ api.at = "migrate"
  /\ CanMigrate
  /\ db' = Migrated(db)
  /\ api' = [api EXCEPT !.at = "serve"]
  /\ UNCHANGED <<vars, script>>

\* The migrations fail, or the process dies: also of the error of an idle
\* connection when Postgres goes, which nothing listens to.
ApiStop ==
  /\ ApiUp
  /\ api' = [api EXCEPT !.at = "down"]
  /\ UNCHANGED <<vars, db, script>>

\* The runtime role can log in and finds tables and grants.
CanQuery == db.up /\ db.role = "login" /\ db.schema > 0

\* GET /ready, the health check of the container: SELECT 1 as miniledger_app.
Ready == api.at = "serve" /\ db.up /\ db.role = "login"

-----------------------------------------------------------------------------
(* Seeds run in the API container, owners come through the API              *)

SeedStep ==
  \E r \in Runs :
    \/ \E owner \in Owners : ApiUp /\ Start(r, owner)
    \/ /\ ApiUp /\ CanQuery
       /\ Check(r) \/ Open(r) \/ Post(r) \/ Conflict(r) \/ Reverse(r)
    \/ Stop(r)

Users ==
  /\ \/ SeedStep
     \/ Ready /\ \E owner \in Owners : OwnerOpens(owner)
  /\ UNCHANGED <<db, api, script>>

-----------------------------------------------------------------------------
(* demo-reset.sh                                                            *)

ResetSteps == {"down", "up", "wait", "login", "seed"}

\* docker compose down --volumes: the containers, and what runs in them ...
ResetContainers ==
  /\ script.at \notin ResetSteps
  /\ api' = NoContainer
  /\ db' = [db EXCEPT !.up = FALSE]
  /\ script' = At("down", None)
  /\ UNCHANGED vars

\* ... then the volume, which no container may use.
ResetVolume ==
  /\ script.at = "down"
  /\ api.at = "absent"
  /\ Reset
  /\ db' = EmptyVolume
  /\ script' = At("up", None)
  /\ UNCHANGED api

\* docker compose up -d --wait
ResetUp(image) ==
  /\ script.at = "up"
  /\ IF api.image = image THEN UNCHANGED api ELSE Up(image)
  /\ script' = At("wait", None)
  /\ UNCHANGED <<vars, db>>

ResetWait ==
  /\ script.at = "wait"
  /\ Ready
  /\ script' = At("login", None)
  /\ UNCHANGED <<vars, db, api>>

\* The subject comes from AccessCore, and the seed starts for it.
ResetSeed(r, subject) ==
  /\ script.at = "login"
  /\ ApiUp
  /\ Start(r, subject)
  /\ script' = At("seed", r)
  /\ UNCHANGED <<db, api>>

\* Faulty variant: no `set -e`.
ReportAnyway ==
  /\ script.at = "seed"
  /\ runs[script.run].at \notin Running
  /\ script' = At("reported", script.run)
  /\ UNCHANGED <<vars, db, api>>

\* "miniledger wiped and reseeded", once the seed has exited with 0.
ResetReport ==
  /\ script.at = "seed"
  /\ runs[script.run].at \in {"applied", "already"}
  /\ script' = At("reported", script.run)
  /\ UNCHANGED <<vars, db, api>>

\* set -e: a command fails, the wait times out, or the script is stopped.
ResetAbort ==
  /\ script.at \in ResetSteps
  /\ script' = At("aborted", None)
  /\ UNCHANGED <<vars, db, api>>

ResetScript ==
  \/ ResetContainers \/ ResetVolume \/ ResetWait \/ ResetReport \/ ResetAbort
  \/ \E image \in 1..Images : ResetUp(image)
  \/ \E r \in Runs, subject \in Owners : ResetSeed(r, subject)

DeployNext ==
  \/ PostgresStart \/ PostgresStop
  \/ \E image \in 1..Images : Deploy(image)
  \/ ApiStart \/ MigrateAndServe \/ ApiStop
  \/ Users
  \/ ResetScript

DeploySpec == DeployInit /\ [][DeployNext]_deployVars

-----------------------------------------------------------------------------

\* The health check asks only for SELECT 1; still no API passes it before the
\* migrations of its own image are in the schema, whatever was interrupted,
\* redeployed, rolled back or wiped.
ServesMigrated == Ready => db.schema >= api.image

\* A script that reported a reseed has applied all of the history, unless
\* somebody else opened an account of the owner between its two commands: the
\* seed then takes that account for a seed, and the script the seed's word.
ReportedIsReseeded ==
  script.at = "reported" =>
    \/ Applied(script.run)
    \/ \E a \in accounts : /\ a.owner = runs[script.run].owner
                           /\ a.run # script.run
=============================================================================
