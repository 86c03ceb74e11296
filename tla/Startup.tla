------------------------------ MODULE Startup ------------------------------
(***************************************************************************)
(* What a container does before its server answers (scripts/start.sh):     *)
(* pre_migrate.py, "alembic upgrade head", the seed, then uvicorn, whose   *)
(* lifespan calls init_db.  Every step is followed by "|| echo ...         *)
(* continuing".  Containers of a deployment start together, beside servers *)
(* of earlier ones; a container that dies is started again by ECS.         *)
(*                                                                         *)
(* The seed itself is SeedUkf: a container moves the run of its own slot.  *)
(* PostgreSQL's DDL is transactional and migrations/env.py upgrades in one *)
(* transaction, so an upgrade is a look at alembic_version and one commit. *)
(***************************************************************************)
EXTENDS SeedUkf

\* What the migrations create: table users; the four tables of the catalogue
\* and, on users, the columns of a scope; table ai_usage.
Creates == <<{"users"}, {"college", "columns"}, {"usage"}>>
Head == 3
Upto(v) == UNION {Creates[i] : i \in 1 .. v}

VARIABLES
    production,  \* whether the environment says so (never changes)
    schema,      \* what there is of the tables
    version,     \* the migration that alembic_version names, 0 if none
    stray,       \* whether alembic_version has the row of pre_migrate.py
    stage,       \* how far each container is with start.sh
    heads,       \* the version its upgrade has read
    calm         \* from now on nothing fails and no HOD creates departments

bootVars == <<production, schema, version, stray, stage, heads, calm>>

BootTypeOK ==
    /\ TypeOK
    /\ {production, stray, calm} \subseteq BOOLEAN
    /\ schema \subseteq Upto(Head)
    /\ version \in 0 .. Head
    /\ stage \in [Runs -> {"down", "preMigrate", "heads", "upgrade", "seed", "seeding",
                           "server", "serving"}]
    /\ heads \in [Runs -> 0 .. Head]
    /\ \A p \in Runs : /\ stage[p] = "seeding" <=> Running(p)
                       /\ stage[p] \in {"down", "preMigrate", "heads", "upgrade", "seed"} =>
                             pc[p] = "down"

\* Any earlier version, upgraded by alembic with or without pre_migrate.py since,
\* or tables that init_db created.
BootInit ==
    /\ Init
    /\ production \in BOOLEAN
    /\ stray \in BOOLEAN
    /\ version \in 0 .. Head
    /\ \/ schema = Upto(version)
       \/ ~production /\ version = 0 /\ schema = Upto(Head)
    /\ college => "college" \in schema
    /\ stage = [p \in Runs |-> "down"]
    /\ heads = [p \in Runs |-> 0]
    /\ calm \in BOOLEAN

----------------------------------------------------------------------------

Enter(p, next) == stage' = [stage EXCEPT ![p] = next]

Boot(p) ==
    /\ stage[p] = "down"
    /\ Enter(p, "preMigrate")
    /\ UNCHANGED <<vars, production, schema, version, stray, heads, calm>>

\* Inserts a revision that is none of the repository's.  It fails without
\* database, and always if DATABASE_URL is of the form postgresql+asyncpg://.
PreMigrate(p) ==
    /\ stage[p] = "preMigrate"
    /\ stray' \in {stray, TRUE}
    /\ Enter(p, "heads")
    /\ UNCHANGED <<vars, production, schema, version, heads, calm>>

\* Mutant of ReadHeads: start.sh without "|| echo", under set -e.
ReadHeadsOrExit(p) ==
    /\ stage[p] = "heads"
    /\ heads' = [heads EXCEPT ![p] = version]
    /\ Enter(p, IF stray THEN "down" ELSE "upgrade")
    /\ UNCHANGED <<vars, production, schema, version, stray, calm>>

\* alembic gives up on a revision that it cannot locate.
ReadHeads(p) ==
    /\ stage[p] = "heads"
    /\ \/ ~stray /\ Enter(p, "upgrade") /\ heads' = [heads EXCEPT ![p] = version]
       \/ (stray \/ ~calm) /\ Enter(p, "seed") /\ UNCHANGED heads
    /\ UNCHANGED <<vars, production, schema, version, stray, calm>>

\* Mutant of Upgrade: the version is stamped, whatever became of the tables.
UpgradeStamps(p) ==
    /\ stage[p] = "upgrade"
    /\ schema' \in {schema, schema \cup (Upto(Head) \ Upto(heads[p]))}
    /\ version' = Head
    /\ Enter(p, "seed")
    /\ UNCHANGED <<vars, production, stray, heads, calm>>

\* The missing migrations, unless one of their tables is there by now.
Upgrade(p) ==
    /\ stage[p] = "upgrade"
    /\ LET missing == Upto(Head) \ Upto(heads[p])
       IN  \/ /\ missing \cap schema = {}
              /\ schema' = schema \cup missing
              /\ version' = Head
           \/ /\ missing \cap schema # {} \/ ~calm
              /\ UNCHANGED <<schema, version>>
    /\ Enter(p, "seed")
    /\ heads' = [heads EXCEPT ![p] = 0]
    /\ UNCHANGED <<vars, production, stray, calm>>

\* The run of the seed, which fails at once where there is no catalogue.
Seed(p) ==
    /\ stage[p] = "seed"
    /\ \/ "college" \in schema /\ Start(p) /\ Enter(p, "seeding")
       \/ "college" \notin schema /\ UNCHANGED vars /\ Enter(p, "server")
    /\ UNCHANGED <<production, schema, version, stray, heads, calm>>

\* One step of the run, or its end by an exception, after which bash goes on.
Seeding(p) ==
    /\ stage[p] = "seeding"
    /\ Step(p) \/ (~calm /\ Abort(p))
    /\ Enter(p, IF Running(p)' THEN "seeding" ELSE "server")
    /\ UNCHANGED <<production, schema, version, stray, heads, calm>>

\* init_db: create_all adds the tables that are missing, but no column to a
\* table that exists.  uvicorn restarts a worker in which it fails.
Serve(p) ==
    /\ stage[p] = "server"
    /\ schema' = IF production THEN schema
                 ELSE schema \cup (IF "users" \in schema THEN {"college", "usage"}
                                   ELSE Upto(Head))
    /\ Enter(p, "serving")
    /\ UNCHANGED <<vars, production, version, stray, heads, calm>>

Die(p) ==
    /\ ~calm
    /\ stage[p] # "down"
    /\ Enter(p, "down")
    /\ heads' = [heads EXCEPT ![p] = 0]
    /\ Crash(p)
    /\ UNCHANGED <<production, schema, version, stray, calm>>

\* Requests to servers of this deployment or of an earlier one; each of them
\* loads its user first.
Handle ==
    /\ {"users", "college", "columns"} \subseteq schema
    /\ \/ \E s \in Slugs : ~calm /\ HodCreatesDepartment(s)
       \/ \E s \in Slugs, y \in Years : AssignmentEnsuresGroup(s, y)
    /\ UNCHANGED bootVars

Settle == ~calm /\ calm' = TRUE /\ UNCHANGED <<vars, production, schema, version, stray, stage, heads>>

Container(p) ==
    \/ Boot(p) \/ PreMigrate(p) \/ ReadHeads(p) \/ Upgrade(p) \/ Seed(p) \/ Seeding(p) \/ Serve(p)

BootNext == (\E p \in Runs : Container(p) \/ Die(p)) \/ Handle \/ Settle

\* bash goes on to the next line, ECS starts a container that is down.
BootSpec ==
    /\ BootInit /\ [][BootNext]_<<vars, bootVars>>
    /\ \A p \in Runs : WF_<<vars, bootVars>>(Container(p))

----------------------------------------------------------------------------

\* Containers that upgrade at once, fail and start again never leave
\* alembic_version ahead of the tables; in production, where init_db does
\* nothing, the tables are always those of that version, none half migrated.
SchemaMatchesVersion ==
    /\ Upto(version) \subseteq schema
    /\ production => schema = Upto(version)

\* Whatever fails on the way, start.sh reaches the server: once nothing more
\* dies, every container serves.
EveryContainerServes == calm ~> \A p \in Runs : stage[p] = "serving"

\* Runs of the seed kill each other by IntegrityError, as do requests of HODs,
\* and a container does not repeat its run.  Yet if a container has its run
\* before it when things settle, and the tables are there, a run completes.
SomeRunCompletes ==
    (calm /\ "college" \in schema /\ \E p \in Runs : stage[p] \notin {"seeding", "server", "serving"})
        ~> (\E p \in Runs : pc[p] \in {"done", "skipped"})

\* "alembic upgrade head": a server that answers has all the tables.
ServesOnHead == \A p \in Runs : stage[p] = "serving" => schema = Upto(Head)
=============================================================================
