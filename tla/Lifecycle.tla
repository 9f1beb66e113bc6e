----------------------------- MODULE Lifecycle -----------------------------
(***************************************************************************)
(* The life of a proxy process with the semantic cache enabled             *)
(* (flask_app.py): create_app builds the runner, the engine and the Qdrant *)
(* client and bootstraps the stores within a timeout; without success it   *)
(* gives all of them back and serves without a cache.  At exit the         *)
(* resource bundle is closed while requests may still be running.          *)
(*                                                                         *)
(* The main thread calls run and close of AsyncRunner; the other callers   *)
(* are the threads that serve requests.                                    *)
(***************************************************************************)
EXTENDS AsyncRunner

CONSTANT
  Main        \* the thread that creates the app and closes it at exit

ASSUME MainAssumption == Main \in Caller

VARIABLES
  main,        \* where the main thread stands
  service,     \* cache_service is not None
  engine,      \* the SQLAlchemy engine
  qdrant,      \* the Qdrant client
  http,        \* the httpx client
  ensure,      \* where the bootstrap of the stores stands
  postgres,    \* the backend of the DSN is Postgres
  schema,      \* the database holds no table, the cache_entry table, or all of them
  collection   \* the collection exists in Qdrant

resourceVars == <<service, engine, qdrant, http>>
storeVars == <<ensure, postgres, schema, collection>>
lifeVars == <<main, resourceVars, storeVars>>
lifecycleVars == <<runnerVars, lifeVars>>

MainState == {"start", "boot", "booting", "dispose", "disposing", "abandon", "serve",
              "exitHttp", "exitDispose", "exitDisposing", "exitQdrant", "exitClose",
              "exited", "failed"}

BootStage == {"no", "tables", "createTables",       \* create_all, on the event loop
              "migrations", "upgrade", "migrated",  \* upgrade_head, in a thread
              "ask", "create", "ready",             \* _ensure_collection_sync, in a thread
              "failed"}

Schema == {"none", "tables", "head"}

\* The variables keep their types.
LifecycleTypeOK ==
  /\ RunnerTypeOK
  /\ main \in MainState
  /\ service \in BOOLEAN
  /\ {engine, qdrant, http} \subseteq {"none", "open", "closed"}
  /\ ensure \in BootStage
  /\ postgres \in BOOLEAN
  /\ schema \in Schema
  /\ collection \in BOOLEAN

LifecycleInit ==
  /\ RunnerInit
  /\ main = "start"
  /\ service = FALSE
  /\ engine = "none" /\ qdrant = "none" /\ http = "none"
  /\ ensure = "no"
  /\ postgres \in BOOLEAN
  /\ schema \in IF postgres THEN Schema ELSE {"none", "head"}
  /\ collection \in BOOLEAN

Alive == main \notin {"exited", "failed"}

-----------------------------------------------------------------------------
(* create_app *)

Serve(withCache) ==
  /\ main' = "serve"
  /\ service' = withCache
  /\ http' = "open"

\* A missing DSN or URL; or the two clients and the service, whose constructor may raise
\* outside of any try; then the bootstrap, unless it is switched off.
Configure ==
  /\ main = "start"
  /\ \/ main' = "abandon" /\ UNCHANGED resourceVars
     \/ /\ engine' = "open" /\ qdrant' = "open"
        /\ \/ main' \in {"boot", "failed"} /\ UNCHANGED <<service, http>>
           \/ Serve(TRUE)
  /\ UNCHANGED <<runnerVars, storeVars>>

\* The main thread calls run, of the bootstrap or of engine.dispose.
MainRuns ==
  /\ Check(Main)
  /\ \/ main = "boot" /\ main' = "booting"
     \/ main = "dispose" /\ main' = "disposing"
     \/ main = "exitDispose" /\ main' = "exitDisposing"
  /\ UNCHANGED <<resourceVars, storeVars>>

Returned(o) == call[Main] = "out" /\ outcome[Main] = o

\* The stores are ready; or an error or the timeout, and the engine is disposed of.
BootReturns ==
  /\ main = "booting"
  /\ \/ Returned("result") /\ Serve(TRUE)
     \/ Returned("error") /\ main' = "dispose" /\ UNCHANGED <<service, http>>
  /\ UNCHANGED <<runnerVars, engine, qdrant, storeVars>>

\* Mutant: nobody closes the runner of a cache that is given up.
DisposeReturnsToServe ==
  /\ main = "disposing"
  /\ Returned("result")
  /\ engine' = "closed" /\ qdrant' = "closed"
  /\ Serve(FALSE)
  /\ UNCHANGED <<runnerVars, storeVars>>

\* The client is closed next; what the disposal raises ends create_app.
DisposeReturns ==
  /\ main = "disposing"
  /\ \/ Returned("result") /\ engine' = "closed" /\ qdrant' = "closed" /\ main' = "abandon"
     \/ Returned("error") /\ main' = "failed" /\ UNCHANGED <<engine, qdrant>>
  /\ UNCHANGED <<runnerVars, service, http, storeVars>>

\* The runner is closed, and the app serves without a cache.
Abandon ==
  /\ main = "abandon"
  /\ \/ (CloseFlag \/ CloseStop) /\ UNCHANGED <<main, resourceVars>>
     \/ CloseJoin /\ Serve(FALSE) /\ UNCHANGED <<engine, qdrant>>
  /\ UNCHANGED storeVars

-----------------------------------------------------------------------------
(* _ResourceBundle.close, at exit *)

Exit ==
  /\ main = "serve"
  /\ main' = "exitHttp"
  /\ UNCHANGED <<runnerVars, resourceVars, storeVars>>

\* Mutant: the engine is left to the garbage collector.
CloseHttpOnly ==
  /\ main = "exitHttp"
  /\ http' = "closed"
  /\ main' = IF service THEN "exitQdrant" ELSE "exited"
  /\ UNCHANGED <<runnerVars, service, engine, qdrant, storeVars>>

\* Without a cache the bundle holds nothing else.
CloseHttp ==
  /\ main = "exitHttp"
  /\ http' = "closed"
  /\ main' = IF service THEN "exitDispose" ELSE "exited"
  /\ UNCHANGED <<runnerVars, service, engine, qdrant, storeVars>>

\* What the disposal raises is logged.
ExitDisposed ==
  /\ main = "exitDisposing"
  /\ \/ Returned("result") /\ engine' = "closed"
     \/ Returned("error") /\ UNCHANGED engine
  /\ main' = "exitQdrant"
  /\ UNCHANGED <<runnerVars, service, qdrant, http, storeVars>>

CloseQdrant ==
  /\ main = "exitQdrant"
  /\ qdrant' = "closed"
  /\ main' = "exitClose"
  /\ UNCHANGED <<runnerVars, service, engine, http, storeVars>>

CloseRunner ==
  /\ main = "exitClose"
  /\ \/ (CloseFlag \/ CloseStop) /\ UNCHANGED main
     \/ CloseJoin /\ main' = "exited"
  /\ UNCHANGED <<resourceVars, storeVars>>

MainStep ==
  \/ Configure \/ MainRuns \/ BootReturns \/ DisposeReturns \/ Abandon
  \/ CloseHttp \/ ExitDisposed \/ CloseQdrant \/ CloseRunner

-----------------------------------------------------------------------------
(* The bootstrap of the stores, and the other threads *)

Stage(from, to) == ensure = from /\ ensure' = to

\* bootstrap goes on only while run waits for it; a thread it has started goes on
\* whatever becomes of it.
Bootstrapping == main = "booting" /\ call[Main] = "suspended"

\* create_schema: create_all asks for the tables, and creates the missing ones in the
\* same transaction: cache_entry alone on Postgres, else all of them.
CreateAll ==
  /\ Bootstrapping
  /\ \/ Stage("no", "tables") /\ UNCHANGED schema
     \/ /\ schema # "none" /\ UNCHANGED schema
        /\ Stage("tables", IF postgres THEN "migrations" ELSE "migrated")
     \/ schema = "none" /\ Stage("tables", "createTables") /\ UNCHANGED schema
     \/ /\ schema = "none"
        /\ IF postgres THEN schema' = "tables" /\ Stage("createTables", "migrations")
           ELSE schema' = "head" /\ Stage("createTables", "migrated")
  /\ UNCHANGED <<postgres, collection>>

\* upgrade_head, in a thread: a database below the head revision gets the three other
\* tables in one transaction.
Upgrade ==
  /\ \/ schema = "head" /\ Stage("migrations", "migrated") /\ UNCHANGED schema
     \/ schema = "tables" /\ Stage("migrations", "upgrade") /\ UNCHANGED schema
     \/ schema = "tables" /\ schema' = "head" /\ Stage("upgrade", "migrated")
  /\ UNCHANGED <<postgres, collection>>

\* Mutant: the collection is taken care of before the schema.
EnsureBeginsEarly ==
  /\ Bootstrapping
  /\ Stage("tables", "ask")
  /\ UNCHANGED <<postgres, schema, collection>>

\* ensure_collection, in another thread, once the schema is there.
EnsureBegins ==
  /\ Bootstrapping
  /\ Stage("migrated", "ask")
  /\ UNCHANGED <<postgres, schema, collection>>

\* An existing collection is validated, a missing one created, with an open client.
EnsureCollection ==
  /\ qdrant = "open"
  /\ \/ collection /\ Stage("ask", "ready") /\ UNCHANGED collection
     \/ ~collection /\ Stage("ask", "create") /\ UNCHANGED collection
     \/ ~collection /\ collection' = TRUE /\ Stage("create", "ready")
  /\ UNCHANGED <<postgres, schema>>

\* Any call may raise: a lost connection, a closed client, a collection of another shape,
\* or a table, revision or collection that another process has created in between.
EnsureFails ==
  /\ ensure \notin {"no", "ready", "failed"}
  /\ ensure' = "failed"
  /\ UNCHANGED <<postgres, schema, collection>>

EnsureStep == CreateAll \/ Upgrade \/ EnsureBegins \/ EnsureCollection \/ EnsureFails

\* Another process of the deployment bootstraps the same stores.
OtherProcess ==
  /\ \/ /\ schema = "none" /\ UNCHANGED collection
        /\ schema' = IF postgres THEN "tables" ELSE "head"
     \/ schema = "tables" /\ schema' = "head" /\ UNCHANGED collection
     \/ schema = "head" /\ ~collection /\ collection' = TRUE /\ UNCHANGED schema
  /\ UNCHANGED <<ensure, postgres>>

\* A bootstrap has a result when its thread has; it has an error at any time, for the
\* timeout may end it.
BootAwaits == main = "booting" /\ outcome'[Main] = "result" => ensure = "ready"

\* A thread of a request, while the app has a cache.
RequestRuns(c) == c # Main /\ service /\ Check(c)

RunnerStep ==
  /\ \/ LoopStep /\ BootAwaits
     \/ \E c \in Caller : Submit(c) \/ Wake(c) \/ RequestRuns(c)
  /\ UNCHANGED lifeVars

LifecycleNext ==
  /\ Alive
  /\ \/ MainStep
     \/ Exit
     \/ RunnerStep
     \/ (EnsureStep \/ OtherProcess) /\ UNCHANGED <<runnerVars, main, resourceVars>>

LifecycleSpec ==
  /\ LifecycleInit /\ [][LifecycleNext]_lifecycleVars
  /\ WF_lifecycleVars(Alive /\ MainStep)
  /\ WF_lifecycleVars(Alive /\ LoopStep /\ BootAwaits /\ UNCHANGED lifeVars)
  /\ \A c \in Caller :
       WF_lifecycleVars(Alive /\ (Submit(c) \/ Wake(c)) /\ UNCHANGED lifeVars)

-----------------------------------------------------------------------------
\* A proxy that serves with a cache after a bootstrap has every table and its collection,
\* whichever of several processes has created them and whatever the timeout cut off.
CachedMeansReady ==
  main = "serve" /\ service /\ outcome[Main] # "none" => schema = "head" /\ collection

\* How far the bootstrap has come, and what the stores hold by then: wherever it is cut
\* off, it has asked for the collection only beside a complete schema.
StoresInv ==
  /\ ~postgres => schema # "tables"
  /\ ensure \in {"migrations", "upgrade"} => postgres /\ schema # "none"
  /\ ensure \in {"migrated", "ask", "create", "ready"} => schema = "head"
  /\ ensure = "ready" => collection

\* The main thread calls close alone, after everything it runs has returned.
MainInv ==
  /\ call[Main] # "out" => main \in {"booting", "disposing", "exitDisposing"}
  /\ closer # "open" =>
       main \in {"abandon", "exitClose", "exited"} \/ (~service /\ main \in {"serve", "exitHttp"})
  /\ main = "start" => outcome[Main] = "none"
  /\ main = "booting" /\ outcome[Main] = "result" => ensure = "ready"

\* What is open, from phase to phase.
ResourceInv ==
  /\ main = "start" => engine = "none" /\ qdrant = "none"
  /\ main \in {"boot", "booting", "dispose", "disposing"} => engine = "open" /\ qdrant = "open"
  /\ main \in {"start", "boot", "booting", "dispose", "disposing", "abandon", "failed"} => ~service
  /\ main = "abandon" => engine # "open" /\ qdrant # "open"
  /\ main \in {"serve", "exitHttp"} /\ service => engine = "open" /\ qdrant = "open"
  /\ main \in {"serve", "exitHttp"} /\ ~service =>
       engine # "open" /\ qdrant # "open" /\ closer = "closed"
  /\ main \in {"exitDispose", "exitDisposing", "exitQdrant", "exitClose", "exited"} =>
       http = "closed"
  /\ main \in {"exitQdrant", "exitClose", "exited"} /\ engine = "open" => outcome[Main] = "error"
  /\ main \in {"exitClose", "exited"} => qdrant # "open"
  /\ main = "exited" => loop = "closed"

\* What holds between any two steps of the process.
LifecycleInv ==
  LifecycleTypeOK /\ RunnerInv /\ StoresInv /\ MainInv /\ ResourceInv /\ CachedMeansReady

\* A proxy without a cache holds nothing of one: no engine, no client, no loop.
DegradedHoldsNothing ==
  main = "serve" /\ ~service =>
    /\ engine # "open" /\ qdrant # "open"
    /\ loop = "closed"

\* At exit all is closed, in an order that lets the engine be disposed of on the loop;
\* an engine is left open only when its disposal raised an error of its own.
ExitReleasesAll ==
  main = "exited" =>
    /\ http = "closed" /\ qdrant # "open" /\ loop = "closed"
    /\ engine = "open" => outcome[Main] = "error"

\* The start and the exit come to an end, though the calls of requests race with the
\* loop's end.
StartEnds == main = "start" ~> main \in {"serve", "failed"}
ExitEnds == main = "exitHttp" ~> main = "exited"

=============================================================================
