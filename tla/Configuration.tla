---------------------------- MODULE Configuration ----------------------------
(***************************************************************************)
(* Platform credentials, models and the concurrency of the workers: rows   *)
(* of the database that administrators save, the objects in memory that    *)
(* are built from them, and the worker that is started as soon as there    *)
(* are a model and a platform.                                             *)
(*                                                                         *)
(* A save commits, then rebuilds the registry one platform at a time, then *)
(* tries to start the worker; saves of several administrators overlap.     *)
(* The start of the program runs the same steps as one more client.        *)
(***************************************************************************)
EXTENDS Integers, Sequences, FiniteSets

CONSTANTS
  Providers,   \* SUPPORTED_PROVIDERS, in their order
  Models,      \* ids of model rows, numbers
  Secrets,     \* what an administrator may type for a token or a key
  Forms,       \* what administrators fill in: [typed, on]
  Priorities,  \* numbers
  Limits,      \* values of the concurrency setting
  Default,     \* max_concurrent_reviews
  Admins,      \* requests in flight at a time
  None, Masked,
  MaxSaves, MaxFaults, MaxStarts   \* bounds

Empty == "no_secret"
Main  == "main"
Savers == Admins \cup {Main}
Platforms == {Providers[i] : i \in DOMAIN Providers}
Typed == Secrets \cup {Masked}     \* what the field of a form may hold
Kept  == Secrets \cup {Empty}      \* what a row may hold
ForgeRow == [on : BOOLEAN, token : Kept]
ModelRow == [on : BOOLEAN, priority : Priorities, key : Kept]

ConfigurationAssumption ==
  /\ Providers \in Seq(STRING) /\ Providers # <<>>
  /\ Forms \subseteq [typed : Typed, on : BOOLEAN]
  /\ Models \subseteq Nat /\ IsFiniteSet(Models)
  /\ 0 \in Priorities /\ Priorities \subseteq Int
  /\ Secrets # {} /\ Main \notin Admins
  /\ None \notin Savers /\ None \notin Limits
  /\ None \notin ForgeRow /\ None \notin ModelRow
  /\ Default \in Nat \ {0} /\ Limits \subseteq Nat \ {0}
  /\ MaxSaves \in Nat /\ MaxFaults \in Nat /\ MaxStarts \in Nat \ {0}

VARIABLES
  env,        \* platforms with a token in the environment
  envmodel,   \* CR_LLM_MODEL is set
  forge,      \* forge_config: [on, token] or None
  model,      \* model_config: [on, priority, key] or None
  conc,       \* the row worker_concurrency or None
  up,         \* the program serves requests
  registry,   \* the token of the adapter of a platform, or None
  late,       \* what is installed was read before another commit
  bootlock,   \* worker_boot_lock: its holder or None
  replayed,   \* the key replayed into the environment, or None
  poller,     \* app.state.poller is there
  schedulers, \* schedulers that run
  worker,     \* the pool: the keys of its chain and its limit, or NoPool
  raced,      \* a limit was saved beside another save or beside a start
  job,        \* what a client is at
  saves, failed, starts

saved  == <<env, envmodel, forge, model, conc>>
memory == <<registry, late, bootlock, replayed, poller, schedulers, worker, raced>>
vars   == <<env, envmodel, forge, model, conc, up, registry, late, bootlock, replayed,
            poller, schedulers, worker, raced, job, saves, failed, starts>>

-----------------------------------------------------------------------------
(* What the configuration resolves to: config/repository.py                *)

\* resolve_forge: the environment wins; a row that is off is not there.
ResolveForge(p) ==
  IF p \in env THEN "environment"
  ELSE IF forge[p] # None /\ forge[p].on THEN forge[p].token ELSE None

\* build_adapter: none without a token.
Adapter(p) == IF ResolveForge(p) = Empty THEN None ELSE ResolveForge(p)

\* registered_providers asks the environment alone.
RegisteredByEnv == SelectSeq(Providers, LAMBDA p : p \in env)

Enabled == {m \in Models : model[m] # None /\ model[m].on}
Before(m, n) == \/ model[m].priority > model[n].priority
                \/ model[m].priority = model[n].priority /\ m < n

\* resolve_llm_chain: by priority, then by id; resolve_llm is its head.
Chain ==
  IF envmodel THEN <<"environment">>
  ELSE [i \in 1..Cardinality(Enabled) |->
          model[CHOOSE m \in Enabled :
                  Cardinality({n \in Enabled : Before(n, m)}) = i - 1].key]

\* apply_env_replay fills what is missing and never replaces it.
Replay ==
  IF replayed = None /\ ~envmodel /\ Head(Chain) # Empty THEN Head(Chain) ELSE replayed

Available == \E p \in Platforms : registry[p] # None
Limit     == IF conc = None THEN Default ELSE conc
NoAdapter == [p \in Platforms |-> None]
NoPool    == [chain |-> <<>>, limit |-> 0]

-----------------------------------------------------------------------------
(* The requests of administrators *)

At(c, pc) == job[c].pc = pc
Go(c, next) == job' = [job EXCEPT ![c] = next]

Idle == [pc |-> "idle"]

\* Mutant: what is saved waits for the next start.
RefreshSkipped == [pc |-> "boot"]

Refresh == [pc |-> "refresh", built |-> NoAdapter, todo |-> 1, stale |-> FALSE]

Begins(c, next) ==
  /\ up /\ c \in Admins /\ job[c] = Idle
  /\ saves < MaxSaves /\ saves' = saves + 1
  /\ Go(c, next)
  /\ UNCHANGED <<saved, up, memory, failed, starts>>

\* update_forge has read the row.
EditForge(c) ==
  \E p \in Platforms, form \in Forms :
    Begins(c, [pc |-> "save_forge", provider |-> p, typed |-> form.typed, on |-> form.on,
               loaded |-> forge[p]])

\* A masked form writes no token: the row keeps what it holds by now.
SecretOf(now, typed) == IF typed = Masked THEN now ELSE typed

\* Whoever has resolved the platform already has the token of before.
Overtaken(c, p) ==
  [d \in Savers |->
     IF d = c THEN Refresh
     ELSE IF At(d, "refresh") /\ \E i \in 1..(job[d].todo - 1) : Providers[i] = p
          THEN [job[d] EXCEPT !.stale = TRUE]
          ELSE job[d]]

\* The commit of update_forge; the unique index refuses a second new row.
\* Only what differs from the loaded row is written.
SaveForge(c) ==
  LET j == job[c]
      p == j.provider
  IN
  /\ At(c, "save_forge")
  /\ IF j.loaded = None /\ forge[p] # None
     THEN UNCHANGED forge /\ Go(c, Idle)
     ELSE /\ forge' = [forge EXCEPT ![p] =
                 IF j.loaded = None
                 THEN [on |-> j.on, token |-> SecretOf(Empty, j.typed)]
                 ELSE [on |-> IF j.on = j.loaded.on THEN @.on ELSE j.on,
                       token |-> SecretOf(@.token, j.typed)]]
          /\ job' = Overtaken(c, p)
  /\ UNCHANGED <<env, envmodel, model, conc, up, memory, saves, failed, starts>>

\* refresh_all resolves the platforms one after the other ...
Resolve(c) ==
  /\ At(c, "refresh") /\ job[c].todo <= Len(Providers)
  /\ LET p == Providers[job[c].todo]
     IN  Go(c, [pc |-> "refresh", built |-> [job[c].built EXCEPT ![p] = Adapter(p)],
                todo |-> job[c].todo + 1, stale |-> job[c].stale])
  /\ UNCHANGED <<saved, up, memory, saves, failed, starts>>

\* ... and replaces the table as a whole.  At a start the poller is made
\* here where there is a platform.
Install(c) ==
  /\ At(c, "refresh") /\ job[c].todo > Len(Providers)
  /\ registry' = job[c].built
  /\ late' = job[c].stale
  /\ poller' = (poller \/ (c = Main /\ job[c].built # NoAdapter))
  /\ Go(c, [pc |-> "boot"])
  /\ UNCHANGED <<saved, up, bootlock, replayed, schedulers, worker, raced, saves, failed, starts>>

\* create_model; a form with a masked key is refused.
CreateModel(c) ==
  /\ \E m \in Models, prio \in Priorities, form \in Forms :
       /\ model[m] = None /\ form.typed # Masked
       /\ model' = [model EXCEPT ![m] = [on |-> form.on, priority |-> prio, key |-> form.typed]]
  /\ up /\ c \in Admins /\ job[c] = Idle
  /\ saves < MaxSaves /\ saves' = saves + 1
  /\ Go(c, [pc |-> "boot"])
  /\ UNCHANGED <<env, envmodel, forge, conc, up, memory, failed, starts>>

EditModel(c) ==
  \E m \in Models, prio \in Priorities, form \in Forms :
    /\ model[m] # None
    /\ Begins(c, [pc |-> "save_model", id |-> m, typed |-> form.typed, on |-> form.on,
                  priority |-> prio, loaded |-> model[m]])

\* The commit of update_model writes the fields that differ from what was
\* loaded; a row deleted meanwhile fails it.
SaveModel(c) ==
  LET j == job[c] IN
  /\ At(c, "save_model")
  /\ IF model[j.id] = None
     THEN UNCHANGED model /\ Go(c, Idle)
     ELSE /\ model' = [model EXCEPT ![j.id] =
                 [on |-> IF j.on = j.loaded.on THEN @.on ELSE j.on,
                  priority |-> IF j.priority = j.loaded.priority THEN @.priority ELSE j.priority,
                  key |-> SecretOf(@.key, j.typed)]]
          /\ Go(c, [pc |-> "boot"])
  /\ UNCHANGED <<env, envmodel, forge, conc, up, memory, saves, failed, starts>>

\* delete_model leaves the worker alone.
DeleteModel(c) ==
  /\ up /\ c \in Admins /\ job[c] = Idle
  /\ saves < MaxSaves /\ saves' = saves + 1
  /\ \E m \in Models : model[m] # None /\ model' = [model EXCEPT ![m] = None]
  /\ UNCHANGED <<env, envmodel, forge, conc, up, memory, job, failed, starts>>

\* set_concurrency: the row first ...
SetLimit(c) ==
  /\ up /\ c \in Admins /\ job[c] = Idle
  /\ saves < MaxSaves /\ saves' = saves + 1
  /\ \E n \in Limits : conc' = n /\ Go(c, [pc |-> "resize", limit |-> n])
  /\ raced' = \E d \in Savers : At(d, "resize") \/ At(d, "schedule")
  /\ UNCHANGED <<env, envmodel, forge, model, up, registry, late, bootlock, replayed, poller,
                 schedulers, worker, failed, starts>>

\* ... and then the pool, where there is one.
Resize(c) ==
  /\ At(c, "resize")
  /\ worker' = IF worker = NoPool THEN NoPool ELSE [worker EXCEPT !.limit = job[c].limit]
  /\ Go(c, Idle)
  /\ UNCHANGED <<saved, up, registry, late, bootlock, replayed, poller, schedulers, raced,
                 saves, failed, starts>>

-----------------------------------------------------------------------------
(* ensure_worker_started *)

Served(c) == IF c = Main THEN up' = TRUE ELSE UNCHANGED up

\* Under the lock: a pool that is there is enough.
Enter(c) ==
  /\ At(c, "boot") /\ bootlock = None
  /\ IF worker # NoPool
     THEN Go(c, Idle) /\ Served(c) /\ UNCHANGED bootlock
     ELSE bootlock' = c /\ Go(c, [pc |-> "assemble"]) /\ UNCHANGED up
  /\ UNCHANGED <<saved, registry, late, replayed, poller, schedulers, worker, raced,
                 saves, failed, starts>>

\* build_reviewer and the registry; the limit is read before the scheduler
\* is started.
Assemble(c) ==
  /\ At(c, "assemble")
  /\ replayed' = IF Chain = <<>> THEN replayed ELSE Replay
  /\ IF Chain # <<>> /\ Available
     THEN /\ Go(c, [pc |-> "schedule", chain |-> Chain, limit |-> Limit])
          /\ poller' = TRUE
          /\ UNCHANGED <<bootlock, up>>
     ELSE Go(c, Idle) /\ Served(c) /\ bootlock' = None /\ UNCHANGED poller
  /\ UNCHANGED <<saved, registry, late, schedulers, worker, raced, saves, failed, starts>>

StartPool(c) ==
  /\ At(c, "schedule")
  /\ schedulers' = schedulers + 1
  /\ worker' = [chain |-> job[c].chain, limit |-> job[c].limit]
  /\ bootlock' = None
  /\ Go(c, Idle) /\ Served(c)
  /\ UNCHANGED <<saved, registry, late, replayed, poller, raced, saves, failed, starts>>

\* scheduler.start raises after it has started the scheduler itself, which
\* nobody stops: a save fails, a start of the program ends.
StartFails(c) ==
  /\ At(c, "schedule") /\ failed < MaxFaults
  /\ failed' = failed + 1
  /\ schedulers' = IF c = Main THEN 0 ELSE schedulers + 1
  /\ bootlock' = None
  /\ Go(c, Idle)
  /\ UNCHANGED <<saved, up, registry, late, replayed, poller, worker, raced, saves, starts>>

Ensure(c) == Enter(c) \/ Assemble(c) \/ StartPool(c) \/ StartFails(c)

-----------------------------------------------------------------------------
NoMemory ==
  /\ up' = FALSE
  /\ registry' = NoAdapter /\ late' = FALSE
  /\ bootlock' = None /\ replayed' = None /\ poller' = FALSE
  /\ schedulers' = 0 /\ worker' = NoPool /\ raced' = FALSE

\* The program starts, or ends at any moment and starts anew.
Start ==
  /\ starts < MaxStarts /\ starts' = starts + 1
  /\ NoMemory
  /\ job' = [c \in Savers |-> IF c = Main THEN Refresh ELSE Idle]
  /\ UNCHANGED <<saved, saves, failed>>

Init ==
  /\ env \in {{}, {Providers[1]}} /\ envmodel \in BOOLEAN
  \* What earlier runs of the program have saved.
  /\ LET old == CHOOSE s \in Secrets : TRUE IN
     /\ forge \in {NoAdapter} \cup {[NoAdapter EXCEPT ![p] = [on |-> TRUE, token |-> old]] :
                                      p \in Platforms}
     /\ model \in {[m \in Models |-> None],
                   [m \in Models |-> [on |-> TRUE, priority |-> 0, key |-> old]]}
  /\ conc = None
  /\ up = FALSE
  /\ registry = NoAdapter /\ late = FALSE
  /\ bootlock = None /\ replayed = None /\ poller = FALSE
  /\ schedulers = 0 /\ worker = NoPool /\ raced = FALSE
  /\ job = [c \in Savers |-> Idle]
  /\ saves = 0 /\ failed = 0 /\ starts = 0

Work(c) == SaveForge(c) \/ Resolve(c) \/ Install(c) \/ SaveModel(c) \/ Resize(c) \/ Ensure(c)
Edit(c) == EditForge(c) \/ CreateModel(c) \/ EditModel(c) \/ DeleteModel(c) \/ SetLimit(c)

Next == Start \/ \E c \in Savers : Work(c) \/ Edit(c)

Spec == Init /\ [][Next]_vars

-----------------------------------------------------------------------------
(* Properties *)

\* Types; the lock has a holder that is inside, the worker has a chain, and
\* one scheduler runs beyond those whose start has failed.
TypeOK ==
  /\ forge \in [Platforms -> ForgeRow \cup {None}]
  /\ model \in [Models -> ModelRow \cup {None}]
  /\ \A c \in Savers : At(c, "assemble") \/ At(c, "schedule") <=> bootlock = c
  /\ worker # NoPool => worker.chain # <<>> /\ poller
  /\ schedulers <= failed + 1
  /\ worker # NoPool => schedulers >= 1

Quiet == up /\ \A c \in Savers : job[c] = Idle

\* When all saves are done the adapters are those of the rows and the
\* environment, unless the last table installed was read before another
\* save's commit (forges/registry.py refresh_all, "hot": saved is in force).
RegistryCurrent == Quiet /\ ~late => \A p \in Platforms : registry[p] = Adapter(p)

\* When all saves are done a worker runs wherever a model and a platform are
\* at hand, unless its scheduler did not start; and it runs at the limit that
\* is saved, unless that save met another one or the start itself
\* (ops/bootstrap.py, "configured is in force, without a restart").
WorkerServes ==
  Quiet =>
    /\ Chain # <<>> /\ Available /\ failed = 0 => worker # NoPool
    /\ worker # NoPool /\ ~raced => worker.limit = Limit

\* A secret changes only by a form in which it was typed: an overlapping
\* form that shows the mask does not bring the old one back.
MaskKeepsSecret ==
  [][/\ \A p \in Platforms :
          forge[p] # None /\ forge'[p].token # forge[p].token =>
            \E c \in Admins : At(c, "save_forge") /\ job[c].typed = forge'[p].token
     /\ \A m \in Models :
          model[m] # None /\ model'[m] # None /\ model'[m].key # model[m].key =>
            \E c \in Admins : At(c, "save_model") /\ job[c].typed = model'[m].key]_vars
=============================================================================
