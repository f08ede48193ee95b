-------------------------------- MODULE Settings --------------------------------
(****************************************************************************)
(* SettingsLoader (tork-core/src/settings.rs, env.rs) and what #[settings]   *)
(* makes of a struct (tork-macros/src/settings.rs): loads that run at once,  *)
(* share the process environment, and write to it from their `.env` files.   *)
(*                                                                           *)
(* A variable is <<prefix, name>>: the name of a field, nested or not, or    *)
(* "ENV". A layer, what one source says, gives each field a value or Unset.  *)
(****************************************************************************)
EXTENDS Naturals, Sequences, Functions

CONSTANTS
  Loader,        \* the calls of load
  Field,         \* the fields of the struct, those of nested groups included
  Prefix,        \* the prefixes of the loaders
  Declared,      \* for each loader, the attributes of its struct and its sources
  Environments,  \* the environments in which the process may be started
  Parsable,      \* the values that the type of a field accepts
  Valid,         \* the values that also pass its validation
  Malformed,     \* a line of a `.env` file, or a file, that cannot be parsed
  Unset

ASSUME ValuesAssumption == Valid \subseteq Parsable /\ Unset \notin Parsable
ASSUME UnsetAssumption == Unset \notin Loader

\* What a source gives is a value.
ASSUME DeclaredAssumption == \A l \in Loader :
  LET lines == Declared[l].dotenv
      files == Declared[l].files IN
  /\ lines \in Seq(Range(lines)) /\ files \in Seq(Range(files))
  /\ \A i \in DOMAIN lines : lines[i] # Malformed => lines[i].value # Unset
  /\ \A s \in Declared[l].secrets : s.value # Unset

Variable == Prefix \X (Field \cup {"ENV"})

ASSUME EnvironmentsAssumption == \A e \in Environments : e = [v \in Variable |-> e[v]]

VARIABLES
  env,     \* the process environment
  holder,  \* who holds env_lock
  load     \* each load: how far it is, what it merged, and its result

settings == <<env, holder, load>>

Nothing == [f \in Field |-> Unset]

NewLoad == [at |-> "idle", seen |-> Unset, lines |-> <<>>, files |-> <<>>, broken |-> FALSE,
            value |-> Nothing, secrets |-> {}, result |-> "none"]

SettingsInit ==
  /\ env \in Environments
  /\ holder = Unset
  /\ load = [l \in Loader |-> NewLoad]

\* (Mutant) Loads do not exclude one another.
FreeAlways == TRUE

\* env_guard.
Free == holder = Unset

\* load: the lock is held until the value is there. (seen is not in the code.)
Acquire(l) ==
  /\ load[l].at = "idle" /\ Free
  /\ holder' = l
  /\ load' = [load EXCEPT ![l].at = "dotenv", ![l].seen = env, ![l].lines = Declared[l].dotenv]
  /\ UNCHANGED env

\* dotenvy sets a variable that has no value yet; it stops at a line it cannot
\* parse, and load ignores that error.
ReadLine(l) ==
  /\ load[l].at = "dotenv" /\ load[l].lines # <<>>
  /\ LET line == Head(load[l].lines) IN
       IF line = Malformed
       THEN load' = [load EXCEPT ![l].lines = <<>>] /\ UNCHANGED env
       ELSE /\ load' = [load EXCEPT ![l].lines = Tail(@)]
            /\ env' = [env EXCEPT ![line.name] = IF @ = Unset THEN line.value ELSE @]
  /\ UNCHANGED holder

\* Figment::merge: the fields that the new layer gives win.
Over(base, layer) == [f \in Field |-> IF layer[f] = Unset THEN base[f] ELSE layer[f]]

\* environment_name.
EnvironmentName(l, e) ==
  LET name == e[<<Declared[l].prefix, "ENV">>] IN IF name = Unset THEN "development" ELSE name

\* The base file, then the environment's, with `{env}` resolved.
Files(l, name) == <<Declared[l].config_file>> \o
  [i \in DOMAIN Declared[l].files |-> Declared[l].files[i][name]]

ResolveFiles(l) ==
  /\ load[l].at = "dotenv" /\ load[l].lines = <<>>
  /\ load' = [load EXCEPT ![l].at = "files", ![l].files = Files(l, EnvironmentName(l, env))]
  /\ UNCHANGED <<env, holder>>

\* A file that is missing gives nothing, one that is no TOML breaks the whole figment.
MergeFile(l) ==
  /\ load[l].at = "files" /\ load[l].files # <<>>
  /\ LET file == Head(load[l].files) IN
       load' = IF file = Malformed THEN [load EXCEPT ![l].files = Tail(@), ![l].broken = TRUE]
               ELSE [load EXCEPT ![l].files = Tail(@), ![l].value = Over(@, file)]
  /\ UNCHANGED <<env, holder>>

\* env_provider.
Provided(l, e) == [f \in Field |-> e[<<Declared[l].prefix, f>>]]

MergeEnv(l) ==
  /\ load[l].at = "files" /\ load[l].files = <<>>
  /\ load' = [load EXCEPT ![l].at = "secrets", ![l].value = Over(@, Provided(l, env)),
                          ![l].secrets = Declared[l].secrets]
  /\ UNCHANGED <<env, holder>>

\* read_secrets: the directory lists its files in any order. Two whose names differ in
\* case only have the same key, and insert_nested keeps the later one.
ReadSecret(l) ==
  /\ load[l].at = "secrets"
  /\ \E file \in load[l].secrets :
       load' = [load EXCEPT ![l].secrets = @ \ {file}, ![l].value[file.key] = file.value]
  /\ UNCHANGED <<env, holder>>

\* extract, into a struct whose fields may have defaults, then validate.
Judged(l, broken, value) ==
  LET full == Over(Declared[l].defaults, value) IN
    IF broken \/ \E f \in Field : full[f] \notin Parsable THEN [status |-> "CONFIG_LOAD_FAILED"]
    ELSE IF \E f \in Field : full[f] \notin Valid THEN [status |-> "CONFIG_VALIDATION_ERROR"]
    ELSE [status |-> "loaded", value |-> full]

\* The overrides, and the result; the lock is released either way.
Finish(l) ==
  /\ load[l].at = "secrets" /\ load[l].secrets = {}
  /\ load' = [load EXCEPT ![l].at = "done",
       ![l].result = Judged(l, load[l].broken, Over(load[l].value, Declared[l].overrides))]
  /\ holder' = Unset
  /\ UNCHANGED env

Loading(l) ==
  \/ ReadLine(l) \/ ResolveFiles(l) \/ MergeFile(l) \/ MergeEnv(l) \/ ReadSecret(l)
  \/ Finish(l)

-----------------------------------------------------------------------------
(* Properties *)

\* The environment for a load by itself that begins when it is `seen`: a variable keeps
\* its value, or has what the first line of the `.env` file that sets it gives.
Alone(l, seen) ==
  LET lines == Declared[l].dotenv
      read  == {i \in DOMAIN lines : \A j \in 1 .. i : lines[j] # Malformed}
      sets(v) == {i \in read : lines[i].name = v}
  IN  [v \in Variable |->
        IF seen[v] # Unset \/ sets(v) = {} THEN seen[v]
        ELSE lines[CHOOSE i \in sets(v) : \A j \in sets(v) : i <= j].value]

\* The sources from the lowest to the highest, in environment e; each offers a field a
\* set of values.
Sources(l, e) ==
  LET each(layer) == [f \in Field |-> {layer[f]} \ {Unset}]
      files == Files(l, EnvironmentName(l, e))
  IN  <<each(Declared[l].defaults)>> \o [i \in DOMAIN files |-> each(files[i])]
      \o <<each(Provided(l, e)),
           [f \in Field |-> {s.value : s \in {s \in Declared[l].secrets : s.key = f}}],
           each(Declared[l].overrides)>>

\* Every field has a value of the highest source that gives it one.
Explained(l, e, result) ==
  LET files == Files(l, EnvironmentName(l, e))
      from  == Sources(l, e)
      given(f) == {i \in DOMAIN from : from[i][f] # {}}
      highest(f) == IF given(f) = {} THEN {Unset}
                    ELSE from[CHOOSE i \in given(f) : \A j \in given(f) : j <= i][f]
  IN  IF \E i \in DOMAIN files : files[i] = Malformed
      THEN result.status = "CONFIG_LOAD_FAILED"
      ELSE \E chosen \in [Field -> UNION {highest(f) : f \in Field}] :
             /\ \A f \in Field : chosen[f] \in highest(f)
             /\ result =
                  (IF Range(chosen) \subseteq Valid THEN [status |-> "loaded", value |-> chosen]
                   ELSE IF Range(chosen) \subseteq Parsable
                        THEN [status |-> "CONFIG_VALIDATION_ERROR"]
                        ELSE [status |-> "CONFIG_LOAD_FAILED"])

\* A load that ends is explained by its own sources and the environment it found when it
\* began, whatever other loads read and write meanwhile; and it fails exactly if a file,
\* or a field resolved in that way, cannot be parsed or does not pass (settings.rs:6,
\* docs/13:79).
LoadExplained ==
  \A l \in Loader : load[l].at = "done" => Explained(l, Alone(l, load[l].seen), load[l].result)

=============================================================================
