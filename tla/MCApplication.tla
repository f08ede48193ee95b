------------------------------ MODULE MCApplication -----------------------------
(* An application as its main serves it, whose second lifespan loads settings   *)
(* while others load; or as a test boots it, which has no settings.            *)
EXTENDS Application, TLC

CONSTANTS Call, Cookie, Value, None

VARIABLES task, address, caller, jar, call, received

Client == INSTANCE TestClient

MCPrefix == {"APP", "JOB"}

Field1(h, p) == [host |-> h, port |-> p]
Line(prefix, name, value) == [name |-> <<prefix, name>>, value |-> value]

\* The names of environments are values of variables as well: "prod" is a name.
ByName(development, prod) == [development |-> development, prod |-> prod]

Boots == [
  prefix |-> "APP",
  dotenv |-> <<Line("APP", "ENV", "prod"), Line("APP", "port", "dotenv"), Malformed,
               Line("APP", "host", "dotenv")>>,
  config_file |-> Field1("config", "config"),
  files |-> <<ByName(Nothing, Field1(Unset, "file")), ByName(Malformed, Nothing)>>,
  secrets |-> {[key |-> "host", value |-> "secret"], [key |-> "host", value |-> "SECRET"]},
  overrides |-> Nothing,
  defaults |-> Field1(Unset, "default")]

\* Another loader of the same variables, with a `.env` file of its own.
Same == [
  prefix |-> "APP",
  dotenv |-> <<Line("APP", "port", "other"), Line("APP", "port", "again"), Line("APP", "ENV", "development")>>,
  config_file |-> Nothing,
  files |-> <<ByName(Field1("file", "file"), Malformed)>>,
  secrets |-> {},
  overrides |-> Nothing,
  defaults |-> Field1("default", Unset)]

\* One of other variables, whose overrides may be wrong.
Other == [
  prefix |-> "JOB",
  dotenv |-> <<Line("JOB", "host", "dotenv"), Line("APP", "port", "low")>>,
  config_file |-> Field1("config", Unset),
  files |-> <<>>,
  secrets |-> {[key |-> "port", value |-> "junk"]},
  overrides |-> Field1(Unset, "low"),
  defaults |-> Nothing]

MCDeclared == [boot |-> Boots, same |-> Same, other |-> Other]

\* Nothing set, or some of the variables of APP.
MCEnvironments ==
  {[[v \in Variable |-> Unset] EXCEPT ![<<"APP", "ENV">>] = name, ![<<"APP", "port">>] = port] :
     name \in {Unset, "prod", "development"}, port \in {Unset, "real", "low", "junk"}}

MCValid == {"dotenv", "config", "file", "secret", "SECRET", "default", "other", "again", "real"}
MCParsable == MCValid \cup {"low"}

client == <<task, address, caller, jar, call, received>>

MCInit ==
  \/ /\ ApplicationInit
     /\ task = "none" /\ address = "none" /\ caller = "none"
     /\ jar = None /\ call = None /\ received = <<>>
  \/ /\ Client!Init
     /\ SettingsInit /\ env = [v \in Variable |-> Unset]

MCNext ==
  \/ caller = "none" /\ ApplicationNext /\ UNCHANGED client
  \/ caller # "none" /\ Client!Next /\ UNCHANGED settings

MCSpec == MCInit /\ [][MCNext]_<<app, settings, client>> /\ Client!Fairness

\* What a client owes its test, in TestClient: it comes up with the application and goes
\* down with it (client.rs:386-461).
ClientContract == Client!ClientContract

\* The cookies of a tested application, in TestClient: none is lost between requests
\* (client.rs:189).
SessionCarried == caller # "none" => Client!SessionCarried
=============================================================================
